----------------------------- MODULE TranscriptProofs -----------------------------
(* Proofs about the module Transcript: sequences and what is picked from them, the       *)
(* journal, the projection, the rows, what is read back, and what a run knows.           *)
EXTENDS Transcript, FiniteSetTheorems, SequenceTheorems, WellFoundedInduction, TLAPS

\* The order of the natural numbers is well founded.
LEMMA NatWellFounded ==
  \E R : IsWellFoundedOn(R, Nat) /\ \A x, y \in Nat : x < y => <<x, y>> \in R
<1>1. IsWellFoundedOn(OpToRel(<, Nat), Nat)
  BY NatLessThanWellFounded
<1>2. \A x, y \in Nat : x < y => <<x, y>> \in OpToRel(<, Nat)
  BY DEF OpToRel
<1> QED BY <1>1, <1>2

\* A set of numbers has a least one: all inductions below rest on it.
LEMMA LeastNatural ==
  ASSUME NEW T, T \in SUBSET Nat, T # {}
  PROVE  \E n \in T : \A m \in T : n <= m
<1>1. PICK R : IsWellFoundedOn(R, Nat) /\ \A x, y \in Nat : x < y => <<x, y>> \in R
  BY NatWellFounded
<1>2. IsWellFoundedOn(R, Nat) /\ T \subseteq Nat
  BY <1>1
<1>3. \E x \in T : \A y \in T : ~(<<y, x>> \in R)
  BY <1>2, WFMin
<1>4. PICK x \in T : \A y \in T : ~(<<y, x>> \in R)
  BY <1>3
<1>5. ASSUME NEW y \in T  PROVE x <= y
  <2>1. x \in Nat /\ y \in Nat /\ ~(<<y, x>> \in R)
    BY <1>2, <1>4
  <2>2. ~(y < x)
    BY <1>1, <2>1, Zenon
  <2> QED  BY <2>1, <2>2
<1> QED BY <1>5

\* Induction from m to n, stated with the set of the numbers that have the property.
LEMMA SetInduction ==
  ASSUME NEW S, NEW m \in Nat, NEW n \in Nat, m \in S,
         \A i \in m .. n - 1 : i \in S => i + 1 \in S
  PROVE  \A i \in m .. n : i \in S
<1> DEFINE T == {i \in m .. n : i \notin S}
<1>1. SUFFICES ASSUME T # {}  PROVE FALSE
  OBVIOUS
<1>2. T \in SUBSET Nat
  OBVIOUS
<1>3. PICK k \in T : \A i \in T : k <= i
  <2> HIDE DEF T
  <2> QED BY <1>1, <1>2, LeastNatural
<1>4. k \in m .. n /\ k \notin S /\ k # m
  BY <1>3
<1>5. k - 1 \in m .. n - 1 /\ k - 1 \notin T
  BY <1>3, <1>4
<1>6. k - 1 \in S
  BY <1>5
<1>7. (k - 1) + 1 \in S
  BY <1>5, <1>6
<1> QED BY <1>4, <1>7

\* A function with the recursion of FlattenSeq, up to n.
Flattens(seqs, n, g) ==
  g = [i \in 1 .. n |-> IF i = 1 THEN seqs[i] ELSE g[i - 1] \o seqs[i]]

\* FlattenSeq is defined by a CHOOSE; what is chosen exists.
LEMMA FlatteningExists ==
  ASSUME NEW seqs, NEW n \in Nat
  PROVE  \E g : Flattens(seqs, n, g)
<1> DEFINE S == {k \in Nat : \E g : Flattens(seqs, k, g)}
<1>1. 0 \in S
  <2>1. Flattens(seqs, 0, [i \in {} |-> {}])
    BY DEF Flattens
  <2> QED BY <2>1
<1>2. ASSUME NEW k \in 0 .. n - 1, k \in S  PROVE k + 1 \in S
  <2>1. PICK g : Flattens(seqs, k, g)
    BY <1>2
  <2> DEFINE h == [i \in 1 .. k + 1 |-> IF i <= k THEN g[i] ELSE
                                         IF i = 1 THEN seqs[i] ELSE g[i - 1] \o seqs[i]]
  <2>2. \A i \in 1 .. k : g[i] = IF i = 1 THEN seqs[i] ELSE g[i - 1] \o seqs[i]
    BY <2>1 DEF Flattens
  <2>3. \A i \in 1 .. k + 1 : h[i] = IF i = 1 THEN seqs[i] ELSE h[i - 1] \o seqs[i]
    BY <2>2
  <2>4. Flattens(seqs, k + 1, h)
    <3> h = [i \in 1 .. k + 1 |-> h[i]]
      OBVIOUS
    <3> HIDE DEF h
    <3> QED BY <2>3 DEF Flattens
  <2> HIDE DEF h
  <2> QED BY <2>4
<1>3. \A k \in 0 .. n : k \in S
  <2> HIDE DEF S
  <2> QED BY <1>1, <1>2, SetInduction
<1> QED BY <1>3

\* The flattening of a sequence of sequences is made from left to right.
LEMMA FlattenSeqSteps ==
  ASSUME NEW seqs, Len(seqs) \in Nat, Len(seqs) # 0
  PROVE  \E g : /\ FlattenSeq(seqs) = g[Len(seqs)]
                /\ g[1] = seqs[1]
                /\ \A i \in 2 .. Len(seqs) : g[i] = g[i - 1] \o seqs[i]
<1> DEFINE n == Len(seqs)
           g == CHOOSE f : f = [i \in 1 .. n |-> IF i = 1 THEN seqs[i] ELSE f[i - 1] \o seqs[i]]
<1>1. FlattenSeq(seqs) = g[n]
  BY DEF FlattenSeq
<1>2. g = [i \in 1 .. n |-> IF i = 1 THEN seqs[i] ELSE g[i - 1] \o seqs[i]]
  BY FlatteningExists DEF Flattens
<1> HIDE DEF g
<1>3. \A i \in 1 .. n : g[i] = IF i = 1 THEN seqs[i] ELSE g[i - 1] \o seqs[i]
  BY <1>2
<1>4. g[1] = seqs[1]
  <2>1. 1 \in 1 .. n
    OBVIOUS
  <2> QED BY <1>3, <2>1
<1>5. ASSUME NEW i \in 2 .. n  PROVE g[i] = g[i - 1] \o seqs[i]
  <2>1. i \in 1 .. n /\ i # 1
    OBVIOUS
  <2> QED BY <1>3, <2>1
<1> QED BY <1>1, <1>4, <1>5

\* A bounded set of numbers has a greatest one.
LEMMA GreatestNatural ==
  ASSUME NEW T, T \in SUBSET Nat, T # {}, NEW b \in Nat, \A n \in T : n <= b
  PROVE  /\ Max(T) \in T
         /\ \A m \in T : m <= Max(T)
<1> DEFINE U == {b - n : n \in T}
<1>1. U \in SUBSET Nat /\ U # {}
  <2>1. \A n \in T : b - n \in Nat
    OBVIOUS
  <2> QED BY <2>1
<1>2. PICK u \in U : \A v \in U : u <= v
  <2> HIDE DEF U
  <2> QED BY <1>1, LeastNatural
<1>3. PICK n \in T : u = b - n
  BY <1>2
<1>4. \A m \in T : n >= m
  <2> SUFFICES ASSUME NEW m \in T  PROVE n >= m
    OBVIOUS
  <2>1. b - m \in U /\ m \in Nat /\ n \in Nat
    BY <1>3
  <2>2. u <= b - m
    BY <1>2, <2>1
  <2> QED BY <1>3, <2>1, <2>2
<1>5. Max(T) \in T /\ \A m \in T : Max(T) >= m
  BY <1>3, <1>4 DEF Max
<1> QED BY <1>5

\* The elements of a concatenation are those of its parts.
LEMMA ToSetConcat ==
  ASSUME NEW A, NEW s \in Seq(A), NEW t \in Seq(A)
  PROVE  s \o t \in Seq(A) /\ ToSet(s \o t) = ToSet(s) \cup ToSet(t)
<1>1. /\ s \o t \in Seq(A)
      /\ Len(s \o t) = Len(s) + Len(t)
      /\ \A i \in 1 .. Len(s) + Len(t) :
           (s \o t)[i] = IF i <= Len(s) THEN s[i] ELSE t[i - Len(s)]
  BY ConcatProperties
<1>2. /\ Len(s) \in Nat /\ DOMAIN s = 1 .. Len(s)
      /\ Len(t) \in Nat /\ DOMAIN t = 1 .. Len(t)
      /\ DOMAIN (s \o t) = 1 .. Len(s) + Len(t)
  BY <1>1
<1>3. ASSUME NEW x \in ToSet(s \o t)  PROVE x \in ToSet(s) \cup ToSet(t)
  <2>1. PICK i \in 1 .. Len(s) + Len(t) : x = (s \o t)[i]
    BY <1>2, <1>3 DEF ToSet
  <2>2. CASE i <= Len(s)
    BY <1>1, <1>2, <2>1, <2>2 DEF ToSet
  <2>3. CASE i > Len(s)
    <3>1. i - Len(s) \in DOMAIN t /\ x = t[i - Len(s)]
      BY <1>1, <1>2, <2>1, <2>3
    <3> QED BY <3>1 DEF ToSet
  <2> QED BY <1>2, <2>2, <2>3
<1>4. ASSUME NEW x \in ToSet(s)  PROVE x \in ToSet(s \o t)
  BY <1>1, <1>2 DEF ToSet
<1>5. ASSUME NEW x \in ToSet(t)  PROVE x \in ToSet(s \o t)
  <2>1. PICK i \in 1 .. Len(t) : x = t[i]
    BY <1>2, <1>5 DEF ToSet
  <2>2. i + Len(s) \in DOMAIN (s \o t) /\ (s \o t)[i + Len(s)] = t[i]
    BY <1>1, <1>2, <2>1
  <2> QED BY <2>1, <2>2 DEF ToSet
<1> QED BY <1>1, <1>3, <1>4, <1>5

\* What Only leaves is picked from left to right.
Picked(g, s, S, n) ==
  \E f \in [1 .. Len(g) -> 1 .. n] :
    /\ \A i, j \in 1 .. Len(g) : i < j => f[i] < f[j]
    /\ \A i \in 1 .. Len(g) : g[i] = s[f[i]] /\ s[f[i]] \in S
    /\ \A k \in 1 .. n : s[k] \in S => \E i \in 1 .. Len(g) : f[i] = k

\* First, nothing.
LEMMA NothingPicked ==
  ASSUME NEW s, NEW S
  PROVE  Picked(<<>>, s, S, 0)
<1> DEFINE f == [i \in 1 .. 0 |-> i]
<1>1. Len(<<>>) = 0 /\ 1 .. 0 = {}
  OBVIOUS
<1>2. f \in [1 .. 0 -> 1 .. 0]
  OBVIOUS
<1> HIDE DEF f
<1> QED BY <1>1, <1>2 DEF Picked

\* One element more.
LEMMA PickedOneMore ==
  ASSUME NEW A, NEW s \in Seq(A), NEW S, NEW n \in Nat, n + 1 \in 1 .. Len(s),
         NEW g \in Seq(A), Picked(g, s, S, n),
         NEW h, h = g \o (IF s[n + 1] \in S THEN <<s[n + 1]>> ELSE <<>>),
         NEW m, m = n + 1
  PROVE  h \in Seq(A) /\ Picked(h, s, S, m)
<1>1. PICK f \in [1 .. Len(g) -> 1 .. n] :
        /\ \A i, j \in 1 .. Len(g) : i < j => f[i] < f[j]
        /\ \A i \in 1 .. Len(g) : g[i] = s[f[i]] /\ s[f[i]] \in S
        /\ \A k \in 1 .. n : s[k] \in S => \E i \in 1 .. Len(g) : f[i] = k
  BY DEF Picked
<1>2. Len(g) \in Nat /\ s[n + 1] \in A
  OBVIOUS
<1>3. CASE s[n + 1] \in S
  <2> DEFINE e == [i \in 1 .. Len(g) + 1 |-> IF i <= Len(g) THEN f[i] ELSE n + 1]
  <2>1. /\ h \in Seq(A) /\ Len(h) = Len(g) + 1 /\ h[Len(g) + 1] = s[n + 1]
        /\ \A i \in 1 .. Len(g) : h[i] = g[i]
    <3>1. h = Append(g, s[n + 1])
      BY <1>2, <1>3
    <3> QED BY <1>2, <3>1
  <2>2. /\ \A i \in 1 .. Len(g) : e[i] = f[i] /\ e[i] \in 1 .. n
        /\ e[Len(g) + 1] = n + 1
    <3>1. \A i \in 1 .. Len(g) : f[i] \in 1 .. n
      OBVIOUS
    <3>2. \A i \in 1 .. Len(g) : e[i] = f[i]
      BY <1>2
    <3> QED BY <1>2, <3>1, <3>2
  <2>3. e \in [1 .. Len(h) -> 1 .. n + 1]
    BY <1>2, <2>1
  <2> HIDE DEF e
  <2>4. \A i, j \in 1 .. Len(h) : i < j => e[i] < e[j]
    <3> SUFFICES ASSUME NEW i \in 1 .. Len(h), NEW j \in 1 .. Len(h), i < j  PROVE e[i] < e[j]
      OBVIOUS
    <3>1. i \in 1 .. Len(g)
      BY <1>2, <2>1
    <3>2. CASE j = Len(g) + 1
      BY <2>2, <3>1, <3>2
    <3>3. CASE j # Len(g) + 1
      BY <1>1, <1>2, <2>1, <2>2, <3>1, <3>3
    <3> QED BY <3>2, <3>3
  <2>5. \A i \in 1 .. Len(h) : h[i] = s[e[i]] /\ s[e[i]] \in S
    <3> SUFFICES ASSUME NEW i \in 1 .. Len(h)  PROVE h[i] = s[e[i]] /\ s[e[i]] \in S
      OBVIOUS
    <3>1. CASE i = Len(g) + 1
      BY <1>3, <2>1, <2>2, <3>1
    <3>2. CASE i # Len(g) + 1
      <4>1. i \in 1 .. Len(g)
        BY <1>2, <2>1, <3>2
      <4> QED BY <1>1, <2>1, <2>2, <4>1
    <3> QED BY <3>1, <3>2
  <2>6. \A k \in 1 .. n + 1 : s[k] \in S => \E i \in 1 .. Len(h) : e[i] = k
    <3> SUFFICES ASSUME NEW k \in 1 .. n + 1, s[k] \in S  PROVE \E i \in 1 .. Len(h) : e[i] = k
      OBVIOUS
    <3>1. CASE k = n + 1
      BY <1>2, <2>1, <2>2, <3>1
    <3>2. CASE k # n + 1
      <4>1. PICK i \in 1 .. Len(g) : f[i] = k
        BY <1>1, <3>2
      <4>2. i \in 1 .. Len(h) /\ e[i] = k
        BY <1>2, <2>1, <2>2, <4>1
      <4> QED BY <4>2
    <3> QED BY <3>1, <3>2
  <2>7. Picked(h, s, S, n + 1)
    BY <2>3, <2>4, <2>5, <2>6 DEF Picked
  <2> QED BY <2>1, <2>7
<1>4. CASE s[n + 1] \notin S
  <2>1. h = g
    BY <1>4
  <2>2. f \in [1 .. Len(g) -> 1 .. n + 1]
    OBVIOUS
  <2>3. \A k \in 1 .. n + 1 : s[k] \in S => \E i \in 1 .. Len(g) : f[i] = k
    <3> SUFFICES ASSUME NEW k \in 1 .. n + 1, s[k] \in S  PROVE \E i \in 1 .. Len(g) : f[i] = k
      OBVIOUS
    <3>1. k \in 1 .. n
      BY <1>4
    <3> QED BY <1>1, <3>1
  <2>4. Picked(g, s, S, n + 1)
    BY <1>1, <2>2, <2>3 DEF Picked
  <2> QED BY <2>1, <2>4
<1> QED BY <1>3, <1>4

\* What Only leaves of a sequence.
LEMMA OnlyPicks ==
  ASSUME NEW A, NEW s \in Seq(A), NEW S
  PROVE  Only(s, S) \in Seq(A) /\ Picked(Only(s, S), s, S, Len(s))
<1> DEFINE one(i) == IF s[i] \in S THEN <<s[i]>> ELSE <<>>
           seqs == [i \in DOMAIN s |-> one(i)]
<1>1. Len(s) \in Nat /\ DOMAIN s = 1 .. Len(s)
  OBVIOUS
<1>2. seqs \in Seq(Seq(A)) /\ Len(seqs) = Len(s)
  <2>1. \A i \in 1 .. Len(s) : one(i) \in Seq(A)
    BY <1>1
  <2>2. seqs \in [1 .. Len(s) -> Seq(A)]
    BY <1>1, <2>1
  <2> HIDE DEF seqs
  <2> QED BY <1>1, <2>2
<1>3. Only(s, S) = FlattenSeq(seqs)
  BY DEF Only
<1>4. CASE Len(s) = 0
  <2>1. FlattenSeq(seqs) = seqs
    <3> HIDE DEF seqs
    <3> QED BY <1>2, <1>4 DEF FlattenSeq
  <2>2. seqs = <<>>
    <3> HIDE DEF seqs
    <3> QED BY <1>2, <1>4
  <2> HIDE DEF seqs
  <2> QED BY <1>3, <1>4, <2>1, <2>2, NothingPicked
<1>5. CASE Len(s) # 0
  <2>1. PICK g : /\ FlattenSeq(seqs) = g[Len(seqs)]
                 /\ g[1] = seqs[1]
                 /\ \A i \in 2 .. Len(seqs) : g[i] = g[i - 1] \o seqs[i]
    <3> HIDE DEF seqs
    <3> QED BY <1>1, <1>2, <1>5, FlattenSeqSteps
  <2>0. \A i \in 1 .. Len(s) : seqs[i] = one(i)
    BY <1>1
  <2> HIDE DEF seqs
  <2> DEFINE T == {i \in 1 .. Len(s) : g[i] \in Seq(A) /\ Picked(g[i], s, S, i)}
  <2>2. 1 \in T
    <3>2. Picked(<<>>, s, S, 0) /\ <<>> \in Seq(A)
      BY NothingPicked
    <3>3. g[1] = <<>> \o one(0 + 1)
      <4>1. g[1] = one(1)
        BY <1>1, <1>5, <2>0, <2>1
      <4>2. one(1) \in Seq(A)
        BY <1>1, <1>5
      <4> QED BY <4>1, <4>2
    <3>4. g[1] \in Seq(A) /\ Picked(g[1], s, S, 1)
      <4>1. 0 \in Nat /\ 0 + 1 \in 1 .. Len(s) /\ 1 = 0 + 1
        BY <1>1, <1>5
      <4> QED BY <3>2, <3>3, <4>1, PickedOneMore
    <3> QED BY <1>1, <1>5, <3>4
  <2>3. ASSUME NEW i \in 1 .. Len(s) - 1, i \in T  PROVE i + 1 \in T
    <3>1. i + 1 \in 2 .. Len(seqs) /\ (i + 1) - 1 = i /\ i + 1 \in 1 .. Len(s) /\ i \in Nat
      BY <1>1, <1>2
    <3>2. g[i + 1] = g[i] \o one(i + 1)
      BY <2>0, <2>1, <3>1
    <3>3. g[i] \in Seq(A) /\ Picked(g[i], s, S, i)
      BY <2>3
    <3>4. g[i + 1] \in Seq(A) /\ Picked(g[i + 1], s, S, i + 1)
      BY <3>1, <3>2, <3>3, PickedOneMore
    <3> QED BY <3>1, <3>4
  <2>4. \A i \in 1 .. Len(s) : i \in T
    <3> HIDE DEF T
    <3> QED BY <1>1, <1>5, <2>2, <2>3, SetInduction
  <2>5. Len(s) \in T
    <3> HIDE DEF T
    <3> QED BY <1>1, <1>5, <2>4
  <2> QED BY <1>2, <1>3, <2>1, <2>5
<1> QED BY <1>4, <1>5

\* Its elements.
LEMMA OnlyElements ==
  ASSUME NEW A, NEW s \in Seq(A), NEW S
  PROVE  Only(s, S) \in Seq(A) /\ ToSet(Only(s, S)) = ToSet(s) \cap S
<1>1. PICK f \in [1 .. Len(Only(s, S)) -> 1 .. Len(s)] :
        /\ \A i \in 1 .. Len(Only(s, S)) : Only(s, S)[i] = s[f[i]] /\ s[f[i]] \in S
        /\ \A k \in 1 .. Len(s) : s[k] \in S => \E i \in 1 .. Len(Only(s, S)) : f[i] = k
  <2>1. Picked(Only(s, S), s, S, Len(s))
    BY OnlyPicks
  <2> QED BY <2>1 DEF Picked
<1>2. Only(s, S) \in Seq(A)
  BY OnlyPicks
<1>3. DOMAIN s = 1 .. Len(s) /\ DOMAIN Only(s, S) = 1 .. Len(Only(s, S))
  BY <1>2
<1>4. ASSUME NEW x \in ToSet(Only(s, S))  PROVE x \in ToSet(s) \cap S
  BY <1>1, <1>3 DEF ToSet
<1>5. ASSUME NEW x \in ToSet(s) \cap S  PROVE x \in ToSet(Only(s, S))
  <2>1. PICK k \in 1 .. Len(s) : x = s[k]
    BY <1>3 DEF ToSet
  <2>2. PICK i \in 1 .. Len(Only(s, S)) : f[i] = k
    BY <1>1, <2>1
  <2> QED BY <1>1, <1>3, <2>1, <2>2 DEF ToSet
<1> QED BY <1>2, <1>4, <1>5

\* It repeats nothing.
LEMMA OnlyInjective ==
  ASSUME NEW A, NEW s \in Seq(A), NEW S, IsInjective(s)
  PROVE  IsInjective(Only(s, S))
<1>1. PICK f \in [1 .. Len(Only(s, S)) -> 1 .. Len(s)] :
        /\ \A i, j \in 1 .. Len(Only(s, S)) : i < j => f[i] < f[j]
        /\ \A i \in 1 .. Len(Only(s, S)) : Only(s, S)[i] = s[f[i]] /\ s[f[i]] \in S
  <2>1. Picked(Only(s, S), s, S, Len(s))
    BY OnlyPicks
  <2> QED BY <2>1 DEF Picked
<1>2. Only(s, S) \in Seq(A)
  BY OnlyPicks
<1>3. DOMAIN s = 1 .. Len(s) /\ DOMAIN Only(s, S) = 1 .. Len(Only(s, S))
  BY <1>2
<1>4. ASSUME NEW i \in 1 .. Len(Only(s, S)), NEW j \in 1 .. Len(Only(s, S)),
             Only(s, S)[i] = Only(s, S)[j]
      PROVE  i = j
  <2>1. f[i] = f[j]
    BY <1>1, <1>3, <1>4 DEF IsInjective
  <2>2. ~(i < j) /\ ~(j < i)
    BY <1>1, <2>1
  <2> QED BY <1>2, <2>2
<1> QED BY <1>3, <1>4 DEF IsInjective

\* In o, the elements of s that are in S, the element at i has the neighbours it has in s.
Beside(o, s, S, i) ==
  \E k \in DOMAIN s :
    /\ o[i] = s[k]
    /\ k < Len(s) /\ s[k + 1] \in S => i < Len(o) /\ o[i + 1] = s[k + 1]
    /\ k > 1 /\ s[k - 1] \in S => i > 1 /\ o[i - 1] = s[k - 1]

\* Neighbours stay neighbours.
LEMMA OnlyNeighbours ==
  ASSUME NEW A, NEW s \in Seq(A), NEW S, NEW i, i \in DOMAIN Only(s, S)
  PROVE  Beside(Only(s, S), s, S, i)
<1> DEFINE o == Only(s, S)
<1>2. o \in Seq(A) /\ Picked(o, s, S, Len(s))
  BY OnlyPicks
<1> HIDE DEF o
<1>1. PICK f \in [1 .. Len(o) -> 1 .. Len(s)] :
        /\ \A m, n \in 1 .. Len(o) : m < n => f[m] < f[n]
        /\ \A m \in 1 .. Len(o) : o[m] = s[f[m]] /\ s[f[m]] \in S
        /\ \A k \in 1 .. Len(s) : s[k] \in S => \E m \in 1 .. Len(o) : f[m] = k
  BY <1>2 DEF Picked
<1>3. DOMAIN s = 1 .. Len(s) /\ DOMAIN o = 1 .. Len(o) /\ Len(o) \in Nat /\ Len(s) \in Nat
  BY <1>2
<1>0. i \in 1 .. Len(o)
  BY <1>3 DEF o
<1> DEFINE k == f[i]
<1>4. k \in 1 .. Len(s) /\ o[i] = s[k]
  BY <1>0, <1>1
<1>5. ASSUME k < Len(s), s[k + 1] \in S
      PROVE  i < Len(o) /\ o[i + 1] = s[k + 1]
  <2>1. PICK m \in 1 .. Len(o) : f[m] = k + 1
    BY <1>1, <1>4, <1>5
  <2>2. i < m
    <3>1. ~(m < i) /\ m # i
      BY <1>0, <1>1, <1>4, <2>1
    <3> QED BY <1>0, <1>3, <3>1
  <2>3. ~(i + 1 < m)
    <3> SUFFICES ASSUME i + 1 < m  PROVE FALSE
      OBVIOUS
    <3>1. i + 1 \in 1 .. Len(o) /\ i < i + 1
      BY <1>0, <1>3, <2>2
    <3>2. f[i] < f[i + 1] /\ f[i + 1] < f[m]
      BY <1>0, <1>1, <3>1
    <3>3. f[i + 1] \in 1 .. Len(s)
      BY <3>1
    <3> QED BY <1>4, <2>1, <3>2, <3>3
  <2>4. m = i + 1
    BY <1>0, <1>3, <2>2, <2>3
  <2>5. o[m] = s[f[m]]
    BY <1>1
  <2> QED BY <1>0, <1>3, <2>1, <2>2, <2>4, <2>5
<1>6. ASSUME k > 1, s[k - 1] \in S
      PROVE  i > 1 /\ o[i - 1] = s[k - 1]
  <2>1. PICK m \in 1 .. Len(o) : f[m] = k - 1
    BY <1>1, <1>4, <1>6
  <2>2. m < i
    <3>1. ~(i < m) /\ m # i
      BY <1>0, <1>1, <1>4, <2>1
    <3> QED BY <1>0, <1>3, <3>1
  <2>3. ~(m + 1 < i)
    <3> SUFFICES ASSUME m + 1 < i  PROVE FALSE
      OBVIOUS
    <3>1. m + 1 \in 1 .. Len(o) /\ m < m + 1
      BY <1>0, <1>3, <2>2
    <3>2. f[m] < f[m + 1] /\ f[m + 1] < f[i]
      BY <1>0, <1>1, <3>1
    <3>3. f[m + 1] \in 1 .. Len(s)
      BY <3>1
    <3> QED BY <1>4, <2>1, <3>2, <3>3
  <2>4. m = i - 1
    <3>1. m \in Int /\ i \in Int
      BY <1>0, <1>3
    <3> QED BY <2>2, <2>3, <3>1
  <2>5. o[m] = s[f[m]]
    BY <1>1
  <2> QED BY <1>0, <1>3, <2>1, <2>2, <2>4, <2>5
<1> HIDE DEF k
<1>7. Beside(o, s, S, i)
  BY <1>3, <1>4, <1>5, <1>6 DEF Beside
<1> QED BY <1>7 DEF o

--------------------------------------------------------------------------------
(* Types. *)

\* Messages, events and the snapshots made of them.
Kinds == {"prompt", "reply", "result", "queued", "summary", "notice"}
Messages == [kind : Kinds, run : Nat, n : Nat]

EventKinds == {"started", "result", "completed", "compressed", "snapshot"}
EventRows == [kind : EventKinds, turn : Nat, says : {"none", "something", "nothing"},
              inputs : SUBSET Messages, messages : Seq(Messages), gone : SUBSET Messages]
Views == [run : Runs, at : Nat, inputs : SUBSET Messages, messages : Seq(Messages),
          gone : SUBSET Messages]

\* Every variable keeps its type.
Types ==
  /\ phase \in Phases
  /\ run \in 0 .. MaxRuns /\ (phase = "running" => run \in Runs)
  /\ ctx \in Seq(Messages) /\ rows \in Seq(Messages) /\ replaced \subseteq Messages
  /\ journal \in [Runs -> Seq(EventRows)]
  /\ turnRows \subseteq Runs \X Nat
  /\ watermark \in [Runs -> Nat]
  /\ \A r \in Runs : watermark[r] <= Len(journal[r])
  /\ snapshots \subseteq Views
  /\ job \in [run : Nat, turns : Seq(Nat)]
  /\ pending \subseteq Runs
  /\ todo \subseteq Runs \X Nat
  /\ faults \in 0 .. MaxFaults

\* The events of a run are finitely many.
LEMMA EventsOfARun ==
  ASSUME Types, NEW r \in Runs
  PROVE  /\ Len(journal[r]) \in Nat /\ DOMAIN journal[r] = 1 .. Len(journal[r])
         /\ \A k \in 1 .. Len(journal[r]) : journal[r][k] \in EventRows
         /\ \A kind : /\ Events(r, kind) \subseteq 1 .. Len(journal[r])
                      /\ IsFiniteSet(Events(r, kind))
         /\ TurnOf(r) \in Nat
<1>1. journal[r] \in Seq(EventRows)
  BY DEF Types
<1>2. /\ Len(journal[r]) \in Nat /\ DOMAIN journal[r] = 1 .. Len(journal[r])
      /\ \A k \in 1 .. Len(journal[r]) : journal[r][k] \in EventRows
  BY <1>1
<1>3. ASSUME NEW kind
      PROVE  Events(r, kind) \subseteq 1 .. Len(journal[r]) /\ IsFiniteSet(Events(r, kind))
  <2>1. Events(r, kind) \subseteq 1 .. Len(journal[r])
    BY <1>2 DEF Events
  <2>2. IsFiniteSet(1 .. Len(journal[r]))
    BY <1>2, FS_Interval
  <2> QED BY <2>1, <2>2, FS_Subset
<1>4. TurnOf(r) \in Nat
  BY <1>3, FS_CardinalityType DEF TurnOf
<1> QED BY <1>2, <1>3, <1>4

--------------------------------------------------------------------------------
(* The journal. *)

\* Turns are journalled one after the other, and completed once.
JournalInv ==
  \A r \in Runs :
    /\ \A k \in DOMAIN journal[r] : journal[r][k].turn \in 1 .. TurnOf(r)
    /\ \A k, l \in DOMAIN journal[r] : k < l => journal[r][k].turn <= journal[r][l].turn
    /\ \A k, l \in Events(r, "completed") : journal[r][k].turn = journal[r][l].turn => k = l

\* What the engine appends: the start of the next turn, or facts of the one that is open or was
\* completed last.
Appends(es) ==
  /\ phase = "running" /\ run' = run
  /\ journal' = [journal EXCEPT ![run] = @ \o es]
  /\ es \in Seq(EventRows)
  /\ \/ es = <<Event("started", TurnOf(run) + 1)>>
     \/ /\ TurnOf(run) > 0
        /\ \A i \in 1 .. Len(es) :
             /\ es[i].turn = TurnOf(run) /\ es[i].kind # "started"
             /\ es[i].kind = "completed" => Len(es) = 1
             /\ es[i].kind \in {"completed", "result"} => ~Committed(run, TurnOf(run))

\* The journal after it.
LEMMA JournalAppended ==
  ASSUME Types, NEW es, Appends(es)
  PROVE  /\ run \in Runs /\ run' = run /\ Len(es) \in Nat
         /\ journal' \in [Runs -> Seq(EventRows)]
         /\ \A r \in Runs \ {run} : journal'[r] = journal[r]
         /\ Len(journal'[run]) = Len(journal[run]) + Len(es)
         /\ DOMAIN journal'[run] = 1 .. Len(journal[run]) + Len(es)
         /\ \A k \in 1 .. Len(journal[run]) : journal'[run][k] = journal[run][k]
         /\ \A k \in 1 .. Len(es) : journal'[run][Len(journal[run]) + k] = es[k]
<1>1. run \in Runs /\ run' = run /\ journal[run] \in Seq(EventRows) /\ es \in Seq(EventRows)
  BY DEF Types, Appends
<1>2. /\ journal' = [journal EXCEPT ![run] = @ \o es]
      /\ journal \in [Runs -> Seq(EventRows)]
  BY DEF Types, Appends
<1>3. journal'[run] = journal[run] \o es /\ journal[run] \o es \in Seq(EventRows)
  BY <1>1, <1>2
<1>4. journal' \in [Runs -> Seq(EventRows)] /\ \A r \in Runs \ {run} : journal'[r] = journal[r]
  BY <1>2, <1>3
<1>5. /\ Len(journal[run] \o es) = Len(journal[run]) + Len(es)
      /\ \A i \in 1 .. Len(journal[run]) + Len(es) :
           (journal[run] \o es)[i] = IF i <= Len(journal[run]) THEN journal[run][i]
                                     ELSE es[i - Len(journal[run])]
  BY <1>1, ConcatProperties
<1>6. Len(es) \in Nat /\ Len(journal[run]) \in Nat
  BY <1>1
<1>7. \A k \in 1 .. Len(es) : journal'[run][Len(journal[run]) + k] = es[k]
  <2> SUFFICES ASSUME NEW k \in 1 .. Len(es)
               PROVE  journal'[run][Len(journal[run]) + k] = es[k]
    OBVIOUS
  <2>1. /\ Len(journal[run]) + k \in 1 .. Len(journal[run]) + Len(es)
        /\ ~(Len(journal[run]) + k <= Len(journal[run]))
        /\ (Len(journal[run]) + k) - Len(journal[run]) = k
    BY <1>6
  <2> QED BY <1>3, <1>5, <2>1
<1>8. \A k \in 1 .. Len(journal[run]) : journal'[run][k] = journal[run][k]
  BY <1>3, <1>5, <1>6
<1>9. DOMAIN journal'[run] = 1 .. Len(journal[run]) + Len(es)
  BY <1>3, <1>5, <1>6
<1> QED BY <1>1, <1>3, <1>4, <1>5, <1>6, <1>7, <1>8, <1>9

\* The events of a kind after it.
LEMMA EventsAppended ==
  ASSUME Types, NEW es, Appends(es), NEW kind
  PROVE  /\ \A r \in Runs \ {run} : Events(r, kind)' = Events(r, kind)
         /\ Events(run, kind)' =
              Events(run, kind) \cup
                {Len(journal[run]) + k : k \in {i \in 1 .. Len(es) : es[i].kind = kind}}
<1> DEFINE n == Len(journal[run])
           new == {n + k : k \in {i \in 1 .. Len(es) : es[i].kind = kind}}
<1>1. /\ run \in Runs /\ run' = run /\ n \in Nat /\ Len(es) \in Nat /\ DOMAIN journal[run] = 1 .. n
      /\ DOMAIN journal'[run] = 1 .. n + Len(es)
      /\ \A k \in 1 .. n : journal'[run][k] = journal[run][k]
      /\ \A k \in 1 .. Len(es) : journal'[run][n + k] = es[k]
  BY JournalAppended, EventsOfARun
<1>2. ASSUME NEW k \in Events(run, kind)'  PROVE k \in Events(run, kind) \cup new
  <2>1. k \in 1 .. n + Len(es) /\ journal'[run][k].kind = kind
    BY <1>1 DEF Events
  <2>2. CASE k <= n
    <3>1. k \in 1 .. n
      BY <1>1, <2>1, <2>2
    <3> QED BY <1>1, <2>1, <3>1 DEF Events
  <2>3. CASE k > n
    <3>1. k - n \in 1 .. Len(es) /\ n + (k - n) = k
      BY <1>1, <2>1, <2>3
    <3>2. es[k - n].kind = kind
      BY <1>1, <2>1, <3>1
    <3> QED BY <3>1, <3>2
  <2> QED BY <1>1, <2>1, <2>2, <2>3
<1>3. ASSUME NEW k \in Events(run, kind)  PROVE k \in Events(run, kind)'
  BY <1>1 DEF Events
<1>4. ASSUME NEW k \in new  PROVE k \in Events(run, kind)'
  <2>1. PICK i \in 1 .. Len(es) : es[i].kind = kind /\ k = n + i
    BY <1>4
  <2>2. n \in Nat /\ Len(es) \in Nat
    BY <1>1
  <2>3. k \in 1 .. n + Len(es)
    BY <2>1, <2>2
  <2>4. journal'[run][n + i] = es[i]
    BY <1>1
  <2>5. journal'[run][k] = es[i]
    BY <2>1, <2>4
  <2> QED BY <1>1, <2>1, <2>3, <2>5 DEF Events
<1>5. \A r \in Runs \ {run} : Events(r, kind)' = Events(r, kind)
  BY JournalAppended DEF Events
<1> HIDE DEF new
<1>6. Events(run, kind)' = Events(run, kind) \cup new
  BY <1>2, <1>3, <1>4
<1> QED BY <1>5, <1>6 DEF new

\* The number of turns after it.
LEMMA TurnsAppended ==
  ASSUME Types, NEW es, Appends(es)
  PROVE  /\ \A r \in Runs \ {run} : TurnOf(r)' = TurnOf(r)
         /\ \/ es = <<Event("started", TurnOf(run) + 1)>> /\ TurnOf(run)' = TurnOf(run) + 1
            \/ es # <<Event("started", TurnOf(run) + 1)>> /\ TurnOf(run)' = TurnOf(run)
<1> DEFINE n == Len(journal[run])
<1>1. \A r \in Runs \ {run} : TurnOf(r)' = TurnOf(r)
  BY EventsAppended DEF TurnOf
<1>2. /\ run \in Runs /\ run' = run /\ n \in Nat /\ IsFiniteSet(Events(run, "started"))
      /\ Events(run, "started") \subseteq 1 .. n
  BY JournalAppended, EventsOfARun
<1>3. CASE es = <<Event("started", TurnOf(run) + 1)>>
  <2>1. Len(es) = 1 /\ es[1].kind = "started"
    BY <1>3 DEF Event
  <2>2. {i \in 1 .. Len(es) : es[i].kind = "started"} = {1}
    BY <2>1
  <2>3. Events(run, "started")' = Events(run, "started") \cup {n + 1}
    <3>1. {n + k : k \in {1}} = {n + 1}
      OBVIOUS
    <3> QED BY <2>2, <3>1, EventsAppended
  <2>4. n + 1 \notin Events(run, "started")
    BY <1>2
  <2> QED BY <1>1, <1>2, <1>3, <2>3, <2>4, FS_AddElement DEF TurnOf
<1>4. CASE es # <<Event("started", TurnOf(run) + 1)>>
  <2>1. {i \in 1 .. Len(es) : es[i].kind = "started"} = {}
    BY <1>4 DEF Appends
  <2>2. Events(run, "started")' = Events(run, "started")
    <3>1. Events(run, "started")' =
            Events(run, "started") \cup
              {n + k : k \in {i \in 1 .. Len(es) : es[i].kind = "started"}}
      BY EventsAppended
    <3> QED BY <2>1, <3>1
  <2> QED BY <1>1, <1>4, <2>2 DEF TurnOf
<1> QED BY <1>3, <1>4

\* An appended event is of the turn that is the last one then.
LEMMA AppendedTurn ==
  ASSUME Types, NEW es, Appends(es), NEW k \in 1 .. Len(es)
  PROVE  es[k].turn = TurnOf(run)' /\ TurnOf(run)' > 0
<1>1. TurnOf(run) \in Nat
  BY JournalAppended, EventsOfARun
<1>2. CASE es = <<Event("started", TurnOf(run) + 1)>>
  <2>1. Len(es) = 1 /\ es[1].turn = TurnOf(run) + 1
    BY <1>2 DEF Event
  <2> QED BY <1>1, <1>2, <2>1, TurnsAppended
<1>3. CASE es # <<Event("started", TurnOf(run) + 1)>>
  <2>1. TurnOf(run)' = TurnOf(run)
    BY <1>3, TurnsAppended
  <2>2. TurnOf(run) > 0 /\ es[k].turn = TurnOf(run)
    BY <1>3 DEF Appends
  <2> QED BY <2>1, <2>2
<1> QED BY <1>2, <1>3

\* A turn that is not committed has no completed event.
LEMMA CommittedIs ==
  ASSUME NEW r, NEW t
  PROVE  Committed(r, t) <=> \E k \in Events(r, "completed") : journal[r][k].turn = t
BY DEF Committed, Has

\* The order of the turns is kept.
LEMMA JournalInvAppended ==
  ASSUME Types, JournalInv, NEW es, Appends(es)
  PROVE  JournalInv'
<1> DEFINE n == Len(journal[run])
<1>1. /\ run \in Runs /\ run' = run /\ n \in Nat /\ Len(es) \in Nat /\ DOMAIN journal[run] = 1 .. n
      /\ DOMAIN journal'[run] = 1 .. n + Len(es)
      /\ \A k \in 1 .. n : journal'[run][k] = journal[run][k]
      /\ \A k \in 1 .. Len(es) : journal'[run][n + k] = es[k]
      /\ TurnOf(run) \in Nat
  BY JournalAppended, EventsOfARun
<1>2. TurnOf(run)' \in Nat /\ TurnOf(run) <= TurnOf(run)'
  BY <1>1, TurnsAppended
<1>3. \A k \in 1 .. n : journal[run][k].turn \in 1 .. TurnOf(run)
  BY <1>1 DEF JournalInv
<1>4. \A k \in n + 1 .. n + Len(es) : journal'[run][k].turn = TurnOf(run)' /\ TurnOf(run)' > 0
  <2> SUFFICES ASSUME NEW k \in n + 1 .. n + Len(es)
               PROVE  journal'[run][k].turn = TurnOf(run)' /\ TurnOf(run)' > 0
    OBVIOUS
  <2>1. k - n \in 1 .. Len(es) /\ n + (k - n) = k
    BY <1>1
  <2>2. journal'[run][k] = es[k - n]
    BY <1>1, <2>1
  <2> QED BY <2>1, <2>2, AppendedTurn
<1>5. \A k \in 1 .. n + Len(es) : k \in 1 .. n \/ k \in n + 1 .. n + Len(es)
  BY <1>1
<1>6. \A k \in 1 .. n + Len(es) : journal'[run][k].turn \in 1 .. TurnOf(run)'
  <2> SUFFICES ASSUME NEW k \in 1 .. n + Len(es)
               PROVE  journal'[run][k].turn \in 1 .. TurnOf(run)'
    OBVIOUS
  <2>1. CASE k \in 1 .. n
    <3>1. journal[run][k].turn \in 1 .. TurnOf(run) /\ journal'[run][k] = journal[run][k]
      BY <1>1, <1>3, <2>1
    <3> QED BY <1>1, <1>2, <3>1
  <2>2. CASE k \in n + 1 .. n + Len(es)
    <3>1. journal'[run][k].turn = TurnOf(run)' /\ TurnOf(run)' > 0
      BY <1>4, <2>2
    <3> QED BY <1>2, <3>1
  <2> QED BY <1>5, <2>1, <2>2
<1>7. ASSUME NEW k \in 1 .. n + Len(es), NEW l \in 1 .. n + Len(es), k < l
      PROVE  journal'[run][k].turn <= journal'[run][l].turn
  <2>1. CASE l \in 1 .. n
    <3>1. k \in 1 .. n
      BY <1>1, <1>7, <2>1
    <3> QED BY <1>1, <1>7, <2>1, <3>1 DEF JournalInv
  <2>2. CASE l \in n + 1 .. n + Len(es)
    BY <1>2, <1>4, <1>6, <2>2
  <2> QED BY <1>5, <2>1, <2>2
<1>8. ASSUME NEW k \in Events(run, "completed")', NEW l \in Events(run, "completed")',
             journal'[run][k].turn = journal'[run][l].turn
      PROVE  k = l
  <2>1. k \in 1 .. n + Len(es) /\ l \in 1 .. n + Len(es)
    BY <1>1 DEF Events
  <2>2. ASSUME NEW i \in Events(run, "completed")', i \in n + 1 .. n + Len(es)
        PROVE  /\ i = n + 1 /\ ~Committed(run, TurnOf(run)) /\ Len(es) = 1
               /\ TurnOf(run)' = TurnOf(run)
    <3>1. i - n \in 1 .. Len(es) /\ n + (i - n) = i
      <4>1. n \in Nat /\ Len(es) \in Nat
        BY <1>1
      <4> QED BY <2>2, <4>1
    <3>2. es[i - n].kind = "completed"
      BY <1>1, <2>2, <3>1 DEF Events
    <3>3. es # <<Event("started", TurnOf(run) + 1)>>
      <4> SUFFICES ASSUME es = <<Event("started", TurnOf(run) + 1)>>  PROVE FALSE
        OBVIOUS
      <4>1. Len(es) = 1 /\ es[1].kind = "started"
        BY DEF Event
      <4> QED BY <3>1, <3>2, <4>1
    <3>4. ~Committed(run, TurnOf(run)) /\ Len(es) = 1
      BY <3>1, <3>2, <3>3 DEF Appends
    <3> QED BY <1>1, <3>1, <3>3, <3>4, TurnsAppended
  <2>3. ASSUME NEW i \in Events(run, "completed")', i \in 1 .. n
        PROVE  i \in Events(run, "completed") /\ journal'[run][i] = journal[run][i]
    BY <1>1, <2>3 DEF Events
  <2>4. ASSUME NEW i \in Events(run, "completed")', NEW j \in Events(run, "completed")',
               i \in 1 .. n, j \in n + 1 .. n + Len(es),
               journal'[run][i].turn = journal'[run][j].turn
        PROVE  FALSE
    <3>1. journal'[run][j].turn = TurnOf(run) /\ ~Committed(run, TurnOf(run))
      BY <1>4, <2>2, <2>4
    <3>2. i \in Events(run, "completed") /\ journal[run][i].turn = TurnOf(run)
      BY <2>3, <2>4, <3>1
    <3> QED BY <3>1, <3>2, CommittedIs
  <2>5. CASE k \in 1 .. n /\ l \in 1 .. n
    BY <1>1, <1>8, <2>3, <2>5 DEF JournalInv
  <2>6. CASE k \in n + 1 .. n + Len(es) /\ l \in n + 1 .. n + Len(es)
    <3>1. k = n + 1 /\ l = n + 1
      BY <2>2, <2>6
    <3> QED BY <3>1
  <2> QED BY <1>5, <1>8, <2>1, <2>4, <2>5, <2>6
<1>9. ASSUME NEW r \in Runs \ {run}
      PROVE  /\ \A k \in DOMAIN journal'[r] : journal'[r][k].turn \in 1 .. TurnOf(r)'
             /\ \A k, l \in DOMAIN journal'[r] : k < l => journal'[r][k].turn <= journal'[r][l].turn
             /\ \A k, l \in Events(r, "completed")' :
                  journal'[r][k].turn = journal'[r][l].turn => k = l
  <2>1. journal'[r] = journal[r] /\ TurnOf(r)' = TurnOf(r)
    BY JournalAppended, TurnsAppended
  <2>2. Events(r, "completed")' = Events(r, "completed")
    BY EventsAppended
  <2>3. /\ \A k \in DOMAIN journal[r] : journal[r][k].turn \in 1 .. TurnOf(r)
        /\ \A k, l \in DOMAIN journal[r] : k < l => journal[r][k].turn <= journal[r][l].turn
        /\ \A k, l \in Events(r, "completed") : journal[r][k].turn = journal[r][l].turn => k = l
    BY DEF JournalInv
  <2> QED BY <2>1, <2>2, <2>3
<1>10. \A r \in Runs :
      /\ \A k \in DOMAIN journal'[r] : journal'[r][k].turn \in 1 .. TurnOf(r)'
      /\ \A k, l \in DOMAIN journal'[r] : k < l => journal'[r][k].turn <= journal'[r][l].turn
      /\ \A k, l \in Events(r, "completed")' :
           journal'[r][k].turn = journal'[r][l].turn => k = l
  BY <1>1, <1>6, <1>7, <1>8, <1>9
<1> QED BY <1>10 DEF JournalInv

\* The last sequence of a committed turn is that of its one completed event.
LEMMA LastSequenceIs ==
  ASSUME Types, JournalInv, NEW r \in Runs, NEW t, Committed(r, t)
  PROVE  /\ LastSequence(r, t) \in Events(r, "completed")
         /\ LastSequence(r, t) \in 1 .. Len(journal[r])
         /\ journal[r][LastSequence(r, t)].turn = t
         /\ \A k \in Events(r, "completed") : journal[r][k].turn = t => k = LastSequence(r, t)
         /\ t \in 1 .. TurnOf(r)
<1>1. LastSequence(r, t) \in Events(r, "completed") /\ journal[r][LastSequence(r, t)].turn = t
  BY DEF Committed, Has, LastSequence
<1>2. LastSequence(r, t) \in DOMAIN journal[r] /\ LastSequence(r, t) \in 1 .. Len(journal[r])
  BY <1>1, EventsOfARun
<1>3. \A k \in Events(r, "completed") : journal[r][k].turn = t => k = LastSequence(r, t)
  BY <1>1 DEF JournalInv
<1>4. t \in 1 .. TurnOf(r)
  BY <1>1, <1>2 DEF JournalInv
<1> QED BY <1>1, <1>2, <1>3, <1>4

\* Turns are completed in their order.
LEMMA LastSequencesAscend ==
  ASSUME Types, JournalInv, NEW r \in Runs, NEW t \in Nat, NEW u \in Nat,
         Committed(r, t), Committed(r, u), LastSequence(r, u) <= LastSequence(r, t)
  PROVE  u <= t
<1>1. /\ LastSequence(r, t) \in 1 .. Len(journal[r]) /\ journal[r][LastSequence(r, t)].turn = t
      /\ LastSequence(r, u) \in 1 .. Len(journal[r]) /\ journal[r][LastSequence(r, u)].turn = u
  BY LastSequenceIs
<1>2. Len(journal[r]) \in Nat /\ DOMAIN journal[r] = 1 .. Len(journal[r])
  BY EventsOfARun
<1>3. CASE LastSequence(r, u) = LastSequence(r, t)
  BY <1>1, <1>3
<1>4. CASE LastSequence(r, u) < LastSequence(r, t)
  BY <1>1, <1>2, <1>4 DEF JournalInv
<1> QED BY <1>1, <1>2, <1>3, <1>4

\* What a run has done stays in the journal.
LEMMA HasStays ==
  ASSUME Types, NEW es, Appends(es), NEW r \in Runs, NEW t, NEW kind, Has(r, t, kind)
  PROVE  Has(r, t, kind)'
<1>1. PICK k \in Events(r, kind) : journal[r][k].turn = t
  BY DEF Has
<1>2. k \in 1 .. Len(journal[r])
  BY <1>1, EventsOfARun
<1>3. k \in Events(r, kind)' /\ journal'[r][k] = journal[r][k]
  <2>1. CASE r = run
    <3>1. Events(run, kind) \subseteq Events(run, kind)'
      BY EventsAppended
    <3>2. run' = run /\ journal'[run][k] = journal[run][k]
      BY <1>2, <2>1, JournalAppended
    <3> QED BY <1>1, <2>1, <3>1, <3>2
  <2>2. CASE r # run
    <3>1. Events(r, kind)' = Events(r, kind) /\ journal'[r] = journal[r]
      BY <2>2, EventsAppended, JournalAppended
    <3> QED BY <1>1, <3>1
  <2> QED BY <2>1, <2>2
<1> QED BY <1>1, <1>2, <1>3 DEF Has

\* An event that is new stands at the end.
LEMMA AppendedEvent ==
  ASSUME Types, NEW es, Appends(es), NEW kind, NEW k \in Events(run, kind)',
         k \notin Events(run, kind)
  PROVE  \E i \in 1 .. Len(es) : es[i].kind = kind /\ k = Len(journal[run]) + i
<1>1. Events(run, kind)' =
        Events(run, kind) \cup
          {Len(journal[run]) + j : j \in {i \in 1 .. Len(es) : es[i].kind = kind}}
  BY EventsAppended
<1>2. k \in {Len(journal[run]) + j : j \in {i \in 1 .. Len(es) : es[i].kind = kind}}
  BY <1>1
<1> QED BY <1>2

\* What an append adds is of the last turn of the run, which is not committed.
LEMMA HasIsNew ==
  ASSUME Types, NEW es, Appends(es), NEW r \in Runs, NEW t, NEW kind \in {"completed", "result"},
         Has(r, t, kind)', ~Has(r, t, kind)
  PROVE  r = run /\ t = TurnOf(run) /\ ~Committed(run, TurnOf(run))
<1>1. PICK k \in Events(r, kind)' : journal'[r][k].turn = t
  BY DEF Has
<1>2. r = run
  <2> SUFFICES ASSUME r # run  PROVE FALSE
    OBVIOUS
  <2>1. Events(r, kind)' = Events(r, kind) /\ journal'[r] = journal[r]
    BY EventsAppended, JournalAppended
  <2> QED BY <1>1, <2>1 DEF Has
<1>3. k \notin Events(run, kind)
  <2> SUFFICES ASSUME k \in Events(run, kind)  PROVE FALSE
    OBVIOUS
  <2>1. k \in 1 .. Len(journal[run])
    BY <1>2, EventsOfARun
  <2>2. journal'[run][k] = journal[run][k]
    BY <2>1, JournalAppended
  <2> QED BY <1>1, <1>2, <2>2 DEF Has
<1>4. PICK i \in 1 .. Len(es) : es[i].kind = kind /\ k = Len(journal[run]) + i
  <2>1. run' = run
    BY DEF Appends
  <2>2. k \in Events(run, kind)'
    BY <1>1, <1>2, <2>1
  <2> QED BY <1>3, <2>2, AppendedEvent
<1>5. es # <<Event("started", TurnOf(run) + 1)>>
  <2> SUFFICES ASSUME es = <<Event("started", TurnOf(run) + 1)>>  PROVE FALSE
    OBVIOUS
  <2>1. Len(es) = 1 /\ es[1].kind = "started"
    BY DEF Event
  <2> QED BY <1>4, <2>1
<1>6. es[i].turn = TurnOf(run) /\ ~Committed(run, TurnOf(run))
  BY <1>4, <1>5 DEF Appends
<1>7. journal'[run][k] = es[i]
  BY <1>4, JournalAppended
<1> QED BY <1>1, <1>2, <1>6, <1>7

\* A committed turn stays as it is.
LEMMA CommittedStays ==
  ASSUME Types, JournalInv, NEW es, Appends(es), NEW r \in Runs, NEW t, Committed(r, t)
  PROVE  /\ Committed(r, t)' /\ LastSequence(r, t)' = LastSequence(r, t)
         /\ Projectable(r, t)' = Projectable(r, t)
         /\ TurnMessages(r, t)' = TurnMessages(r, t)
<1>1. Committed(r, t)'
  BY HasStays DEF Committed
<1>2. JournalInv'
  BY JournalInvAppended
<1>3. /\ LastSequence(r, t) \in Events(r, "completed")
      /\ LastSequence(r, t) \in 1 .. Len(journal[r])
      /\ journal[r][LastSequence(r, t)].turn = t
  BY LastSequenceIs
<1>4. /\ LastSequence(r, t) \in Events(r, "completed")'
      /\ journal'[r][LastSequence(r, t)] = journal[r][LastSequence(r, t)]
  BY <1>3, EventsAppended, JournalAppended
<1>5. \A k, l \in Events(r, "completed")' : journal'[r][k].turn = journal'[r][l].turn => k = l
  BY <1>2 DEF JournalInv
<1>6. LastSequence(r, t)' \in Events(r, "completed")' /\ journal'[r][LastSequence(r, t)'].turn = t
  BY <1>1 DEF Committed, Has, LastSequence
<1>7. LastSequence(r, t)' = LastSequence(r, t)
  BY <1>3, <1>4, <1>5, <1>6
<1>8. Projectable(r, t)' = Projectable(r, t)
  BY <1>1, <1>4, <1>7 DEF Projectable
<1>9. Has(r, t, "result")' = Has(r, t, "result")
  <2>1. Has(r, t, "result") => Has(r, t, "result")'
    BY HasStays
  <2>2. Has(r, t, "result")' => Has(r, t, "result")
    BY HasIsNew
  <2> QED BY <2>1, <2>2 DEF Has
<1>10. TurnMessages(r, t)' = TurnMessages(r, t)
  BY <1>9 DEF TurnMessages, ResultsOf
<1> QED BY <1>1, <1>7, <1>8, <1>10

\* A turn that is committed now stands behind all watermarks.
LEMMA CommittedIsNew ==
  ASSUME Types, JournalInv, NEW es, Appends(es), NEW r \in Runs, NEW t,
         ~Committed(r, t), Committed(r, t)'
  PROVE  /\ r = run /\ t = TurnOf(run)
         /\ LastSequence(r, t)' \in Nat /\ LastSequence(r, t)' > Len(journal[run])
<1>1. r = run /\ t = TurnOf(run)
  BY HasIsNew DEF Committed
<1>2. LastSequence(r, t)' \in Events(r, "completed")' /\ journal'[r][LastSequence(r, t)'].turn = t
  BY DEF Committed, Has, LastSequence
<1>3. LastSequence(r, t)' \notin Events(r, "completed")
  <2> SUFFICES ASSUME LastSequence(r, t)' \in Events(r, "completed")  PROVE FALSE
    OBVIOUS
  <2>1. LastSequence(r, t)' \in 1 .. Len(journal[r])
    BY EventsOfARun
  <2>2. journal'[r][LastSequence(r, t)'] = journal[r][LastSequence(r, t)']
    BY <1>1, <2>1, JournalAppended
  <2> QED BY <1>2, <2>2 DEF Committed, Has
<1>4. PICK i \in 1 .. Len(es) : LastSequence(r, t)' = Len(journal[run]) + i
  <2>1. run' = run
    BY DEF Appends
  <2>2. PICK k : k = LastSequence(r, t)'
    OBVIOUS
  <2>3. k \in Events(run, "completed")' /\ k \notin Events(run, "completed")
    BY <1>1, <1>2, <1>3, <2>1, <2>2
  <2> QED BY <2>2, <2>3, AppendedEvent
<1>5. Len(journal[run]) \in Nat
  BY <1>1, EventsOfARun
<1> QED BY <1>1, <1>4, <1>5

--------------------------------------------------------------------------------
(* What the steps do to journal, context and rows. *)

\* The messages of the program are messages.
LEMMA MessagesAre ==
  /\ \A r \in Runs : Prompt(r) \in Messages
  /\ \A r \in Runs, t \in Nat : Reply(r, t) \in Messages /\ Result(r, t) \in Messages
  /\ \A i \in Steering : Queued(i) \in Messages
  /\ \A r \in Runs, k \in Nat : Summary(r, k) \in Messages /\ Notice(r, k) \in Messages
<1> USE DEF MessageOf, Messages, Kinds
<1>1. Runs \subseteq Nat /\ Steering \subseteq Nat
  BY TranscriptAssumption DEF Runs
<1>2. \A r \in Runs : Prompt(r) \in Messages
  BY <1>1 DEF Prompt
<1>3. \A r \in Runs, t \in Nat : Reply(r, t) \in Messages /\ Result(r, t) \in Messages
  BY <1>1 DEF Reply, Result
<1>4. \A i \in Steering : Queued(i) \in Messages
  BY <1>1 DEF Queued
<1>5. \A r \in Runs, k \in Nat : Summary(r, k) \in Messages /\ Notice(r, k) \in Messages
  BY <1>1 DEF Summary, Notice
<1> QED BY <1>2, <1>3, <1>4, <1>5

\* Two sequences of one element.
LEMMA PairConcat ==
  ASSUME NEW S, NEW a \in S, NEW b \in S
  PROVE  <<a>> \o <<b>> = <<a, b>>
<1> DEFINE c == <<a>> \o <<b>>
<1>1. <<a>> \in Seq(S) /\ <<b>> \in Seq(S) /\ Len(<<a>>) = 1 /\ Len(<<b>>) = 1
  OBVIOUS
<1>2. c \in Seq(S) /\ Len(c) = 2 /\ c[1] = a /\ c[2] = b
  BY <1>1, ConcatProperties
<1> HIDE DEF c
<1>3. c = <<a, b>>
  BY <1>2
<1> QED BY <1>3 DEF c

\* The messages of a turn: a reply, and the result of its call.
LEMMA TurnMessagesAre ==
  ASSUME NEW r \in Runs, NEW t \in Nat
  PROVE  /\ TurnMessages(r, t) \in Seq(Messages)
         /\ TurnMessages(r, t) = IF Has(r, t, "result") THEN <<Reply(r, t), Result(r, t)>>
                                                        ELSE <<Reply(r, t)>>
         /\ ToSet(TurnMessages(r, t)) = {Reply(r, t)} \cup (IF Has(r, t, "result")
                                                            THEN {Result(r, t)} ELSE {})
<1>1. Reply(r, t) \in Messages /\ Result(r, t) \in Messages
  BY MessagesAre
<1>2. CASE Has(r, t, "result")
  <2>1. TurnMessages(r, t) = <<Reply(r, t), Result(r, t)>>
    <3>1. \A a, b \in Messages : <<a>> \o <<b>> = <<a, b>>
      BY PairConcat
    <3>2. TurnMessages(r, t) = <<Reply(r, t)>> \o <<Result(r, t)>>
      BY <1>2 DEF TurnMessages, ResultsOf
    <3> QED BY <1>1, <3>1, <3>2, Zenon
  <2>2. DOMAIN <<Reply(r, t), Result(r, t)>> = {1, 2}
    OBVIOUS
  <2>3. ToSet(TurnMessages(r, t)) = {Reply(r, t), Result(r, t)}
    BY <2>1, <2>2 DEF ToSet
  <2> QED BY <1>1, <1>2, <2>1, <2>3
<1>3. CASE ~Has(r, t, "result")
  <2>1. TurnMessages(r, t) = <<Reply(r, t)>>
    BY <1>1, <1>3 DEF TurnMessages, ResultsOf
  <2>2. DOMAIN <<Reply(r, t)>> = {1}
    OBVIOUS
  <2>3. ToSet(TurnMessages(r, t)) = {Reply(r, t)}
    BY <2>1, <2>2 DEF ToSet
  <2> QED BY <1>1, <1>3, <2>1, <2>3
<1> QED BY <1>2, <1>3

\* The split leaves at least one message, and does not part a result from its reply.
LEMMA SplitIs ==
  ASSUME Types
  PROVE  /\ SummarySplit \in 0 .. Len(ctx)
         /\ SummarySplit > 0 => /\ SummarySplit < Len(ctx)
                                /\ ctx[SummarySplit + 1].kind # "result"
<1> DEFINE T == {0} \cup {i \in 1 .. Len(ctx) - KeepTail : ctx[i + 1].kind # "result"}
<1>1. Len(ctx) \in Nat /\ KeepTail \in Nat /\ KeepTail > 0
  BY TranscriptAssumption DEF Types
<1>2. T \in SUBSET Nat /\ T # {} /\ \A n \in T : n <= Len(ctx)
  BY <1>1
<1>3. Max(T) \in T
  <2> HIDE DEF T
  <2> QED BY <1>1, <1>2, GreatestNatural
<1>4. SummarySplit = Max(T)
  BY DEF SummarySplit
<1> QED BY <1>1, <1>3, <1>4

\* A compaction leaves the context, or puts a summary in place of its first messages.
LEMMA CompactedContext ==
  ASSUME Types, Compact
  PROVE  /\ ctx' \in Seq(Messages)
         /\ replaced' = replaced \cup (ToSet(ctx) \ ToSet(ctx')) /\ replaced' \subseteq Messages
         /\ \/ ctx' = ctx
            \/ \E j \in 1 .. Len(ctx) - 1 :
                 /\ ctx[j + 1].kind # "result"
                 /\ Len(ctx') = 1 + (Len(ctx) - j)
                 /\ ctx'[1] = Summary(run, Len(journal[run]) + 2)
                 /\ \A i \in 1 .. Len(ctx) - j : ctx'[i + 1] = ctx[j + i]
<1> DEFINE j == SummarySplit
           new == Summary(run, Len(journal[run]) + 2)
           kept == SubSeq(ctx, j + 1, Len(ctx))
<1>1. ctx \in Seq(Messages) /\ Len(ctx) \in Nat /\ run \in Runs /\ replaced \subseteq Messages
  BY DEF Types, Compact, MayCompact
<1>2. replaced' = replaced \cup (ToSet(ctx) \ ToSet(ctx')) /\ replaced' \subseteq Messages
  <2>1. replaced' = replaced \cup (ToSet(ctx) \ ToSet(ctx'))
    BY DEF Compact
  <2>2. ToSet(ctx) \subseteq Messages
    BY <1>1 DEF ToSet
  <2> QED BY <1>1, <2>1, <2>2
<1>3. ctx' = ctx \/ (j > 0 /\ ctx' = <<new>> \o kept)
  BY DEF Compact
<1>4. CASE j > 0 /\ ctx' = <<new>> \o kept
  <2>1. j \in 1 .. Len(ctx) - 1 /\ ctx[j + 1].kind # "result"
    BY <1>1, <1>4, SplitIs
  <2>2. new \in Messages
    <3>1. Len(journal[run]) + 2 \in Nat
      BY <1>1, EventsOfARun
    <3> QED BY <1>1, <3>1, MessagesAre
  <2> HIDE DEF j, new
  <2>3. /\ kept \in Seq(Messages) /\ Len(kept) = Len(ctx) - j
        /\ \A i \in 1 .. Len(ctx) - j : kept[i] = ctx[j + i]
    BY <1>1, <2>1
  <2> HIDE DEF kept
  <2>4. /\ ctx' \in Seq(Messages) /\ Len(ctx') = 1 + Len(kept) /\ ctx'[1] = new
        /\ \A i \in 1 .. Len(kept) : ctx'[i + 1] = kept[i]
    <3>1. <<new>> \in Seq(Messages) /\ Len(<<new>>) = 1 /\ <<new>>[1] = new
      BY <2>2
    <3>2. /\ <<new>> \o kept \in Seq(Messages)
          /\ Len(<<new>> \o kept) = Len(<<new>>) + Len(kept)
          /\ \A i \in 1 .. Len(<<new>>) + Len(kept) :
               (<<new>> \o kept)[i] = IF i <= Len(<<new>>) THEN <<new>>[i]
                                      ELSE kept[i - Len(<<new>>)]
      BY <2>3, <3>1, ConcatProperties
    <3>3. Len(kept) \in Nat
      BY <2>3
    <3>4. \A i \in 1 .. Len(kept) : ctx'[i + 1] = kept[i]
      <4> SUFFICES ASSUME NEW i \in 1 .. Len(kept)  PROVE ctx'[i + 1] = kept[i]
        OBVIOUS
      <4>1. i + 1 \in 1 .. 1 + Len(kept) /\ ~(i + 1 <= 1) /\ (i + 1) - 1 = i
        BY <3>3
      <4> QED BY <1>4, <3>1, <3>2, <4>1
    <3> QED BY <1>4, <3>1, <3>2, <3>3, <3>4
  <2> QED BY <1>2, <2>1, <2>3, <2>4 DEF new
<1> QED BY <1>1, <1>2, <1>3, <1>4

\* The steps of the engine that append to the journal.
Appending == BeginTurn \/ CallRuns \/ CompleteTurn \/ Compact \/ CloseFailedTurn \/ CompactionBreaks

\* What a compaction appends.
CompactionRows ==
  LET k == Len(journal[run]) + 2
  IN <<Compressed(k - 1),
       [Event("snapshot", TurnOf(run)) EXCEPT !.inputs = ToSet(ctx), !.messages = ctx',
                                              !.gone = replaced']>>

\* An event with nothing but its turn.
LEMMA EventIs ==
  ASSUME NEW kind \in EventKinds, NEW t \in Nat
  PROVE  Event(kind, t) \in EventRows /\ Event(kind, t).kind = kind /\ Event(kind, t).turn = t
<1>1. <<>> \in Seq(Messages)
  OBVIOUS
<1> QED BY <1>1 DEF Event, EventRows

\* An event that says whether something was said.
Completion(t, what) == [Event("completed", t) EXCEPT !.says = what]

\* Its fields.
LEMMA CompletedIs ==
  ASSUME NEW t \in Nat, NEW what \in {"something", "nothing"}
  PROVE  /\ Completion(t, what) \in EventRows /\ Completion(t, what).kind = "completed"
         /\ Completion(t, what).turn = t /\ Completion(t, what).says = what
<1> DEFINE e == Completion(t, what)
<1>1. <<>> \in Seq(Messages)
  OBVIOUS
<1>2. PICK m : m = <<>>
  OBVIOUS
<1>3. e = [kind |-> "completed", turn |-> t, says |-> what, inputs |-> {}, messages |-> m,
           gone |-> {}]
  <2>1. Event("completed", t) = [kind |-> "completed", turn |-> t, says |-> "none", inputs |-> {},
                                 messages |-> m, gone |-> {}]
    BY <1>2 DEF Event
  <2> QED BY <2>1 DEF Completion
<1> HIDE DEF e
<1>4. m \in Seq(Messages)
  BY <1>1, <1>2
<1>5. e \in EventRows /\ e.kind = "completed" /\ e.turn = t /\ e.says = what
  BY <1>3, <1>4 DEF EventRows, EventKinds
<1> QED BY <1>5 DEF e

\* The event of a compaction that says what it did.
LEMMA CompressedIs ==
  ASSUME Types, run \in Runs, NEW k \in Nat
  PROVE  /\ Compressed(k) \in EventRows
         /\ Compressed(k).kind = "compressed" /\ Compressed(k).turn = TurnOf(run)
         /\ Compressed(k).messages = <<Notice(run, k)>>
         /\ Compressed(k).inputs = {} /\ Compressed(k).gone = {}
<1>1. Notice(run, k) \in Messages /\ TurnOf(run) \in Nat
  BY MessagesAre, EventsOfARun
<1>2. <<Notice(run, k)>> \in Seq(Messages)
  BY <1>1
<1> QED BY <1>1, <1>2 DEF Compressed, Event, EventRows, EventKinds

\* The event of a compaction that holds what it made.
LEMMA SnapshotIs ==
  ASSUME Types, Compact
  PROVE  /\ journal' = [journal EXCEPT ![run] = @ \o CompactionRows]
         /\ CompactionRows \in Seq(EventRows) /\ Len(CompactionRows) = 2
         /\ CompactionRows[1] = Compressed(Len(journal[run]) + 1)
         /\ CompactionRows[2].kind = "snapshot" /\ CompactionRows[2].turn = TurnOf(run)
         /\ CompactionRows[2].messages = ctx' /\ CompactionRows[2].inputs = ToSet(ctx)
         /\ CompactionRows[2].gone = replaced'
<1> DEFINE s == [Event("snapshot", TurnOf(run)) EXCEPT !.inputs = ToSet(ctx), !.messages = ctx',
                                                       !.gone = replaced']
           c == Compressed(Len(journal[run]) + 1)
<1>1. /\ run \in Runs /\ TurnOf(run) \in Nat /\ Len(journal[run]) \in Nat
      /\ ToSet(ctx) \subseteq Messages
  <2>1. run \in Runs /\ ctx \in Seq(Messages)
    BY DEF Types, Compact, MayCompact
  <2>2. ToSet(ctx) \subseteq Messages
    BY <2>1 DEF ToSet
  <2> QED BY <2>1, <2>2, EventsOfARun
<1>2. ctx' \in Seq(Messages) /\ replaced' \subseteq Messages
  BY CompactedContext
<1>3. /\ s \in EventRows /\ s.kind = "snapshot" /\ s.turn = TurnOf(run)
      /\ s.messages = ctx' /\ s.inputs = ToSet(ctx) /\ s.gone = replaced'
  BY <1>1, <1>2 DEF Event, EventRows, EventKinds
<1>4. c \in EventRows
  <2>1. Len(journal[run]) + 1 \in Nat
    BY <1>1
  <2> QED BY <1>1, <2>1, CompressedIs
<1>5. CompactionRows = <<c, s>>
  <2>1. (Len(journal[run]) + 2) - 1 = Len(journal[run]) + 1
    BY <1>1
  <2> QED BY <2>1 DEF CompactionRows
<1>6. journal' = [journal EXCEPT ![run] = @ \o CompactionRows]
  BY DEF Compact, Record, CompactionRows
<1> HIDE DEF s, c
<1>7. CompactionRows \in Seq(EventRows) /\ Len(CompactionRows) = 2
      /\ CompactionRows[1] = c /\ CompactionRows[2] = s
  BY <1>3, <1>4, <1>5
<1> QED BY <1>3, <1>6, <1>7 DEF c

\* A step of the engine that appends one event of its open turn or of the one completed last.
LEMMA AppendsOne ==
  ASSUME Types, phase = "running", run' = run, NEW e \in EventRows, Record(<<e>>),
         \/ e = Event("started", TurnOf(run) + 1)
         \/ /\ TurnOf(run) > 0 /\ e.turn = TurnOf(run) /\ e.kind # "started"
            /\ e.kind \in {"completed", "result"} => ~Committed(run, TurnOf(run))
  PROVE  \E es : Appends(es)
<1>1. <<e>> \in Seq(EventRows) /\ Len(<<e>>) = 1 /\ <<e>>[1] = e
  OBVIOUS
<1>2. \A i \in 1 .. Len(<<e>>) : i = 1
  BY <1>1
<1>3. Appends(<<e>>)
  BY <1>1, <1>2 DEF Appends, Record
<1> QED BY <1>3

\* The steps of the engine append.
LEMMA EngineAppends ==
  ASSUME Types, Appending
  PROVE  /\ \E es : Appends(es)
         /\ UNCHANGED <<run, turnRows, watermark, quarantined, snapshots, pending, todo, boundVars,
                        rows>>
         /\ \/ UNCHANGED <<phase, job>>
            \/ Project(run)
<1>1. phase = "running" /\ run \in Runs /\ run' = run
  BY DEF Appending, BeginTurn, CallRuns, CompleteTurn, Compact, CloseFailedTurn, CompactionBreaks,
         MayCompact, EngineKeeps, Types
<1>2. TurnOf(run) \in Nat /\ Len(journal[run]) \in Nat
  BY <1>1, EventsOfARun
<1>5. {"started", "result", "completed"} \subseteq EventKinds /\ TurnOf(run) + 1 \in Nat
  BY <1>2 DEF EventKinds
<1>3. \E es : Appends(es)
  <2>1. CASE BeginTurn
    <3>1. Event("started", TurnOf(run) + 1) \in EventRows
      BY <1>2, <1>5, EventIs
    <3> QED BY <1>1, <2>1, <3>1, AppendsOne DEF BeginTurn
  <2>2. CASE CallRuns
    <3>1. /\ Event("result", TurnOf(run)) \in EventRows
          /\ Event("result", TurnOf(run)).kind = "result"
          /\ Event("result", TurnOf(run)).turn = TurnOf(run)
      BY <1>2, <1>5, EventIs
    <3>2. /\ TurnOf(run) > 0 /\ ~Committed(run, TurnOf(run))
          /\ Record(<<Event("result", TurnOf(run))>>)
      BY <2>2 DEF CallRuns, InTurn
    <3> QED BY <1>1, <3>1, <3>2, AppendsOne
  <2>3. CASE CompleteTurn \/ CloseFailedTurn
    <3>1. PICK what \in {"something", "nothing"} : Record(<<Completion(TurnOf(run), what)>>)
      BY <2>3 DEF CompleteTurn, CloseFailedTurn, Completion
    <3>0. PICK e : e = Completion(TurnOf(run), what)
      OBVIOUS
    <3>2. e \in EventRows /\ e.kind = "completed" /\ e.turn = TurnOf(run)
      BY <1>2, <3>0, CompletedIs
    <3>3. TurnOf(run) > 0 /\ ~Committed(run, TurnOf(run)) /\ Record(<<e>>)
      BY <2>3, <3>0, <3>1 DEF CompleteTurn, CloseFailedTurn, InTurn
    <3> QED BY <1>1, <3>2, <3>3, AppendsOne
  <2>4. CASE Compact
    <3>1. TurnOf(run) > 0
      BY <2>4 DEF Compact, MayCompact
    <3>2. CompactionRows[1].kind = "compressed" /\ CompactionRows[1].turn = TurnOf(run)
      <4>1. Len(journal[run]) + 1 \in Nat
        BY <1>2
      <4> QED BY <1>1, <2>4, <4>1, SnapshotIs, CompressedIs
    <3>3. CompactionRows[2].kind = "snapshot" /\ CompactionRows[2].turn = TurnOf(run)
      BY <2>4, SnapshotIs
    <3>4. /\ Len(CompactionRows) = 2 /\ CompactionRows \in Seq(EventRows)
          /\ journal' = [journal EXCEPT ![run] = @ \o CompactionRows]
      BY <2>4, SnapshotIs
    <3>5. \A i \in 1 .. Len(CompactionRows) : i = 1 \/ i = 2
      BY <3>4
    <3>6. PICK es : es = CompactionRows
      OBVIOUS
    <3>7. Appends(es)
      BY <1>1, <3>1, <3>2, <3>3, <3>4, <3>5, <3>6 DEF Appends
    <3> QED BY <3>7
  <2>5. CASE CompactionBreaks
    <3>1. TurnOf(run) > 0 /\ Record(<<Compressed(Len(journal[run]) + 1)>>)
      BY <2>5 DEF CompactionBreaks, MayCompact
    <3> DEFINE e == Compressed(Len(journal[run]) + 1)
    <3>2. e \in EventRows /\ e.kind = "compressed" /\ e.turn = TurnOf(run)
      <4>1. Len(journal[run]) + 1 \in Nat
        BY <1>2
      <4> QED BY <1>1, <4>1, CompressedIs
    <3>3. Record(<<e>>)
      BY <3>1
    <3> HIDE DEF e
    <3> QED BY <1>1, <3>1, <3>2, <3>3, AppendsOne
  <2> QED BY <2>1, <2>2, <2>3, <2>4, <2>5 DEF Appending
<1>4. /\ UNCHANGED <<run, turnRows, watermark, quarantined, snapshots, pending, todo, boundVars,
                     rows>>
      /\ UNCHANGED <<phase, job>> \/ Project(run)
  BY DEF Appending, BeginTurn, CallRuns, CompleteTurn, Compact, CloseFailedTurn, CompactionBreaks,
         EngineKeeps
<1> QED BY <1>3, <1>4

\* The other steps leave the journal alone.
LEMMA OthersKeepJournal ==
  ASSUME [Next]_vars, ~Appending
  PROVE  UNCHANGED journal
BY DEF Next, Appending, StartRun, StartFails, Engine, TakeInput, RunReturns, Projector, PassTurn,
       QuarantineTurn, ProjectTurn, ProjectionFails, ProjectorKeeps, RunEnds, Crash, Startup,
       Backfill, BackfillRun, BackfillCompaction, BackfillRefused, BackfillFails, BackfillStops,
       BackfillEnds, RecoverRun, RecoveryEnds, StartupKeeps, EngineKeeps, vars, storeVars

--------------------------------------------------------------------------------
(* The rows of a backfill. *)

\* The compactions of a run.
Compacting(r) == Events(r, "compressed") \cup Events(r, "snapshot")

\* Those a backfill makes rows of are some of them.
LEMMA CompactionsAre ==
  ASSUME Types, NEW r \in Runs
  PROVE  Compactions(r) \subseteq Compacting(r) /\ Compacting(r) \subseteq 1 .. Len(journal[r])
BY EventsOfARun DEF Compactions, Compacting

\* A step of a start that may write.
Storing == BackfillCompaction \/ BackfillRefused \/ BackfillFails \/ Crash

\* The message of a compaction is a notice or a summary in what it left.
LEMMA MessageMadeIs ==
  ASSUME Types, NEW r \in Runs, NEW k \in Compacting(r), NEW m \in MessageMade(r, k)
  PROVE  /\ m \in ToSet(journal[r][k].messages) /\ m \in Messages
         /\ m.kind \in {"summary", "notice"}
<1> DEFINE left == journal[r][k].messages
<1>1. left \in Seq(Messages)
  <2>1. k \in 1 .. Len(journal[r])
    BY EventsOfARun DEF Compacting
  <2>2. journal[r][k] \in EventRows
    BY <2>1, EventsOfARun
  <2> QED BY <2>2 DEF EventRows
<1>2. PICK i \in DOMAIN left : m = left[i] /\ left[i].kind \in {"summary", "notice"}
  BY DEF MessageMade
<1>3. i \in 1 .. Len(left)
  BY <1>1, <1>2
<1> HIDE DEF left
<1>4. m \in Messages /\ m \in ToSet(left)
  BY <1>1, <1>2, <1>3 DEF ToSet
<1> QED BY <1>2, <1>4 DEF left

\* What a start stores of a compaction is what is journalled of it.
LEMMA StoredSnapshots ==
  ASSUME Types, Storing
  PROVE  \/ snapshots' = snapshots
         \/ \E r \in Runs : \E k \in Compacting(r) : snapshots' = snapshots \cup {SnapshotRow(r, k)}
BY CompactionsAre
   DEF Storing, BackfillCompaction, BackfillRefused, BackfillFails, Crash, WriteSnapshot

\* And the rows it adds are summaries and notices that were not there.
LEMMA FiledRows ==
  ASSUME Types, Storing
  PROVE  \/ rows' = rows
         \/ \E r \in Runs : \E k \in Compacting(r) : \E m \in Messages :
              /\ rows' = Append(rows, m) /\ m \notin ToSet(rows)
              /\ m \in ToSet(journal[r][k].messages) /\ m.kind \in {"summary", "notice"}
<1>1. CASE BackfillCompaction
  <2>1. PICK r \in Runs : \E k \in Compactions(r) :
          \/ MessageMade(r, k) = {} /\ UNCHANGED <<rows, filed>>
          \/ \E m \in MessageMade(r, k) : ~Refused(r, k, m) /\ File(r, k, m)
    BY <1>1 DEF BackfillCompaction
  <2>2. PICK k \in Compacting(r) : \/ UNCHANGED rows
                                  \/ \E m \in MessageMade(r, k) : File(r, k, m)
    BY <2>1, CompactionsAre
  <2>3. CASE UNCHANGED rows
    BY <2>3
  <2>4. CASE ~UNCHANGED rows
    <3>1. PICK m \in MessageMade(r, k) : File(r, k, m)
      BY <2>2, <2>4
    <3>2. m \notin ToSet(rows) /\ rows' = Append(rows, m)
      BY <2>4, <3>1 DEF File
    <3> QED BY <3>2, MessageMadeIs
  <2> QED BY <2>3, <2>4
<1>2. CASE BackfillRefused \/ BackfillFails \/ Crash
  BY <1>2 DEF BackfillRefused, BackfillFails, BackfillStops, Crash
<1> QED BY <1>1, <1>2 DEF Storing

\* The other variables.
LEMMA StoringKeeps ==
  ASSUME Types, Storing
  PROVE  UNCHANGED <<run, journal, turnRows, watermark, quarantined>>
BY DEF Storing, BackfillCompaction, BackfillRefused, BackfillFails, BackfillStops, Crash,
       StartupKeeps

\* The turns of a run, in order.
LEMMA TurnsOfIs ==
  ASSUME Types, NEW r \in Runs
  PROVE  /\ TurnsOf(r) \in Seq(Nat) /\ Len(TurnsOf(r)) = TurnOf(r)
         /\ \A i \in 1 .. TurnOf(r) : TurnsOf(r)[i] = i
<1>1. TurnOf(r) \in Nat
  BY EventsOfARun
<1>2. PICK n \in Nat : n = TurnOf(r)
  BY <1>1
<1>3. TurnsOf(r) = [t \in 1 .. n |-> t]
  BY <1>2 DEF TurnsOf
<1>4. TurnsOf(r) \in [1 .. n -> Nat]
  BY <1>3
<1>5. TurnsOf(r) \in Seq(Nat) /\ Len(TurnsOf(r)) = n
  BY <1>4
<1> QED BY <1>2, <1>3, <1>5

\* The new context of a step that appends.
LEMMA AppendingContext ==
  ASSUME Types, Appending
  PROVE  ctx' \in Seq(Messages) /\ replaced' \subseteq Messages
<1>1. CASE Compact
  BY <1>1, CompactedContext
<1>2. CASE CompleteTurn
  <2>1. run \in Runs /\ TurnOf(run) \in Nat
    BY <1>2, EventsOfARun DEF CompleteTurn, Types
  <2>2. TurnMessages(run, TurnOf(run)) \in Seq(Messages)
    BY <2>1, TurnMessagesAre
  <2>3. ctx' = ctx \o TurnMessages(run, TurnOf(run)) /\ UNCHANGED replaced
    BY <1>2 DEF CompleteTurn
  <2>4. ctx \in Seq(Messages) /\ replaced \subseteq Messages
    BY DEF Types
  <2> QED BY <2>2, <2>3, <2>4
<1>3. CASE BeginTurn \/ CallRuns \/ CloseFailedTurn \/ CompactionBreaks
  BY <1>3 DEF BeginTurn, CallRuns, CloseFailedTurn, CompactionBreaks, Types
<1> QED BY <1>1, <1>2, <1>3 DEF Appending

\* A run has a number.
LEMMA RunsAre ==
  Runs = 1 .. MaxRuns /\ MaxRuns \in Nat /\ Runs \subseteq Nat /\ MaxFaults \in Nat
BY TranscriptAssumption DEF Runs

\* The next run.
LEMMA NextRun ==
  ASSUME Types, StartRun \/ StartFails
  PROVE  /\ run \in Nat /\ run' = run + 1 /\ run' \in Runs
         /\ rows' = Append(rows, Prompt(run'))
<1>1. run' = run + 1 /\ run < MaxRuns /\ rows' = Append(rows, Prompt(run'))
  BY DEF StartRun, StartFails
<1>2. run \in 0 .. MaxRuns /\ MaxRuns \in Nat
  BY RunsAre DEF Types
<1>3. run \in Nat /\ run + 1 \in 1 .. MaxRuns
  BY <1>1, <1>2
<1> QED BY <1>1, <1>3, RunsAre

\* The steps of the engine keep the types.
LEMMA AppendingTypes ==
  ASSUME Types, Appending
  PROVE  Types'
<1>1. PICK es : Appends(es)
  BY EngineAppends
<1>2. /\ UNCHANGED <<run, turnRows, watermark, snapshots, pending, todo, faults, rows>>
      /\ \/ UNCHANGED <<phase, job>>
         \/ phase' = "projecting" /\ job' = [run |-> run, turns |-> TurnsOf(run)]
  BY EngineAppends DEF Project, boundVars
<1>3. /\ run \in Runs /\ journal' \in [Runs -> Seq(EventRows)]
      /\ \A r \in Runs \ {run} : journal'[r] = journal[r]
      /\ Len(journal'[run]) = Len(journal[run]) + Len(es) /\ Len(es) \in Nat
  BY <1>1, JournalAppended
<1>4. \A r \in Runs : watermark'[r] <= Len(journal'[r])
  <2> SUFFICES ASSUME NEW r \in Runs  PROVE watermark[r] <= Len(journal'[r])
    BY <1>2
  <2>1. watermark[r] \in Nat /\ watermark[r] <= Len(journal[r]) /\ Len(journal[r]) \in Nat
    BY EventsOfARun DEF Types
  <2> QED BY <1>3, <2>1
<1>5. job' \in [run : Nat, turns : Seq(Nat)] /\ phase' \in Phases
  <2>1. TurnsOf(run) \in Seq(Nat) /\ run \in Nat
    BY <1>3, TurnsOfIs, RunsAre
  <2> QED BY <1>2, <2>1 DEF Types, Phases
<1>6. ctx' \in Seq(Messages) /\ replaced' \subseteq Messages
  BY AppendingContext
<1> QED BY <1>2, <1>3, <1>4, <1>5, <1>6 DEF Types

\* The start of a run.
LEMMA StartTypes ==
  ASSUME Types, StartRun \/ StartFails
  PROVE  Types'
<1>1. /\ run' = run + 1 /\ run' \in Runs /\ rows' = Append(rows, Prompt(run'))
      /\ UNCHANGED <<journal, turnRows, watermark, snapshots, job, pending, todo, faults>>
  <2>1. UNCHANGED <<journal, turnRows, watermark, snapshots, job, pending, todo, faults>>
    BY DEF StartRun, StartFails, boundVars
  <2> QED BY <2>1, NextRun
<1>2. rows' \in Seq(Messages)
  <2>1. Prompt(run') \in Messages
    BY <1>1, MessagesAre
  <2> QED BY <1>1, <2>1 DEF Types
<1>3. ctx' \in Seq(Messages) /\ replaced' \subseteq Messages
  <2>1. CASE ctx' = rows' /\ replaced' = {}
    BY <1>2, <2>1
  <2>2. CASE ctx' = <<>> /\ replaced' = {}
    BY <2>2
  <2>3. CASE \E s \in NewestSnapshots : ctx' = Merge(s, rows') /\ replaced' = s.gone
    <3>1. PICK s \in snapshots : ctx' = Merge(s, rows') /\ replaced' = s.gone
      BY <2>3 DEF NewestSnapshots
    <3>2. s.messages \in Seq(Messages) /\ s.gone \subseteq Messages
      BY DEF Types, Views
    <3>3. Without(rows', s.inputs \cup ToSet(s.messages)) \in Seq(Messages)
      BY <1>2, OnlyElements DEF Without
    <3> QED BY <3>1, <3>2, <3>3 DEF Merge
  <2> QED BY <2>1, <2>2, <2>3 DEF StartRun, StartFails
<1>4. phase' \in Phases /\ run' \in 0 .. MaxRuns
  BY <1>1, RunsAre DEF StartRun, StartFails, Types, Phases
<1> QED BY <1>1, <1>2, <1>3, <1>4 DEF Types

\* No job is a job.
LEMMA NoJobIs ==
  NoJob \in [run : Nat, turns : Seq(Nat)] /\ NoJob.run = 0 /\ NoJob.turns = <<>>
<1>1. <<>> \in Seq(Nat)
  OBVIOUS
<1> QED BY <1>1 DEF NoJob

\* The steps of a projection.
LEMMA ProjectorTypes ==
  ASSUME Types, JournalInv, Projector \/ RunEnds \/ RunReturns \/ TakeInput
  PROVE  Types'
<1>1. CASE PassTurn \/ QuarantineTurn \/ ProjectTurn
  <2>1. job.turns \in Seq(Nat) /\ job.turns # <<>> /\ job.run \in Nat
    BY <1>1 DEF PassTurn, QuarantineTurn, ProjectTurn, Projecting, Types
  <2>2. job' \in [run : Nat, turns : Seq(Nat)]
    <3>1. job' = [job EXCEPT !.turns = Tail(@)]
      BY <1>1 DEF PassTurn, QuarantineTurn, ProjectTurn, NextTurn
    <3>2. Tail(job.turns) \in Seq(Nat)
      BY <2>1
    <3> QED BY <3>1, <3>2 DEF Types
  <2>3. UNCHANGED <<phase, run, ctx, journal, snapshots, pending, todo, faults, replaced>>
    BY <1>1 DEF PassTurn, QuarantineTurn, ProjectTurn, ProjectorKeeps, boundVars
  <2>4. CASE UNCHANGED <<rows, turnRows, watermark>>
    BY <2>2, <2>3, <2>4 DEF Types
  <2>5. CASE ProjectTurn
    <3>1. PICK r \in Runs, t \in 1 .. MaxTurns :
            /\ Projectable(r, t)
            /\ turnRows' = turnRows \cup {<<r, t>>}
            /\ rows' = rows \o Without(TurnMessages(r, t), ToSet(rows))
            /\ watermark' = [watermark EXCEPT ![r] =
                               IF <<r, t>> \in turnRows /\ @ > LastSequence(r, t)
                               THEN @ ELSE LastSequence(r, t)]
      BY <2>5 DEF ProjectTurn
    <3>2. t \in Nat
      BY TranscriptAssumption
    <3>3. rows' \in Seq(Messages)
      <4>1. Without(TurnMessages(r, t), ToSet(rows)) \in Seq(Messages)
        BY <3>2, TurnMessagesAre, OnlyElements DEF Without
      <4> QED BY <3>1, <4>1 DEF Types
    <3>4. LastSequence(r, t) \in Nat /\ LastSequence(r, t) <= Len(journal[r])
      BY <3>1, LastSequenceIs, EventsOfARun DEF Projectable
    <3>5. watermark' \in [Runs -> Nat] /\ \A q \in Runs : watermark'[q] <= Len(journal[q])
      BY <3>1, <3>4 DEF Types
    <3>6. turnRows' \subseteq Runs \X Nat
      BY <3>1, <3>2 DEF Types
    <3> QED BY <2>2, <2>3, <3>3, <3>5, <3>6 DEF Types
  <2> QED BY <1>1, <2>4, <2>5 DEF PassTurn, QuarantineTurn
<1>2. CASE ProjectionFails \/ RunEnds
  <2>1. job' \in [run : Nat, turns : Seq(Nat)]
    BY <1>2, NoJobIs DEF ProjectionFails, RunEnds
  <2>2. /\ phase' = "idle" /\ pending' \subseteq Runs
        /\ UNCHANGED <<run, ctx, rows, replaced, journal, turnRows, watermark, snapshots, todo>>
        /\ faults' = faults \/ (faults' = faults - 1 /\ faults > 0)
    BY <1>2 DEF ProjectionFails, RunEnds, storeVars, boundVars, Types
  <2>3. faults' \in 0 .. MaxFaults
    BY <2>2, RunsAre DEF Types
  <2>4. \A r \in Runs : watermark'[r] <= Len(journal'[r])
    BY <2>2 DEF Types
  <2> QED BY <2>1, <2>2, <2>3, <2>4 DEF Types, Phases
<1>3. CASE RunReturns
  <2>1. run \in Runs
    BY <1>3 DEF RunReturns, Types
  <2>2. TurnsOf(run) \in Seq(Nat) /\ run \in Nat
    BY <2>1, TurnsOfIs, RunsAre
  <2> QED BY <1>3, <2>2 DEF RunReturns, Project, Types, Phases, storeVars, boundVars
<1>4. CASE TakeInput
  <2>1. PICK i \in Steering : rows' = Append(rows, Queued(i)) /\ ctx' = Append(ctx, Queued(i))
    BY <1>4 DEF TakeInput
  <2>2. rows' \in Seq(Messages) /\ ctx' \in Seq(Messages)
    <3>1. Queued(i) \in Messages
      BY MessagesAre
    <3> QED BY <2>1, <3>1 DEF Types
  <2> QED BY <1>4, <2>2 DEF TakeInput, EngineKeeps, Types, boundVars
<1> QED BY <1>1, <1>2, <1>3, <1>4 DEF Projector

\* What a start stores.
LEMMA StoredTypes ==
  ASSUME Types, Storing
  PROVE  snapshots' \subseteq Views /\ rows' \in Seq(Messages)
<1>1. ASSUME NEW r \in Runs, NEW k \in Compacting(r)  PROVE SnapshotRow(r, k) \in Views
  <2>1. k \in 1 .. Len(journal[r])
    BY EventsOfARun DEF Compacting
  <2>2. journal[r][k] \in EventRows /\ k \in Nat
    BY <2>1, EventsOfARun
  <2> QED BY <2>2 DEF SnapshotRow, EventRows, Views
<1>2. snapshots' \subseteq Views
  BY <1>1, StoredSnapshots DEF Types
<1>3. rows' \in Seq(Messages)
  <2>1. rows \in Seq(Messages)
    BY DEF Types
  <2>2. CASE rows' = rows
    BY <2>1, <2>2
  <2>3. CASE rows' # rows
    <3>1. PICK m \in Messages : rows' = Append(rows, m)
      BY <2>3, FiledRows
    <3> QED BY <2>1, <3>1
  <2> QED BY <2>2, <2>3
<1> QED BY <1>2, <1>3

\* A restart.
LEMMA StartupTypes ==
  ASSUME Types, Crash \/ Startup
  PROVE  Types'
<1> USE RunsAre
<1>0. NoJob \in [run : Nat, turns : Seq(Nat)] /\ <<>> \in Seq(Messages)
  BY NoJobIs
<1>1. CASE Crash
  <2>1. snapshots' \subseteq Views /\ rows' \in Seq(Messages)
    BY <1>1, StoredTypes DEF Storing
  <2> QED BY <1>0, <1>1, <2>1 DEF Crash, Types, Phases
<1>2. CASE BackfillRun
  <2>1. PICK r \in pending : /\ todo' = {<<r, k>> : k \in Compactions(r)}
                            /\ pending' = pending \ {r}
    BY <1>2 DEF BackfillRun
  <2>2. r \in Runs
    BY <2>1 DEF Types
  <2>3. Compactions(r) \subseteq Nat
    BY <2>2, CompactionsAre, EventsOfARun
  <2>4. todo' \subseteq Runs \X Nat
    BY <2>1, <2>2, <2>3
  <2> QED BY <1>2, <2>1, <2>4 DEF BackfillRun, StartupKeeps, Types
<1>3. CASE BackfillCompaction
  <2>1. snapshots' \subseteq Views /\ rows' \in Seq(Messages)
    BY <1>3, StoredTypes DEF Storing
  <2>2. todo' \subseteq todo
    BY <1>3 DEF BackfillCompaction
  <2> QED BY <1>3, <2>1, <2>2 DEF BackfillCompaction, StartupKeeps, Types
<1>4. CASE BackfillRefused \/ BackfillFails \/ BackfillEnds
  <2>1. snapshots' \subseteq Views /\ rows' \in Seq(Messages)
    <3>1. CASE BackfillRefused \/ BackfillFails
      BY <3>1, StoredTypes DEF Storing
    <3>2. CASE BackfillEnds
      BY <3>2 DEF BackfillEnds, BackfillStops, Types
    <3> QED BY <1>4, <3>1, <3>2
  <2>2. BackfillStops /\ faults' \in 0 .. MaxFaults
    BY <1>4 DEF BackfillRefused, BackfillFails, BackfillEnds, Types
  <2>3. pending' \subseteq Runs
    BY <2>2 DEF BackfillStops, NeedRecovery
  <2> QED BY <2>1, <2>2, <2>3 DEF BackfillStops, StartupKeeps, Types, Phases
<1>5. CASE RecoverRun
  <2>1. PICK r \in pending : /\ pending' = pending \ {r}
                             /\ job' = [run |-> r, turns |-> TurnsOf(r)] \/ job' = NoJob
    BY <1>5 DEF RecoverRun
  <2>2. r \in Runs /\ r \in Nat
    BY DEF Types
  <2>3. job' \in [run : Nat, turns : Seq(Nat)]
    <3>1. TurnsOf(r) \in Seq(Nat)
      BY <2>2, TurnsOfIs
    <3> QED BY <1>0, <2>1, <2>2, <3>1
  <2> QED BY <1>5, <2>1, <2>3 DEF RecoverRun, StartupKeeps, Types
<1>6. CASE RecoveryEnds
  BY <1>0, <1>6 DEF RecoveryEnds, StartupKeeps, Types, Phases
<1> QED BY <1>1, <1>2, <1>3, <1>4, <1>5, <1>6 DEF Startup, Backfill

\* Every step keeps the types.
LEMMA TypesKept ==
  ASSUME Types, JournalInv, [Next]_vars
  PROVE  Types'
<1>1. CASE UNCHANGED vars
  BY <1>1 DEF vars, storeVars, boundVars, Types
<1> QED BY <1>1, AppendingTypes, StartTypes, ProjectorTypes, StartupTypes
        DEF Next, Engine, Appending

\* And the order of the turns.
LEMMA JournalInvKept ==
  ASSUME Types, JournalInv, [Next]_vars
  PROVE  JournalInv'
<1>1. CASE Appending
  BY <1>1, EngineAppends, JournalInvAppended
<1>2. CASE ~Appending
  BY <1>2, OthersKeepJournal DEF JournalInv, Events, TurnOf
<1> QED BY <1>1, <1>2

--------------------------------------------------------------------------------
(* The projection of a run. *)

\* A turn that is projected, or whose quarantine says that it is not.
Handled(r, t) == <<r, t>> \in turnRows \cup quarantined

\* The turns of the job that are done.
Done == TurnOf(job.run) - Len(job.turns)

\* The job goes through the turns of its run in order, and handles each that has content.
JobInv ==
  /\ job.turns # <<>> => job.run \in Runs
  /\ phase = "backfill" => job.run \notin Runs
  /\ phase \in {"projecting", "recovering"} /\ job.run \in Runs =>
       /\ Done \in Nat
       /\ \A i \in 1 .. Len(job.turns) : job.turns[i] = Done + i
       /\ \A t \in 1 .. Done : Projectable(job.run, t) => Handled(job.run, t)

\* What is behind the watermark is handled.
WatermarkInv ==
  \A r \in Runs, t \in Nat :
    Projectable(r, t) /\ LastSequence(r, t) <= watermark[r] => Handled(r, t)

\* A recovery has handled the runs it does not still have to go through.
RecoveryInv ==
  phase = "recovering" =>
    \A r \in Runs \ (pending \cup {job.run}), t \in Nat :
      Projectable(r, t) => Handled(r, t) \/ <<r, 0>> \in quarantined

\* The projector, the watermark and the recovery.
ProjectionInv == JobInv /\ WatermarkInv /\ RecoveryInv

\* What is asked of a journal that does not change has the same answer.
LEMMA FrozenJournal ==
  ASSUME UNCHANGED journal
  PROVE  /\ \A r, kind : Events(r, kind)' = Events(r, kind)
         /\ \A r : TurnOf(r)' = TurnOf(r) /\ TurnsOf(r)' = TurnsOf(r)
         /\ \A r, t, kind : Has(r, t, kind)' = Has(r, t, kind)
         /\ \A r, t : /\ Committed(r, t)' = Committed(r, t)
                      /\ LastSequence(r, t)' = LastSequence(r, t)
                      /\ Projectable(r, t)' = Projectable(r, t)
                      /\ TurnMessages(r, t)' = TurnMessages(r, t)
<1>1. \A r, kind : Events(r, kind)' = Events(r, kind)
  BY DEF Events
<1>2. \A r : TurnOf(r)' = TurnOf(r)
  BY <1>1 DEF TurnOf
<1>3. \A r : TurnsOf(r)' = TurnsOf(r)
  BY <1>2 DEF TurnsOf
<1>4. \A r, t, kind : Has(r, t, kind)' = Has(r, t, kind)
  BY <1>1 DEF Has
<1>5. \A r, t : LastSequence(r, t)' = LastSequence(r, t)
  BY <1>1 DEF LastSequence
<1>6. \A r, t : Committed(r, t)' = Committed(r, t)
  BY <1>4 DEF Committed
<1>7. \A r, t : Projectable(r, t)' = Projectable(r, t)
  BY <1>5, <1>6 DEF Projectable
<1>8. \A r, t : TurnMessages(r, t)' = TurnMessages(r, t)
  BY <1>4 DEF TurnMessages, ResultsOf
<1> QED BY <1>1, <1>2, <1>3, <1>4, <1>5, <1>6, <1>7, <1>8

\* What is recorded is what is appended.
LEMMA RecordsIs ==
  ASSUME Types, NEW es, Appends(es), NEW fs \in Seq(EventRows), Record(fs)
  PROVE  es = fs
<1> DEFINE n == Len(journal[run])
<1>1. run \in Runs /\ journal[run] \in Seq(EventRows) /\ n \in Nat
  BY JournalAppended, EventsOfARun DEF Types
<1>2. es \in Seq(EventRows) /\ journal'[run] = journal[run] \o es
  BY <1>1 DEF Appends, Types
<1>3. journal'[run] = journal[run] \o fs
  BY <1>1 DEF Record, Types
<1>4. /\ Len(journal'[run]) = n + Len(es) /\ Len(es) \in Nat
      /\ \A i \in 1 .. Len(es) : journal'[run][n + i] = es[i]
  BY <1>1, <1>2
<1>5. /\ Len(journal'[run]) = n + Len(fs) /\ Len(fs) \in Nat
      /\ \A i \in 1 .. Len(fs) : journal'[run][n + i] = fs[i]
  BY <1>1, <1>3
<1>6. Len(es) = Len(fs)
  BY <1>1, <1>4, <1>5
<1>7. \A i \in 1 .. Len(es) : es[i] = fs[i]
  BY <1>4, <1>5, <1>6
<1> QED BY <1>2, <1>6, <1>7

\* A run that fails has begun no turn as it does.
LEMMA FailingBeginsNothing ==
  ASSUME Types, CloseFailedTurn \/ CompactionBreaks
  PROVE  TurnOf(run)' = TurnOf(run)
<1>1. PICK es : Appends(es)
  BY EngineAppends DEF Appending
<1>2. PICK e \in EventRows : Record(<<e>>) /\ e.kind # "started"
  <2>1. run \in Runs /\ TurnOf(run) \in Nat /\ Len(journal[run]) + 1 \in Nat
    BY <1>1, JournalAppended, EventsOfARun
  <2>2. CASE CloseFailedTurn
    <3>1. Record(<<Completion(TurnOf(run), "nothing")>>)
      BY <2>2 DEF CloseFailedTurn, Completion
    <3>2. PICK e : e = Completion(TurnOf(run), "nothing")
      OBVIOUS
    <3>3. e \in EventRows /\ e.kind = "completed"
      BY <2>1, <3>2, CompletedIs
    <3> QED BY <3>1, <3>2, <3>3
  <2>3. CASE CompactionBreaks
    <3>1. Record(<<Compressed(Len(journal[run]) + 1)>>)
      BY <2>3 DEF CompactionBreaks
    <3>2. PICK e : e = Compressed(Len(journal[run]) + 1)
      OBVIOUS
    <3>3. e \in EventRows /\ e.kind = "compressed"
      BY <2>1, <3>2, CompressedIs
    <3> QED BY <3>1, <3>2, <3>3
  <2> QED BY <2>2, <2>3
<1>3. es # <<Event("started", TurnOf(run) + 1)>>
  <2>1. <<e>> \in Seq(EventRows) /\ <<e>>[1] = e
    BY <1>2
  <2>2. es[1] = e
    BY <1>1, <1>2, <2>1, RecordsIs
  <2> QED BY <1>2, <2>2 DEF Event
<1> QED BY <1>1, <1>3, TurnsAppended

\* A run begins to be projected.
LEMMA ProjectJobs ==
  ASSUME Types, NEW r \in Runs, phase' \in {"projecting", "recovering"},
         job' = [run |-> r, turns |-> TurnsOf(r)], TurnOf(r)' = TurnOf(r)
  PROVE  JobInv'
<1>1. /\ TurnsOf(r) \in Seq(Nat) /\ Len(TurnsOf(r)) = TurnOf(r)
      /\ \A i \in 1 .. TurnOf(r) : TurnsOf(r)[i] = i
  BY TurnsOfIs
<1>2. job'.run = r /\ job'.turns = TurnsOf(r) /\ TurnOf(r) \in Nat
  BY EventsOfARun
<1>3. TurnOf(job.run)' = TurnOf(r)
  BY <1>2 DEF TurnOf, Events
<1>4. Done' = 0
  BY <1>1, <1>2, <1>3 DEF Done
<1>5. \A i \in 1 .. Len(job'.turns) : job'.turns[i] = Done' + i
  BY <1>1, <1>2, <1>4
<1>6. 1 .. Done' = {}
  BY <1>4
<1> QED BY <1>2, <1>4, <1>5, <1>6 DEF JobInv

\* No run is being projected.
LEMMA NoJobs ==
  ASSUME job'.run \notin Runs, job'.turns = <<>>
  PROVE  JobInv'
BY DEF JobInv

\* A turn is handled, or is not to be.
LEMMA HandleTurn ==
  ASSUME Types, JournalInv, JobInv, UNCHANGED <<phase, journal>>, NEW r \in Runs,
         NEW t \in 1 .. MaxTurns, Projecting(r, t), NextTurn,
         turnRows \subseteq turnRows', quarantined \subseteq quarantined',
         Projectable(r, t) => Handled(r, t)'
  PROVE  /\ JobInv' /\ t \in Nat /\ job'.run = job.run
         /\ \A u \in 1 .. t : Projectable(r, u) => Handled(r, u)'
<1>1. /\ job.turns \in Seq(Nat) /\ job.turns # <<>> /\ job.run = r /\ t = job.turns[1]
      /\ job' = [job EXCEPT !.turns = Tail(@)]
  BY DEF Projecting, Types, NextTurn
<1>2. /\ Done \in Nat
      /\ \A i \in 1 .. Len(job.turns) : job.turns[i] = Done + i
      /\ \A u \in 1 .. Done : Projectable(r, u) => Handled(r, u)
  BY <1>1 DEF JobInv, Projecting
<1>3. /\ job'.run = r /\ job'.turns = Tail(job.turns) /\ Len(job.turns) \in Nat \ {0}
      /\ Len(job'.turns) = Len(job.turns) - 1
      /\ \A i \in 1 .. Len(job.turns) - 1 : job'.turns[i] = job.turns[i + 1]
  BY <1>1 DEF Types
<1>4. t = Done + 1 /\ t \in Nat
  <2>1. 1 \in 1 .. Len(job.turns)
    BY <1>3
  <2>2. job.turns[1] = Done + 1
    BY <1>2, <2>1
  <2> QED BY <1>1, <1>2, <2>2
<1>5. TurnOf(job.run)' = TurnOf(r) /\ TurnOf(r) \in Nat
  BY <1>3, EventsOfARun DEF TurnOf, Events
<1>6. Done' = Done + 1
  BY <1>1, <1>3, <1>5 DEF Done
<1>7. \A i \in 1 .. Len(job'.turns) : job'.turns[i] = Done' + i
  <2> SUFFICES ASSUME NEW i \in 1 .. Len(job.turns) - 1  PROVE job'.turns[i] = Done' + i
    BY <1>3
  <2>1. job'.turns[i] = job.turns[i + 1] /\ i + 1 \in 1 .. Len(job.turns)
    BY <1>3
  <2>2. job.turns[i + 1] = Done + (i + 1)
    BY <1>2, <2>1
  <2> QED BY <1>2, <1>6, <2>1, <2>2
<1>8. \A u \in 1 .. t : Projectable(r, u) => Handled(r, u)'
  <2>1. ASSUME NEW u \in 1 .. Done, Projectable(r, u)  PROVE Handled(r, u)'
    BY <1>2, <2>1 DEF Handled
  <2>2. \A u \in 1 .. t : u = t \/ u \in 1 .. Done
    BY <1>2, <1>4
  <2> QED BY <2>1, <2>2
<1>9. \A u \in 1 .. Done' : Projectable(job.run, u)' => Handled(job.run, u)'
  <2>1. \A u : Projectable(r, u)' = Projectable(r, u)
    BY FrozenJournal
  <2>2. \A u : /\ Projectable(job.run, u)' = Projectable(r, u)'
               /\ Handled(job.run, u)' = Handled(r, u)'
    BY <1>3 DEF Projectable, Committed, Has, LastSequence, Events, Handled
  <2> QED BY <1>2, <1>4, <1>6, <1>8, <2>1, <2>2
<1>10. Done' \in Nat
  BY <1>2, <1>6
<1> QED BY <1>1, <1>3, <1>4, <1>7, <1>8, <1>9, <1>10 DEF JobInv

\* The engine journals, and a run that returns or fails is projected from its first turn.
LEMMA AppendingProjection ==
  ASSUME Types, JournalInv, ProjectionInv, Appending
  PROVE  ProjectionInv'
<1>1. PICK es : Appends(es)
  BY EngineAppends
<1>2. /\ UNCHANGED <<turnRows, watermark, quarantined, pending, todo>>
      /\ phase = "running" /\ run \in Runs /\ run' = run
  BY <1>1, EngineAppends, JournalAppended DEF Appends
<1>3. JobInv'
  <2>1. CASE UNCHANGED <<phase, job>>
    BY <1>2, <2>1 DEF ProjectionInv, JobInv
  <2>2. CASE ~UNCHANGED <<phase, job>>
    <3>1. Project(run)
      BY <2>2, EngineAppends
    <3>2. CloseFailedTurn \/ CompactionBreaks
      BY <1>2, <3>1 DEF Appending, BeginTurn, CallRuns, CompleteTurn, Compact, EngineKeeps, Project
    <3>3. TurnOf(run)' = TurnOf(run)
      BY <3>2, FailingBeginsNothing
    <3>4. TurnOf(run)' = TurnOf(run)'
      OBVIOUS
    <3> QED BY <1>2, <3>1, <3>3, ProjectJobs DEF Project
  <2> QED BY <2>1, <2>2
<1>4. WatermarkInv'
  <2> SUFFICES ASSUME NEW r \in Runs, NEW t \in Nat, Projectable(r, t)',
                      LastSequence(r, t)' <= watermark[r]
               PROVE  Handled(r, t)
    BY <1>2 DEF WatermarkInv, Handled
  <2>1. Committed(r, t)'
    BY DEF Projectable
  <2>2. CASE Committed(r, t)
    <3>1. Projectable(r, t) /\ LastSequence(r, t) <= watermark[r]
      BY <1>1, <2>2, CommittedStays
    <3> QED BY <3>1 DEF ProjectionInv, WatermarkInv
  <2>3. CASE ~Committed(r, t)
    <3>1. r = run /\ LastSequence(r, t)' \in Nat /\ LastSequence(r, t)' > Len(journal[run])
      BY <1>1, <2>1, <2>3, CommittedIsNew
    <3>4. watermark[r] <= Len(journal[r]) /\ watermark[r] \in Nat /\ Len(journal[r]) \in Nat
      BY EventsOfARun DEF Types
    <3> QED BY <3>1, <3>4
  <2> QED BY <2>2, <2>3
<1>5. RecoveryInv'
  <2>1. phase' # "recovering"
    BY <1>2, EngineAppends DEF Project
  <2> QED BY <2>1 DEF RecoveryInv
<1> QED BY <1>3, <1>4, <1>5 DEF ProjectionInv

\* A step that takes nothing back and leaves watermarks and recovery alone.
LEMMA FrozenProjection ==
  ASSUME ProjectionInv, UNCHANGED <<journal, watermark>>,
         turnRows \subseteq turnRows', quarantined \subseteq quarantined'
  PROVE  /\ WatermarkInv'
         /\ UNCHANGED <<phase, pending, todo>> /\ job'.run = job.run => RecoveryInv'
<1>1. \A r, t : /\ Projectable(r, t)' = Projectable(r, t)
                /\ LastSequence(r, t)' = LastSequence(r, t)
  BY FrozenJournal
<1>2. \A r, t : Handled(r, t) => Handled(r, t)'
  BY DEF Handled
<1>3. WatermarkInv'
  BY <1>1, <1>2 DEF ProjectionInv, WatermarkInv
<1>4. UNCHANGED <<phase, pending, todo>> /\ job'.run = job.run => RecoveryInv'
  BY <1>1, <1>2 DEF ProjectionInv, RecoveryInv
<1> QED BY <1>3, <1>4

\* The steps of the projector.
LEMMA ProjectorProjection ==
  ASSUME Types, JournalInv, ProjectionInv, PassTurn \/ QuarantineTurn \/ ProjectTurn
  PROVE  ProjectionInv'
<1>1. UNCHANGED <<phase, run, journal, pending, todo>> /\ NextTurn
  BY DEF PassTurn, QuarantineTurn, ProjectTurn, ProjectorKeeps
<1>2. CASE PassTurn \/ QuarantineTurn
  <2>1. PICK r \in Runs, t \in 1 .. MaxTurns :
          /\ Projecting(r, t) /\ UNCHANGED <<turnRows, watermark>>
          /\ quarantined \subseteq quarantined' /\ (Projectable(r, t) => Handled(r, t)')
    BY <1>2 DEF PassTurn, QuarantineTurn, Quarantine, Handled
  <2>2. JobInv' /\ job'.run = job.run
    BY <1>1, <2>1, HandleTurn DEF ProjectionInv
  <2> QED BY <1>1, <2>1, <2>2, FrozenProjection DEF ProjectionInv
<1>3. CASE ProjectTurn
  <2>1. PICK r \in Runs, t \in 1 .. MaxTurns :
          /\ Projecting(r, t) /\ Projectable(r, t) /\ UNCHANGED quarantined
          /\ turnRows' = turnRows \cup {<<r, t>>}
          /\ watermark' = [watermark EXCEPT ![r] =
                             IF <<r, t>> \in turnRows /\ @ > LastSequence(r, t)
                             THEN @ ELSE LastSequence(r, t)]
    BY <1>3 DEF ProjectTurn
  <2>2. Handled(r, t)' /\ turnRows \subseteq turnRows'
    BY <2>1 DEF Handled
  <2>3. /\ JobInv' /\ t \in Nat /\ job'.run = job.run
        /\ \A u \in 1 .. t : Projectable(r, u) => Handled(r, u)'
    BY <1>1, <2>1, <2>2, HandleTurn DEF ProjectionInv
  <2>4. \A q, u : /\ Projectable(q, u)' = Projectable(q, u)
                  /\ LastSequence(q, u)' = LastSequence(q, u)
    BY <1>1, FrozenJournal
  <2>5. \A q, u : Handled(q, u) => Handled(q, u)'
    BY <2>1 DEF Handled
  <2>6. WatermarkInv'
    <3> SUFFICES ASSUME NEW q \in Runs, NEW u \in Nat, Projectable(q, u),
                        LastSequence(q, u) <= watermark'[q]
                 PROVE  Handled(q, u)'
      BY <2>4 DEF WatermarkInv
    <3>1. CASE LastSequence(q, u) <= watermark[q]
      BY <2>5, <3>1 DEF ProjectionInv, WatermarkInv
    <3>2. CASE ~(LastSequence(q, u) <= watermark[q])
      <4>1. q = r /\ watermark'[r] = LastSequence(r, t)
        BY <2>1, <3>2 DEF Types
      <4>2. Committed(r, u) /\ Committed(r, t)
        BY <2>1, <4>1 DEF Projectable
      <4>3. u <= t /\ u \in 1 .. TurnOf(r)
        BY <2>3, <4>1, <4>2, LastSequencesAscend, LastSequenceIs
      <4>4. u \in 1 .. t
        BY <2>3, <4>3
      <4> QED BY <2>3, <4>1, <4>4
    <3> QED BY <3>1, <3>2
  <2>7. RecoveryInv'
    BY <1>1, <2>1, <2>3, <2>4, <2>5 DEF ProjectionInv, RecoveryInv
  <2> QED BY <2>3, <2>6, <2>7 DEF ProjectionInv
<1> QED BY <1>2, <1>3

\* A recovery: what is behind the watermark is handled, and the rest is gone through.
LEMMA StartupProjection ==
  ASSUME Types, JournalInv, ProjectionInv, Startup
  PROVE  ProjectionInv'
<1>1. CASE BackfillRun \/ BackfillCompaction
  <2>1. UNCHANGED <<phase, journal, watermark, turnRows, quarantined, job>> /\ phase = "backfill"
    BY <1>1 DEF BackfillRun, BackfillCompaction, StartupKeeps
  <2>2. JobInv' /\ RecoveryInv'
    BY <2>1 DEF ProjectionInv, JobInv, RecoveryInv
  <2> QED BY <2>1, <2>2, FrozenProjection DEF ProjectionInv
<1>2. CASE BackfillRefused \/ BackfillFails \/ BackfillEnds
  <2>1. /\ UNCHANGED <<journal, watermark, turnRows, quarantined, job>> /\ phase = "backfill"
        /\ phase' = "recovering" /\ pending' = NeedRecovery
    BY <1>2 DEF BackfillRefused, BackfillFails, BackfillEnds, BackfillStops, StartupKeeps
  <2>2. JobInv'
    BY <2>1 DEF ProjectionInv, JobInv
  <2>3. RecoveryInv'
    <3> SUFFICES ASSUME NEW r \in Runs, r \notin NeedRecovery, NEW t \in Nat, Projectable(r, t)
                 PROVE  Handled(r, t)
      BY <2>1, FrozenJournal DEF RecoveryInv, Handled
    <3>1. Committed(r, t)
      BY DEF Projectable
    <3>2. LastSequence(r, t) \in Events(r, "completed") /\ LastSequence(r, t) \in Nat
      BY <3>1, LastSequenceIs, EventsOfARun
    <3>3. ~(LastSequence(r, t) > watermark[r]) /\ watermark[r] \in Nat
      BY <3>2 DEF NeedRecovery, Types
    <3>4. LastSequence(r, t) <= watermark[r]
      BY <3>2, <3>3
    <3> QED BY <3>4 DEF ProjectionInv, WatermarkInv
  <2> QED BY <2>1, <2>2, <2>3, FrozenProjection DEF ProjectionInv
<1>3. CASE RecoverRun
  <2>1. /\ phase = "recovering" /\ job.turns = <<>> /\ phase' = "recovering"
        /\ UNCHANGED <<journal, watermark, turnRows>>
    BY <1>3 DEF RecoverRun, StartupKeeps
  <2>2. PICK r \in pending :
          /\ pending' = pending \ {r}
          /\ \/ job' = [run |-> r, turns |-> TurnsOf(r)] /\ UNCHANGED quarantined
             \/ job' = NoJob /\ Quarantine(r, 0)
    BY <1>3 DEF RecoverRun
  <2>3. r \in Runs /\ quarantined \subseteq quarantined'
    BY <2>2 DEF Types, Quarantine
  <2>4. JobInv'
    <3>1. CASE job' = [run |-> r, turns |-> TurnsOf(r)]
      <4>1. TurnOf(r)' = TurnOf(r)
        BY <2>1, FrozenJournal
      <4> QED BY <2>1, <2>3, <3>1, <4>1, ProjectJobs
    <3>2. CASE job' = NoJob
      <4>1. job'.run \notin Runs /\ job'.turns = <<>>
        BY <3>2, NoJobIs, RunsAre
      <4> QED BY <4>1, NoJobs
    <3> QED BY <2>2, <3>1, <3>2
  <2>5. RecoveryInv'
    <3> SUFFICES ASSUME NEW q \in Runs \ (pending' \cup {job'.run}), NEW t \in Nat,
                        Projectable(q, t)
                 PROVE  Handled(q, t) \/ <<q, 0>> \in quarantined'
      BY <2>1, <2>3, FrozenJournal DEF RecoveryInv, Handled
    <3>1. CASE q = r
      <4>1. Quarantine(r, 0)
        BY <2>2, <3>1
      <4> QED BY <3>1, <4>1 DEF Quarantine
    <3>2. CASE q # r /\ q = job.run
      <4>1. Done \in Nat /\ \A u \in 1 .. Done : Projectable(q, u) => Handled(q, u)
        BY <2>1, <3>2 DEF ProjectionInv, JobInv
      <4>2. Done = TurnOf(q) /\ TurnOf(q) \in Nat
        <5>1. Len(job.turns) = 0 /\ TurnOf(q) \in Nat
          BY <2>1, EventsOfARun
        <5> QED BY <3>2, <5>1 DEF Done
      <4>3. t \in 1 .. TurnOf(q)
        BY LastSequenceIs DEF Projectable
      <4> QED BY <4>1, <4>2, <4>3
    <3>3. CASE q # r /\ q # job.run
      <4>1. q \in Runs \ (pending \cup {job.run})
        BY <2>2, <3>3
      <4> QED BY <2>1, <2>3, <4>1 DEF ProjectionInv, RecoveryInv
    <3> QED BY <3>1, <3>2, <3>3
  <2> QED BY <2>1, <2>3, <2>4, <2>5, FrozenProjection DEF ProjectionInv
<1>4. CASE RecoveryEnds
  <2>1. /\ UNCHANGED <<journal, watermark, turnRows, quarantined>> /\ phase' = "idle"
        /\ job' = NoJob
    BY <1>4 DEF RecoveryEnds, StartupKeeps
  <2>2. JobInv' /\ RecoveryInv'
    BY <2>1, NoJobs, NoJobIs, RunsAre DEF RecoveryInv
  <2> QED BY <2>1, <2>2, FrozenProjection DEF ProjectionInv
<1> QED BY <1>1, <1>2, <1>3, <1>4 DEF Startup, Backfill

\* The other steps.
LEMMA OtherProjection ==
  ASSUME Types, ProjectionInv,
         \/ StartRun \/ StartFails \/ TakeInput \/ RunReturns \/ ProjectionFails \/ RunEnds
         \/ Crash \/ UNCHANGED vars
  PROVE  ProjectionInv'
<1>1. UNCHANGED <<journal, watermark, turnRows, quarantined>>
  BY DEF StartRun, StartFails, TakeInput, EngineKeeps, RunReturns, ProjectionFails, RunEnds,
         Crash, vars, storeVars
<1>2. WatermarkInv'
  BY <1>1, FrozenProjection
<1>3. CASE StartRun \/ StartFails \/ TakeInput
  <2>1. phase' \in {"idle", "running"} /\ UNCHANGED job
    BY <1>3 DEF StartRun, StartFails, TakeInput, EngineKeeps
  <2> QED BY <1>2, <2>1 DEF ProjectionInv, JobInv, RecoveryInv
<1>4. CASE RunReturns
  <2>1. run \in Runs /\ Project(run)
    BY <1>4 DEF RunReturns, Types
  <2>2. TurnOf(run)' = TurnOf(run)
    <3>1. UNCHANGED run
      BY <1>4 DEF RunReturns
    <3> QED BY <1>1, <3>1 DEF TurnOf, Events
  <2>3. JobInv'
    <3>1. PICK r \in Runs : r = run
      BY <2>1
    <3>2. TurnOf(r)' = TurnOf(r)
      BY <1>1, FrozenJournal
    <3> QED BY <2>1, <3>1, <3>2, ProjectJobs DEF Project
  <2> QED BY <1>2, <2>1, <2>3 DEF ProjectionInv, RecoveryInv, Project
<1>5. CASE ProjectionFails \/ RunEnds \/ Crash
  <2>1. phase' \in {"idle", "backfill"} /\ job' = NoJob
    BY <1>5 DEF ProjectionFails, RunEnds, Crash
  <2> QED BY <1>2, <2>1, NoJobs, NoJobIs, RunsAre DEF ProjectionInv, RecoveryInv
<1>6. CASE UNCHANGED vars
  <2>1. UNCHANGED <<phase, journal, job, pending, todo, turnRows, quarantined>>
    BY <1>6 DEF vars, storeVars
  <2>2. JobInv'
    <3>1. \A u : /\ Projectable(job.run, u)' = Projectable(job.run, u)
                 /\ Handled(job.run, u)' = Handled(job.run, u)
      BY <2>1 DEF Projectable, Committed, Has, LastSequence, Events, Handled
    <3>2. Done' = Done
      BY <2>1 DEF Done, TurnOf, Events
    <3> QED BY <2>1, <3>1, <3>2 DEF ProjectionInv, JobInv
  <2> QED BY <1>1, <1>2, <2>1, <2>2, FrozenProjection DEF ProjectionInv
<1> QED BY <1>3, <1>4, <1>5, <1>6

\* Every step keeps the projection in order.
LEMMA ProjectionInvKept ==
  ASSUME Types, JournalInv, ProjectionInv, [Next]_vars
  PROVE  ProjectionInv'
BY AppendingProjection, ProjectorProjection, StartupProjection, OtherProjection
   DEF Next, Engine, Appending, Projector

--------------------------------------------------------------------------------
(* The rows. *)

\* A row of a reply or a result is of a projected turn.
RowOfTurn(m) ==
  /\ m.kind \in {"reply", "result"} => <<m.run, m.n>> \in turnRows
  /\ m.kind = "result" => Has(m.run, m.n, "result")
  /\ m.kind = "prompt" => m.run <= run

\* No row is there twice, and the rows of replies and results are those of the projected turns.
RowsInv ==
  /\ IsInjective(rows)
  /\ \A m \in ToSet(rows) : RowOfTurn(m)
  /\ \A p \in turnRows : /\ Committed(p[1], p[2])
                         /\ ToSet(TurnMessages(p[1], p[2])) \subseteq ToSet(rows)

\* Sequences that have nothing in common and nothing twice, one behind the other.
LEMMA InjectiveConcat ==
  ASSUME NEW A, NEW s \in Seq(A), NEW t \in Seq(A), IsInjective(s), IsInjective(t),
         ToSet(s) \cap ToSet(t) = {}
  PROVE  IsInjective(s \o t)
<1> DEFINE u == s \o t
<1>1. /\ u \in Seq(A) /\ Len(u) = Len(s) + Len(t) /\ Len(s) \in Nat /\ Len(t) \in Nat
      /\ DOMAIN u = 1 .. Len(s) + Len(t) /\ DOMAIN s = 1 .. Len(s) /\ DOMAIN t = 1 .. Len(t)
      /\ \A i \in 1 .. Len(s) + Len(t) : u[i] = IF i <= Len(s) THEN s[i] ELSE t[i - Len(s)]
  OBVIOUS
<1> HIDE DEF u
<1>2. \A i \in DOMAIN u : \/ i \in DOMAIN s /\ u[i] = s[i] /\ u[i] \in ToSet(s)
                          \/ i - Len(s) \in DOMAIN t /\ u[i] = t[i - Len(s)] /\ u[i] \in ToSet(t)
  BY <1>1 DEF ToSet
<1>3. IsInjective(u)
  <2> SUFFICES ASSUME NEW i \in DOMAIN u, NEW j \in DOMAIN u, u[i] = u[j]  PROVE i = j
    BY DEF IsInjective
  <2>1. CASE i \in DOMAIN s /\ u[i] = s[i] /\ u[i] \in ToSet(s)
    BY <1>2, <2>1 DEF IsInjective
  <2>2. CASE i - Len(s) \in DOMAIN t /\ u[i] = t[i - Len(s)] /\ u[i] \in ToSet(t)
    <3>1. j - Len(s) \in DOMAIN t /\ u[j] = t[j - Len(s)]
      BY <1>2, <2>2
    <3>2. i - Len(s) = j - Len(s)
      BY <2>2, <3>1 DEF IsInjective
    <3> QED BY <1>1, <3>2
  <2> QED BY <1>2, <2>1, <2>2
<1> QED BY <1>3 DEF u

\* One element.
LEMMA OneElement ==
  ASSUME NEW A, NEW e \in A
  PROVE  <<e>> \in Seq(A) /\ ToSet(<<e>>) = {e} /\ IsInjective(<<e>>)
BY DEF ToSet, IsInjective

\* What a sequence consists of.
LEMMA ElementsAre ==
  ASSUME NEW A, NEW s \in Seq(A)
  PROVE  /\ ToSet(s) \subseteq A
         /\ \A i \in 1 .. Len(s) : s[i] \in ToSet(s)
         /\ \A m \in ToSet(s) : \E i \in 1 .. Len(s) : m = s[i]
BY DEF ToSet

\* A step that adds rows.
LEMMA MoreRows ==
  ASSUME Types, RowsInv, UNCHANGED journal, run' \in Nat, run <= run',
         NEW new \in Seq(Messages), rows' = rows \o new,
         IsInjective(new), ToSet(new) \cap ToSet(rows) = {},
         \A m \in ToSet(new) : RowOfTurn(m)',
         turnRows \subseteq turnRows',
         \A p \in turnRows' \ turnRows : /\ Committed(p[1], p[2])
                                         /\ ToSet(TurnMessages(p[1], p[2])) \subseteq ToSet(rows')
  PROVE  RowsInv'
<1>1. rows \in Seq(Messages) /\ run \in Nat
  BY TranscriptAssumption DEF Types
<1>2. IsInjective(rows')
  BY <1>1, InjectiveConcat DEF RowsInv
<1>3. ToSet(rows') = ToSet(rows) \cup ToSet(new)
  BY <1>1, ToSetConcat
<1>4. \A r, t, kind : Has(r, t, kind)' = Has(r, t, kind)
  BY FrozenJournal
<1>5. \A r, t : Committed(r, t)' = Committed(r, t) /\ TurnMessages(r, t)' = TurnMessages(r, t)
  BY FrozenJournal
<1>6. \A m \in ToSet(rows') : RowOfTurn(m)'
  <2> SUFFICES ASSUME NEW m \in ToSet(rows)  PROVE RowOfTurn(m)'
    BY <1>3
  <2>1. RowOfTurn(m) /\ m.run \in Nat
    <3>1. m \in Messages
      BY <1>1, ElementsAre
    <3> QED BY <3>1 DEF RowsInv, Messages
  <2> QED BY <1>1, <1>4, <2>1 DEF RowOfTurn
<1>7. \A p \in turnRows' : /\ Committed(p[1], p[2])'
                           /\ ToSet(TurnMessages(p[1], p[2]))' \subseteq ToSet(rows')
  BY <1>3, <1>5 DEF RowsInv
<1> QED BY <1>2, <1>6, <1>7 DEF RowsInv

\* A step that leaves them.
LEMMA SameRows ==
  ASSUME Types, RowsInv, UNCHANGED <<journal, rows, turnRows, run>>
  PROVE  RowsInv'
<1>1. /\ \A r, t, kind : Has(r, t, kind)' = Has(r, t, kind)
      /\ \A r, t : Committed(r, t)' = Committed(r, t) /\ TurnMessages(r, t)' = TurnMessages(r, t)
  BY FrozenJournal
<1>2. \A m : RowOfTurn(m)' = RowOfTurn(m)
  BY <1>1 DEF RowOfTurn
<1> QED BY <1>1, <1>2 DEF RowsInv

\* The engine adds no rows, and takes no result back.
LEMMA AppendingRows ==
  ASSUME Types, JournalInv, RowsInv, Appending
  PROVE  RowsInv'
<1>1. PICK es : Appends(es)
  BY EngineAppends
<1>2. UNCHANGED <<rows, turnRows, run>>
  BY EngineAppends
<1>3. turnRows \subseteq Runs \X Nat
  BY DEF Types
<1>4. \A m \in ToSet(rows) : RowOfTurn(m)'
  <2> SUFFICES ASSUME NEW m \in ToSet(rows)  PROVE RowOfTurn(m)'
    OBVIOUS
  <2>1. RowOfTurn(m)
    BY DEF RowsInv
  <2>2. m.kind = "result" => Has(m.run, m.n, "result")'
    BY <1>1, <1>3, <2>1, HasStays DEF RowOfTurn
  <2> QED BY <1>2, <2>1, <2>2 DEF RowOfTurn
<1>5. ASSUME NEW p \in turnRows
      PROVE  Committed(p[1], p[2])' /\ ToSet(TurnMessages(p[1], p[2]))' \subseteq ToSet(rows)
  <2>1. p[1] \in Runs /\ Committed(p[1], p[2])
    BY <1>3 DEF RowsInv
  <2>2. Committed(p[1], p[2])' /\ TurnMessages(p[1], p[2])' = TurnMessages(p[1], p[2])
    BY <1>1, <2>1, CommittedStays
  <2> QED BY <2>2 DEF RowsInv
<1> QED BY <1>2, <1>4, <1>5 DEF RowsInv

\* The messages of a turn are different.
LEMMA TurnMessagesInjective ==
  ASSUME NEW r \in Runs, NEW t \in Nat
  PROVE  IsInjective(TurnMessages(r, t))
<1>1. Reply(r, t) # Result(r, t)
  BY DEF Reply, Result, MessageOf
<1>2. PICK a, b : a = Reply(r, t) /\ b = Result(r, t)
  OBVIOUS
<1>3. TurnMessages(r, t) = <<a>> \/ TurnMessages(r, t) = <<a, b>>
  BY <1>2, TurnMessagesAre
<1>4. a # b
  BY <1>1, <1>2
<1>5. IsInjective(<<a>>) /\ IsInjective(<<a, b>>)
  BY <1>4 DEF IsInjective
<1> QED BY <1>3, <1>5

\* The rows of the projector.
LEMMA ProjectedRows ==
  ASSUME Types, RowsInv, ProjectTurn
  PROVE  RowsInv'
<1>1. PICK r \in Runs, t \in 1 .. MaxTurns :
        /\ Projectable(r, t)
        /\ turnRows' = turnRows \cup {<<r, t>>}
        /\ rows' = rows \o Without(TurnMessages(r, t), ToSet(rows))
  BY DEF ProjectTurn
<1>2. t \in Nat /\ Committed(r, t)
  BY <1>1, TranscriptAssumption DEF Projectable
<1>3. UNCHANGED <<journal, run>>
  BY DEF ProjectTurn, ProjectorKeeps
<1> DEFINE said == TurnMessages(r, t)
           new == Without(said, ToSet(rows))
<1>4. said \in Seq(Messages) /\ IsInjective(said)
  BY <1>2, TurnMessagesAre, TurnMessagesInjective
<1>5. new \in Seq(Messages) /\ ToSet(new) = ToSet(said) \ ToSet(rows) /\ IsInjective(new)
  <2> HIDE DEF said
  <2> QED BY <1>4, OnlyElements, OnlyInjective DEF Without
<1>6. rows \in Seq(Messages) /\ run \in Nat
  BY TranscriptAssumption DEF Types
<1>7. ToSet(rows') = ToSet(rows) \cup ToSet(new)
  <2> HIDE DEF new
  <2> QED BY <1>1, <1>5, <1>6, ToSetConcat DEF new
<1>8. \A m \in ToSet(new) : RowOfTurn(m)'
  <2> SUFFICES ASSUME NEW m \in ToSet(said)  PROVE RowOfTurn(m)'
    BY <1>5
  <2>1. m = Reply(r, t) \/ (m = Result(r, t) /\ Has(r, t, "result"))
    BY <1>2, TurnMessagesAre
  <2>2. m.run = r /\ m.n = t /\ m.kind \in {"reply", "result"}
    BY <2>1 DEF Reply, Result, MessageOf
  <2>3. m.kind = "result" => Has(r, t, "result")
    BY <2>1 DEF Reply, Result, MessageOf
  <2>4. Has(r, t, "result")' = Has(r, t, "result")
    BY <1>3, FrozenJournal
  <2>5. <<m.run, m.n>> \in turnRows'
    BY <1>1, <2>2
  <2>6. Has(m.run, m.n, "result")' = Has(r, t, "result")'
    BY <2>2 DEF Has, Events
  <2> QED BY <2>2, <2>3, <2>4, <2>5, <2>6 DEF RowOfTurn
<1>9. \A p \in turnRows' \ turnRows : /\ Committed(p[1], p[2])
                                      /\ ToSet(TurnMessages(p[1], p[2])) \subseteq ToSet(rows')
  <2>1. \A p \in turnRows' \ turnRows : p[1] = r /\ p[2] = t
    BY <1>1
  <2> QED BY <1>2, <1>5, <1>7, <2>1
<1>10. rows' = rows \o new
  BY <1>1
<1> HIDE DEF new, said
<1> QED BY <1>1, <1>3, <1>5, <1>6, <1>8, <1>9, <1>10, MoreRows

\* A prompt or an input.
LEMMA SpokenRows ==
  ASSUME Types, RowsInv, StartRun \/ StartFails \/ TakeInput
  PROVE  RowsInv'
<1>1. UNCHANGED <<journal, turnRows>> /\ run \in Nat /\ run' \in Nat /\ run <= run'
  <2>1. CASE StartRun \/ StartFails
    <3>1. UNCHANGED <<journal, turnRows>>
      BY <2>1 DEF StartRun, StartFails
    <3> QED BY <2>1, <3>1, NextRun, RunsAre
  <2>2. CASE TakeInput
    <3>1. UNCHANGED <<journal, turnRows, run>>
      BY <2>2 DEF TakeInput, EngineKeeps
    <3> QED BY <3>1, RunsAre DEF Types
  <2> QED BY <2>1, <2>2
<1>2. PICK m \in Messages : /\ rows' = Append(rows, m) /\ m \notin ToSet(rows)
                            /\ m.kind \in {"prompt", "queued"}
                            /\ m.kind = "prompt" => m.run <= run'
  <2>1. CASE StartRun \/ StartFails
    <3>1. rows' = Append(rows, Prompt(run')) /\ run' = run + 1 /\ run' \in Runs
      BY <2>1, NextRun
    <3>2. Prompt(run') \in Messages
      BY <3>1, MessagesAre
    <3>3. Prompt(run').kind = "prompt" /\ Prompt(run').run = run'
      BY DEF Prompt, MessageOf
    <3>5. PICK p : p = Prompt(run')
      OBVIOUS
    <3>4. p \notin ToSet(rows)
      <4> SUFFICES ASSUME p \in ToSet(rows)  PROVE FALSE
        OBVIOUS
      <4>1. RowOfTurn(p) /\ p.kind = "prompt" /\ p.run = run + 1
        BY <3>1, <3>3, <3>5 DEF RowsInv
      <4> QED BY <1>1, <4>1 DEF RowOfTurn
    <3> QED BY <1>1, <3>1, <3>2, <3>3, <3>4, <3>5
  <2>2. CASE TakeInput
    <3>1. PICK i \in Steering : rows' = Append(rows, Queued(i)) /\ Queued(i) \notin ToSet(rows)
      BY <2>2 DEF TakeInput
    <3>2. Queued(i) \in Messages /\ Queued(i).kind = "queued"
      BY MessagesAre DEF Queued, MessageOf
    <3> QED BY <3>1, <3>2
  <2> QED BY <2>1, <2>2
<1>3. rows \in Seq(Messages)
  BY DEF Types
<1>4. rows' = rows \o <<m>>
  BY <1>2, <1>3
<1>5. <<m>> \in Seq(Messages) /\ ToSet(<<m>>) = {m} /\ IsInjective(<<m>>)
  BY OneElement
<1>6. RowOfTurn(m)'
  BY <1>2 DEF RowOfTurn
<1> QED BY <1>1, <1>2, <1>4, <1>5, <1>6, MoreRows

\* The rows of a backfill.
LEMMA BackfilledRows ==
  ASSUME Types, RowsInv, Storing
  PROVE  RowsInv'
<1>1. UNCHANGED <<journal, turnRows, run>> /\ run \in Nat /\ rows \in Seq(Messages)
  <2>1. UNCHANGED <<journal, turnRows, run>>
    BY StoringKeeps
  <2>2. run \in Nat /\ rows \in Seq(Messages)
    BY RunsAre DEF Types
  <2> QED BY <2>1, <2>2
<1>2. CASE rows' = rows
  BY <1>1, <1>2, SameRows
<1>3. CASE rows' # rows
  <2>1. PICK m \in Messages : /\ rows' = Append(rows, m) /\ m \notin ToSet(rows)
                              /\ m.kind \in {"summary", "notice"}
    BY <1>3, FiledRows
  <2>2. PICK new : new = <<m>>
    OBVIOUS
  <2>3. /\ rows' = rows \o new /\ new \in Seq(Messages) /\ ToSet(new) = {m} /\ IsInjective(new)
    BY <1>1, <2>1, <2>2, OneElement
  <2>4. \A o \in ToSet(new) : RowOfTurn(o)'
    BY <2>1, <2>3 DEF RowOfTurn
  <2>5. run' \in Nat /\ run <= run' /\ turnRows' \ turnRows = {} /\ turnRows \subseteq turnRows'
    BY <1>1
  <2> QED BY <1>1, <2>1, <2>3, <2>4, <2>5, MoreRows
<1> QED BY <1>2, <1>3

\* Every step keeps the rows in order.
LEMMA RowsInvKept ==
  ASSUME Types, JournalInv, RowsInv, [Next]_vars
  PROVE  RowsInv'
<1>1. CASE Appending
  BY <1>1, AppendingRows
<1>2. CASE StartRun \/ StartFails \/ TakeInput
  BY <1>2, SpokenRows
<1>3. CASE ProjectTurn
  BY <1>3, ProjectedRows
<1>4. CASE Storing
  BY <1>4, BackfilledRows
<1>5. CASE \/ RunReturns \/ PassTurn \/ QuarantineTurn \/ ProjectionFails \/ RunEnds
           \/ BackfillRun \/ BackfillEnds \/ RecoverRun \/ RecoveryEnds \/ UNCHANGED vars
  <2>1. UNCHANGED <<journal, rows, turnRows, run>>
    BY <1>5 DEF RunReturns, PassTurn, QuarantineTurn, ProjectorKeeps, ProjectionFails, RunEnds,
                BackfillRun, BackfillEnds, BackfillStops, RecoverRun, RecoveryEnds, StartupKeeps,
                storeVars, vars
  <2> QED BY <2>1, SameRows
<1> QED BY <1>1, <1>2, <1>3, <1>4, <1>5
        DEF Next, Engine, Appending, Projector, Startup, Backfill, Storing

--------------------------------------------------------------------------------
(* What is read back. *)

\* A reply whose call has a result.
Answered(m) == m.kind = "reply" /\ Has(m.run, m.n, "result")

\* Where a message comes from.
Known(m) ==
  /\ m.kind \in {"reply", "result"} => m.run \in Runs /\ Committed(m.run, m.n)
  /\ m.kind = "result" => Has(m.run, m.n, "result")
  /\ m.kind \in {"prompt", "queued"} => m \in ToSet(rows)
  /\ m.kind \in {"summary", "notice"} => m.run \in Runs /\ m.n \in 0 .. Len(journal[m.run])

\* Each answered reply stands in front of its result.
PairedSeq(s) ==
  \A m \in ToSet(s), i \in DOMAIN s : s[i] = m =>
    /\ Answered(m) => i < Len(s) /\ s[i + 1] = Result(m.run, m.n)
    /\ m.kind = "result" => i > 1 /\ s[i - 1] = Reply(m.run, m.n)

\* Both are in a set, or neither is.
PairedSet(S) ==
  \A m \in S : /\ Answered(m) => Result(m.run, m.n) \in S
               /\ m.kind = "result" => Reply(m.run, m.n) \in S

\* What may be sent: all of it is known, nothing is there twice, nothing is torn.
Sound(s) ==
  /\ \A m \in ToSet(s) : Known(m)
  /\ IsInjective(s) /\ PairedSeq(s)

\* What a compaction left, a summary stands for the rest.
View(v) ==
  /\ Sound(v.messages)
  /\ \A m \in v.inputs : Known(m)
  /\ PairedSet(v.inputs)
  /\ v.inputs \subseteq ToSet(v.messages) \cup v.gone

\* The context, the rows and every compaction are sound.
ViewsInv ==
  /\ Sound(ctx) /\ Sound(rows)
  /\ \A s \in snapshots : View(s)
  /\ \A r \in Runs : \A k \in Compacting(r) : View(journal[r][k])

\* Paired sequences one behind the other.
LEMMA PairedConcat ==
  ASSUME NEW s \in Seq(Messages), NEW t \in Seq(Messages), PairedSeq(s), PairedSeq(t)
  PROVE  PairedSeq(s \o t)
<1> DEFINE u == s \o t
<1>1. /\ u \in Seq(Messages) /\ Len(u) = Len(s) + Len(t) /\ Len(s) \in Nat /\ Len(t) \in Nat
      /\ DOMAIN u = 1 .. Len(s) + Len(t) /\ DOMAIN s = 1 .. Len(s) /\ DOMAIN t = 1 .. Len(t)
      /\ \A i \in 1 .. Len(s) : u[i] = s[i]
      /\ \A i \in 1 .. Len(t) : u[Len(s) + i] = t[i]
  OBVIOUS
<1> HIDE DEF u
<1>2. ASSUME NEW m, NEW i \in DOMAIN u, u[i] = m
      PROVE  /\ Answered(m) => i < Len(u) /\ u[i + 1] = Result(m.run, m.n)
             /\ m.kind = "result" => i > 1 /\ u[i - 1] = Reply(m.run, m.n)
  <2>1. CASE i <= Len(s)
    <3>1. i \in DOMAIN s /\ s[i] = m /\ m \in ToSet(s)
      BY <1>1, <1>2, <2>1 DEF ToSet
    <3>2. /\ Answered(m) => i < Len(s) /\ s[i + 1] = Result(m.run, m.n)
          /\ m.kind = "result" => i > 1 /\ s[i - 1] = Reply(m.run, m.n)
      BY <3>1 DEF PairedSeq
    <3>3. i < Len(s) => i < Len(u) /\ u[i + 1] = s[i + 1]
      BY <1>1, <3>1
    <3>4. i > 1 => u[i - 1] = s[i - 1]
      BY <1>1, <3>1
    <3> QED BY <3>2, <3>3, <3>4
  <2>2. CASE ~(i <= Len(s))
    <3> DEFINE j == i - Len(s)
    <3>1. j \in DOMAIN t /\ i = Len(s) + j
      BY <1>1, <2>2
    <3>2. t[j] = m /\ m \in ToSet(t)
      BY <1>1, <1>2, <3>1 DEF ToSet
    <3>3. /\ Answered(m) => j < Len(t) /\ t[j + 1] = Result(m.run, m.n)
          /\ m.kind = "result" => j > 1 /\ t[j - 1] = Reply(m.run, m.n)
      BY <3>1, <3>2 DEF PairedSeq
    <3> HIDE DEF j
    <3>4. j < Len(t) => i < Len(u) /\ u[i + 1] = t[j + 1]
      <4> SUFFICES ASSUME j < Len(t)  PROVE i < Len(u) /\ u[i + 1] = t[j + 1]
        OBVIOUS
      <4>1. j + 1 \in 1 .. Len(t) /\ i + 1 = Len(s) + (j + 1)
        BY <1>1, <3>1
      <4> QED BY <1>1, <3>1, <4>1
    <3>5. j > 1 => i > 1 /\ u[i - 1] = t[j - 1]
      <4> SUFFICES ASSUME j > 1  PROVE i > 1 /\ u[i - 1] = t[j - 1]
        OBVIOUS
      <4>1. j - 1 \in 1 .. Len(t) /\ i - 1 = Len(s) + (j - 1)
        BY <1>1, <3>1
      <4> QED BY <1>1, <3>1, <4>1
    <3> QED BY <3>3, <3>4, <3>5
  <2> QED BY <2>1, <2>2
<1>3. PairedSeq(u)
  BY <1>2 DEF PairedSeq
<1> QED BY <1>3 DEF u

\* Messages that are no halves of pairs.
LEMMA NoHalves ==
  ASSUME NEW s, \A m \in ToSet(s) : m.kind \notin {"reply", "result"}
  PROVE  PairedSeq(s)
BY DEF PairedSeq, Answered

\* What a paired sequence consists of.
LEMMA PairedElements ==
  ASSUME NEW s \in Seq(Messages), PairedSeq(s)
  PROVE  PairedSet(ToSet(s))
<1> SUFFICES ASSUME NEW m \in ToSet(s)
             PROVE  /\ Answered(m) => Result(m.run, m.n) \in ToSet(s)
                    /\ m.kind = "result" => Reply(m.run, m.n) \in ToSet(s)
  BY DEF PairedSet
<1>1. PICK i \in 1 .. Len(s) : m = s[i]
  BY ElementsAre
<1>2. DOMAIN s = 1 .. Len(s) /\ Len(s) \in Nat
  OBVIOUS
<1>3. /\ Answered(m) => i < Len(s) /\ s[i + 1] = Result(m.run, m.n)
      /\ m.kind = "result" => i > 1 /\ s[i - 1] = Reply(m.run, m.n)
  BY <1>1, <1>2 DEF PairedSeq
<1>4. /\ i < Len(s) => i + 1 \in 1 .. Len(s)
      /\ i > 1 => i - 1 \in 1 .. Len(s)
  BY <1>2
<1> QED BY <1>3, <1>4, ElementsAre

\* Of the pairs of a sequence, S takes both or neither.
TakesPairs(s, S) ==
  \A m \in ToSet(s) \cap S : /\ Answered(m) => Result(m.run, m.n) \in S
                             /\ m.kind = "result" => Reply(m.run, m.n) \in S

\* A part of a paired sequence that takes both of a pair or neither.
LEMMA OnlyPaired ==
  ASSUME NEW s \in Seq(Messages), PairedSeq(s), NEW S, TakesPairs(s, S)
  PROVE  PairedSeq(Only(s, S))
<1>1. PICK o : o = Only(s, S)
  OBVIOUS
<1>2. ToSet(o) = ToSet(s) \cap S /\ \A i \in DOMAIN o : Beside(o, s, S, i)
  BY <1>1, OnlyElements, OnlyNeighbours
<1>3. ASSUME NEW m \in ToSet(s) \cap S, NEW i \in DOMAIN o, o[i] = m
      PROVE  /\ Answered(m) => i < Len(o) /\ o[i + 1] = Result(m.run, m.n)
             /\ m.kind = "result" => i > 1 /\ o[i - 1] = Reply(m.run, m.n)
  <2>1. PICK k \in DOMAIN s :
          /\ o[i] = s[k]
          /\ k < Len(s) /\ s[k + 1] \in S => i < Len(o) /\ o[i + 1] = s[k + 1]
          /\ k > 1 /\ s[k - 1] \in S => i > 1 /\ o[i - 1] = s[k - 1]
    BY <1>2 DEF Beside
  <2>2. /\ Answered(m) => k < Len(s) /\ s[k + 1] = Result(m.run, m.n)
        /\ m.kind = "result" => k > 1 /\ s[k - 1] = Reply(m.run, m.n)
    BY <1>3, <2>1 DEF PairedSeq
  <2> QED BY <1>3, <2>1, <2>2 DEF TakesPairs
<1>4. PairedSeq(o)
  BY <1>2, <1>3 DEF PairedSeq
<1> QED BY <1>1, <1>4

\* The messages of a turn.
LEMMA TurnPaired ==
  ASSUME NEW r \in Runs, NEW t \in Nat
  PROVE  PairedSeq(TurnMessages(r, t))
<1>1. PICK a, b : a = Reply(r, t) /\ b = Result(r, t)
  OBVIOUS
<1>2. /\ a.kind = "reply" /\ a.run = r /\ a.n = t
      /\ b.kind = "result" /\ b.run = r /\ b.n = t
  BY <1>1 DEF Reply, Result, MessageOf
<1>3. TurnMessages(r, t) = IF Has(r, t, "result") THEN <<a, b>> ELSE <<a>>
  BY <1>1, TurnMessagesAre
<1>4. Answered(a) <=> Has(r, t, "result")
  BY <1>2 DEF Answered
<1>5. ~Answered(b)
  BY <1>2 DEF Answered
<1>6. CASE Has(r, t, "result")
  <2>1. Result(a.run, a.n) = b /\ Reply(b.run, b.n) = a
    BY <1>1, <1>2
  <2>2. /\ DOMAIN <<a, b>> = {1, 2} /\ Len(<<a, b>>) = 2 /\ <<a, b>>[1] = a /\ <<a, b>>[2] = b
        /\ <<a, b>>[1 + 1] = b /\ <<a, b>>[2 - 1] = a
    OBVIOUS
  <2>3. PairedSeq(<<a, b>>)
    BY <1>2, <1>5, <2>1, <2>2 DEF PairedSeq
  <2> QED BY <1>3, <1>6, <2>3
<1>7. CASE ~Has(r, t, "result")
  <2>1. DOMAIN <<a>> = {1} /\ <<a>>[1] = a
    OBVIOUS
  <2>2. PairedSeq(<<a>>)
    BY <1>2, <1>4, <1>7, <2>1 DEF PairedSeq
  <2> QED BY <1>3, <1>7, <2>2
<1> QED BY <1>6, <1>7

\* Sound sequences that have nothing in common, one behind the other.
LEMMA SoundConcat ==
  ASSUME NEW s \in Seq(Messages), NEW t \in Seq(Messages), Sound(s), Sound(t),
         ToSet(s) \cap ToSet(t) = {}
  PROVE  Sound(s \o t)
<1>1. ToSet(s \o t) = ToSet(s) \cup ToSet(t)
  BY ToSetConcat
<1>2. IsInjective(s \o t)
  BY InjectiveConcat DEF Sound
<1>3. PairedSeq(s \o t)
  BY PairedConcat DEF Sound
<1> QED BY <1>1, <1>2, <1>3 DEF Sound
\* A half of a pair is known by its turn.
LEMMA HalvesAre ==
  ASSUME NEW m \in Messages
  PROVE  /\ m.kind = "reply" => Reply(m.run, m.n) = m
         /\ m.kind = "result" => Result(m.run, m.n) = m
         /\ Reply(m.run, m.n).kind = "reply" /\ Result(m.run, m.n).kind = "result"
         /\ Reply(m.run, m.n).run = m.run /\ Reply(m.run, m.n).n = m.n
         /\ Result(m.run, m.n).run = m.run /\ Result(m.run, m.n).n = m.n
BY DEF Messages, Reply, Result, MessageOf

\* What a compaction left and the rows it has not taken in.
LEMMA MergeSound ==
  ASSUME NEW v, v.messages \in Seq(Messages), View(v), NEW h \in Seq(Messages), Sound(h)
  PROVE  /\ Merge(v, h) \in Seq(Messages) /\ Sound(Merge(v, h))
         /\ ToSet(h) \subseteq ToSet(Merge(v, h)) \cup v.gone
<1> DEFINE taken == v.inputs \cup ToSet(v.messages)
           S == ToSet(h) \ taken
<1>1. PICK s \in Seq(Messages) : s = v.messages
  OBVIOUS
<1>2. Sound(s) /\ PairedSet(ToSet(s)) /\ \A m \in ToSet(s) : Known(m)
  BY <1>1, PairedElements DEF View, Sound
<1>3. PairedSet(taken)
  BY <1>1, <1>2 DEF View, PairedSet
<1>4. PairedSet(ToSet(h)) /\ ToSet(h) \subseteq Messages
  BY PairedElements, ElementsAre DEF Sound
<1>5. ASSUME NEW m \in S
      PROVE  /\ Answered(m) => Result(m.run, m.n) \in S
             /\ m.kind = "result" => Reply(m.run, m.n) \in S
  <2>1. m \in Messages /\ m \in ToSet(h) /\ m \notin taken /\ Known(m)
    BY <1>4 DEF Sound
  <2>2. ASSUME Answered(m)  PROVE Result(m.run, m.n) \notin taken
    <3>1. m.kind = "reply"
      BY <2>2 DEF Answered
    <3>2. PICK b : b = Result(m.run, m.n)
      OBVIOUS
    <3>3. b.kind = "result" /\ Reply(b.run, b.n) = m
      BY <2>1, <3>1, <3>2, HalvesAre
    <3> QED BY <1>3, <2>1, <3>2, <3>3 DEF PairedSet
  <2>3. ASSUME m.kind = "result"  PROVE Reply(m.run, m.n) \notin taken
    <3>1. PICK a : a = Reply(m.run, m.n)
      OBVIOUS
    <3>2. a.kind = "reply" /\ a.run = m.run /\ a.n = m.n /\ Result(a.run, a.n) = m
      BY <2>1, <2>3, <3>1, HalvesAre
    <3>3. Answered(a)
      BY <2>1, <2>3, <3>2 DEF Known, Answered
    <3> QED BY <1>3, <2>1, <3>1, <3>2, <3>3 DEF PairedSet
  <2> QED BY <1>4, <2>1, <2>2, <2>3 DEF PairedSet
<1>6. PICK rest : rest = Only(h, S)
  OBVIOUS
<1>7. rest \in Seq(Messages) /\ ToSet(rest) = S
  <2>1. rest \in Seq(Messages) /\ ToSet(rest) = ToSet(h) \cap S
    BY <1>6, OnlyElements
  <2> QED BY <2>1
<1>8. Sound(rest)
  <2>1. PairedSeq(rest)
    <3>1. PICK T : T = S
      OBVIOUS
    <3>2. TakesPairs(h, T)
      BY <1>5, <3>1 DEF TakesPairs
    <3>3. PairedSeq(h) /\ rest = Only(h, T)
      BY <1>6, <3>1 DEF Sound
    <3> HIDE DEF S
    <3>4. PairedSeq(Only(h, T))
      BY <3>2, <3>3, OnlyPaired
    <3> QED BY <3>3, <3>4
  <2>2. IsInjective(rest)
    BY <1>6, OnlyInjective DEF Sound
  <2>3. \A m \in ToSet(rest) : Known(m)
    BY <1>7 DEF Sound
  <2> QED BY <2>1, <2>2, <2>3 DEF Sound
<1>9. Merge(v, h) = s \o rest
  BY <1>1, <1>6 DEF Merge, Without
<1>10. ToSet(s) \cap ToSet(rest) = {}
  BY <1>1, <1>7
<1>11. Sound(s \o rest) /\ s \o rest \in Seq(Messages)
  BY <1>2, <1>7, <1>8, <1>10, SoundConcat
<1>12. ToSet(s \o rest) = ToSet(s) \cup ToSet(rest)
  BY <1>7, ToSetConcat
<1>13. ToSet(h) \subseteq ToSet(s \o rest) \cup v.gone
  BY <1>1, <1>7, <1>12 DEF View
<1> QED BY <1>9, <1>11, <1>13

\* What a summary leaves: it stands in front, and behind it all from a message on that is no
\* result.
LEMMA SummarisedPairs ==
  ASSUME NEW s \in Seq(Messages), PairedSeq(s), IsInjective(s), NEW j \in 1 .. Len(s) - 1,
         s[j + 1].kind # "result",
         NEW e \in Messages, e.kind = "summary", e \notin ToSet(s),
         NEW c \in Seq(Messages), Len(c) = 1 + (Len(s) - j), c[1] = e,
         \A i \in 1 .. Len(s) - j : c[i + 1] = s[j + i]
  PROVE  PairedSeq(c) /\ IsInjective(c) /\ ToSet(c) \subseteq ToSet(s) \cup {e}
<1>1. /\ Len(s) \in Nat /\ DOMAIN s = 1 .. Len(s) /\ DOMAIN c = 1 .. 1 + (Len(s) - j)
      /\ j \in Nat
  OBVIOUS
<1>2. ASSUME NEW i \in DOMAIN c
      PROVE  \/ i = 1 /\ c[i] = e
             \/ i # 1 /\ j + (i - 1) \in DOMAIN s /\ c[i] = s[j + (i - 1)] /\ c[i] \in ToSet(s)
  <2>1. CASE i = 1
    BY <2>1
  <2>2. CASE i # 1
    <3>1. i - 1 \in 1 .. Len(s) - j /\ j + (i - 1) \in 1 .. Len(s) /\ (i - 1) + 1 = i
      BY <1>1, <2>2
    <3>2. c[i] = s[j + (i - 1)]
      BY <3>1
    <3> QED BY <1>1, <2>2, <3>1, <3>2, ElementsAre
  <2> QED BY <2>1, <2>2
<1>3. ToSet(c) \subseteq ToSet(s) \cup {e}
  BY <1>2, ElementsAre
<1>4. IsInjective(c)
  <2> SUFFICES ASSUME NEW i \in DOMAIN c, NEW k \in DOMAIN c, c[i] = c[k]  PROVE i = k
    BY DEF IsInjective
  <2>1. CASE i = 1
    BY <1>2, <2>1
  <2>2. CASE i # 1
    <3>1. k # 1 /\ j + (i - 1) = j + (k - 1)
      BY <1>2, <2>2 DEF IsInjective
    <3> QED BY <1>1, <3>1
  <2> QED BY <2>1, <2>2
<1>5. ASSUME NEW m, NEW i \in DOMAIN c, c[i] = m
      PROVE  /\ Answered(m) => i < Len(c) /\ c[i + 1] = Result(m.run, m.n)
             /\ m.kind = "result" => i > 1 /\ c[i - 1] = Reply(m.run, m.n)
  <2>1. CASE i = 1
    BY <1>2, <1>5, <2>1 DEF Answered
  <2>2. CASE i # 1
    <3> DEFINE k == j + (i - 1)
    <3>1. k \in DOMAIN s /\ s[k] = m /\ m \in ToSet(s)
      BY <1>2, <1>5, <2>2
    <3>2. /\ Answered(m) => k < Len(s) /\ s[k + 1] = Result(m.run, m.n)
          /\ m.kind = "result" => k > 1 /\ s[k - 1] = Reply(m.run, m.n)
      BY <3>1 DEF PairedSeq
    <3>3. k < Len(s) => i < Len(c) /\ c[i + 1] = s[k + 1]
      <4> SUFFICES ASSUME k < Len(s)  PROVE i < Len(c) /\ c[i + 1] = s[k + 1]
        OBVIOUS
      <4>1. i \in 1 .. Len(s) - j /\ k + 1 = j + i
        BY <1>1
      <4> QED BY <1>1, <4>1
    <3>4. m.kind = "result" => i > 2
      BY <1>1, <2>2, <3>1
    <3>5. i > 2 => c[i - 1] = s[k - 1]
      <4> SUFFICES ASSUME i > 2  PROVE c[i - 1] = s[k - 1]
        OBVIOUS
      <4>1. i - 2 \in 1 .. Len(s) - j /\ (i - 2) + 1 = i - 1 /\ j + (i - 2) = k - 1
        BY <1>1
      <4> QED BY <4>1
    <3> QED BY <1>1, <3>2, <3>3, <3>4, <3>5
  <2> QED BY <2>1, <2>2
<1>6. PairedSeq(c)
  BY <1>5 DEF PairedSeq
<1> QED BY <1>3, <1>4, <1>6

\* Rows are added and never removed.
LEMMA RowsGrow ==
  ASSUME Types, [Next]_vars
  PROVE  ToSet(rows) \subseteq ToSet(rows')
<1>0. rows \in Seq(Messages)
  BY DEF Types
<1>1. ASSUME NEW new \in Seq(Messages), rows' = rows \o new
      PROVE  ToSet(rows) \subseteq ToSet(rows')
  BY <1>0, <1>1, ToSetConcat
<1>2. CASE StartRun \/ StartFails \/ TakeInput
  <2>1. PICK m \in Messages : rows' = Append(rows, m)
    <3>1. CASE StartRun \/ StartFails
      <4>1. rows' = Append(rows, Prompt(run')) /\ run' \in Runs
        BY <3>1, NextRun
      <4> QED BY <4>1, MessagesAre
    <3>2. CASE TakeInput
      BY <3>2, MessagesAre DEF TakeInput
    <3> QED BY <1>2, <3>1, <3>2
  <2>2. rows' = rows \o <<m>> /\ <<m>> \in Seq(Messages)
    BY <1>0, <2>1
  <2> QED BY <1>1, <2>2
<1>3. CASE ProjectTurn
  <2>1. PICK r \in Runs, t \in 1 .. MaxTurns :
          rows' = rows \o Without(TurnMessages(r, t), ToSet(rows))
    BY <1>3 DEF ProjectTurn
  <2>2. Without(TurnMessages(r, t), ToSet(rows)) \in Seq(Messages)
    BY TranscriptAssumption, TurnMessagesAre, OnlyElements DEF Without
  <2> QED BY <1>1, <2>1, <2>2
<1>4. CASE Storing
  <2>1. CASE rows' # rows
    <3>1. PICK m \in Messages : rows' = Append(rows, m)
      BY <1>4, <2>1, FiledRows
    <3>2. rows' = rows \o <<m>> /\ <<m>> \in Seq(Messages)
      BY <1>0, <3>1
    <3> QED BY <1>1, <3>2
  <2> QED BY <2>1
<1>5. CASE \/ Appending \/ RunReturns \/ PassTurn \/ QuarantineTurn \/ ProjectionFails \/ RunEnds
           \/ BackfillRun \/ BackfillEnds \/ RecoverRun \/ RecoveryEnds \/ UNCHANGED vars
  BY <1>5, EngineAppends
     DEF RunReturns, PassTurn, QuarantineTurn, ProjectorKeeps, ProjectionFails, RunEnds,
         BackfillRun, BackfillEnds, BackfillStops, RecoverRun, RecoveryEnds, StartupKeeps,
         storeVars, vars
<1> QED BY <1>2, <1>3, <1>4, <1>5
        DEF Next, Engine, Appending, Projector, Startup, Backfill, Storing

\* What is known of a message stays known, and whether a reply that is known has a result.
LEMMA KnownStays ==
  ASSUME Types, JournalInv, [Next]_vars, NEW m, Known(m)
  PROVE  Known(m)' /\ (Answered(m)' <=> Answered(m))
<1>1. m.kind \in {"prompt", "queued"} => m \in ToSet(rows')
  BY RowsGrow DEF Known
<1>2. CASE Appending
  <2>1. PICK es : Appends(es)
    BY <1>2, EngineAppends
  <2>2. m.kind \in {"reply", "result"} => m.run \in Runs /\ Committed(m.run, m.n)'
    BY <2>1, CommittedStays DEF Known
  <2>3. m.kind = "result" => Has(m.run, m.n, "result")'
    BY <2>1, HasStays DEF Known
  <2>4. m.kind \in {"summary", "notice"} => m.run \in Runs /\ m.n \in 0 .. Len(journal'[m.run])
    <3> SUFFICES ASSUME m.kind \in {"summary", "notice"}
                 PROVE  m.run \in Runs /\ m.n \in 0 .. Len(journal'[m.run])
      OBVIOUS
    <3>1. m.run \in Runs /\ m.n \in 0 .. Len(journal[m.run])
      BY DEF Known
    <3>2. CASE m.run = run
      <4>1. /\ Len(journal'[run]) = Len(journal[run]) + Len(es)
            /\ Len(es) \in Nat /\ Len(journal[run]) \in Nat
        BY <2>1, <3>1, <3>2, JournalAppended, EventsOfARun
      <4>2. m.n \in 0 .. Len(journal[run])
        BY <3>1, <3>2
      <4> QED BY <3>1, <3>2, <4>1, <4>2
    <3>3. CASE m.run # run
      <4>1. journal'[m.run] = journal[m.run]
        BY <2>1, <3>1, <3>3, JournalAppended
      <4> QED BY <3>1, <4>1
    <3> QED BY <3>2, <3>3
  <2>5. m.kind = "reply" => (Has(m.run, m.n, "result")' <=> Has(m.run, m.n, "result"))
    <3> SUFFICES ASSUME m.kind = "reply"
                 PROVE  Has(m.run, m.n, "result")' <=> Has(m.run, m.n, "result")
      OBVIOUS
    <3>1. m.run \in Runs /\ Committed(m.run, m.n)
      BY DEF Known
    <3>2. Has(m.run, m.n, "result") => Has(m.run, m.n, "result")'
      BY <2>1, <3>1, HasStays
    <3>3. Has(m.run, m.n, "result")' => Has(m.run, m.n, "result")
      BY <2>1, <3>1, HasIsNew
    <3> QED BY <3>2, <3>3
  <2> QED BY <1>1, <2>2, <2>3, <2>4, <2>5 DEF Known, Answered
<1>3. CASE ~Appending
  <2>1. UNCHANGED journal
    BY <1>3, OthersKeepJournal
  <2>2. /\ Committed(m.run, m.n)' = Committed(m.run, m.n)
        /\ Has(m.run, m.n, "result")' = Has(m.run, m.n, "result")
    BY <2>1, FrozenJournal
  <2> QED BY <1>1, <2>1, <2>2 DEF Known, Answered
<1> QED BY <1>2, <1>3

\* Of a sequence of messages that are known, or are no replies, nothing changes.
LEMMA PairsStay ==
  ASSUME NEW s, \A m \in ToSet(s) : Answered(m)' <=> Answered(m), PairedSeq(s)
  PROVE  PairedSeq(s)'
BY DEF PairedSeq

\* Neither of what is read back.
LEMMA SoundStays ==
  ASSUME Types, JournalInv, [Next]_vars, NEW s, Sound(s)
  PROVE  Sound(s)'
<1>1. \A m \in ToSet(s) : Known(m)' /\ (Answered(m)' <=> Answered(m))
  BY KnownStays DEF Sound
<1>2. PairedSeq(s)'
  BY <1>1, PairsStay DEF Sound
<1> QED BY <1>1, <1>2 DEF Sound

\* Nor of a compaction.
LEMMA ViewStays ==
  ASSUME Types, JournalInv, [Next]_vars, NEW v, View(v)
  PROVE  View(v)'
<1>1. PICK s : s = v.messages
  OBVIOUS
<1>2. Sound(s)'
  BY <1>1, SoundStays DEF View
<1>3. \A m \in v.inputs : Known(m)' /\ (Answered(m)' <=> Answered(m))
  BY KnownStays DEF View
<1>4. PairedSet(v.inputs)'
  BY <1>3 DEF View, PairedSet
<1>5. Sound(v.messages)'
  BY <1>1, <1>2
<1> QED BY <1>3, <1>4, <1>5 DEF View

\* What holds of any messages holds of them in the next state.
LEMMA SoundConcatNext ==
  \A s, t \in Seq(Messages) :
    Sound(s)' /\ Sound(t)' /\ ToSet(s) \cap ToSet(t) = {} => Sound(s \o t)'
<1>1. \A s, t \in Seq(Messages) :
        Sound(s) /\ Sound(t) /\ ToSet(s) \cap ToSet(t) = {} => Sound(s \o t)
  BY SoundConcat
<1>2. (\A s, t \in Seq(Messages) :
         Sound(s) /\ Sound(t) /\ ToSet(s) \cap ToSet(t) = {} => Sound(s \o t))'
  BY <1>1, PTL
<1> QED BY <1>2

\* NoHalves, PairedElements and MergeSound of the next state.
LEMMA NoHalvesNext ==
  \A s : (\A m \in ToSet(s) : m.kind \notin {"reply", "result"}) => PairedSeq(s)'
<1>1. \A s : (\A m \in ToSet(s) : m.kind \notin {"reply", "result"}) => PairedSeq(s)
  BY NoHalves
<1>2. (\A s : (\A m \in ToSet(s) : m.kind \notin {"reply", "result"}) => PairedSeq(s))'
  BY <1>1, PTL
<1> QED BY <1>2

\* What is paired in order is paired.
LEMMA PairedElementsNext ==
  \A s \in Seq(Messages) : PairedSeq(s)' => PairedSet(ToSet(s))'
<1>1. \A s \in Seq(Messages) : PairedSeq(s) => PairedSet(ToSet(s))
  BY PairedElements
<1>2. (\A s \in Seq(Messages) : PairedSeq(s) => PairedSet(ToSet(s)))'
  BY <1>1, PTL
<1> QED BY <1>2

\* A merge of what is sound then is sound then.
LEMMA MergeSoundNext ==
  \A v, h : v.messages \in Seq(Messages) /\ h \in Seq(Messages) /\ View(v)' /\ Sound(h)' =>
    /\ Merge(v, h) \in Seq(Messages) /\ Sound(Merge(v, h))'
    /\ ToSet(h) \subseteq ToSet(Merge(v, h)) \cup v.gone
<1>1. \A v, h : v.messages \in Seq(Messages) /\ h \in Seq(Messages) /\ View(v) /\ Sound(h) =>
        /\ Merge(v, h) \in Seq(Messages) /\ Sound(Merge(v, h))
        /\ ToSet(h) \subseteq ToSet(Merge(v, h)) \cup v.gone
  BY MergeSound
<1>2. (\A v, h : v.messages \in Seq(Messages) /\ h \in Seq(Messages) /\ View(v) /\ Sound(h) =>
         /\ Merge(v, h) \in Seq(Messages) /\ Sound(Merge(v, h))
         /\ ToSet(h) \subseteq ToSet(Merge(v, h)) \cup v.gone)'
  BY <1>1, PTL
<1> QED BY <1>2

\* One message that is no half of a pair.
LEMMA OneSound ==
  ASSUME NEW m \in Messages, m.kind \notin {"reply", "result"}, Known(m)'
  PROVE  /\ Sound(<<m>>)' /\ <<m>> \in Seq(Messages) /\ ToSet(<<m>>) = {m}
<1>1. PICK s : s = <<m>>
  OBVIOUS
<1>2. s \in Seq(Messages) /\ ToSet(s) = {m} /\ IsInjective(s)
  BY <1>1, OneElement
<1>3. PairedSeq(s)'
  BY <1>2, NoHalvesNext
<1>4. Sound(s)'
  BY <1>2, <1>3 DEF Sound
<1> QED BY <1>1, <1>2, <1>4

--------------------------------------------------------------------------------
(* The rows are read back. *)

\* The messages of a turn that is projected.
LEMMA ProjectedSound ==
  ASSUME Types, JournalInv, RowsInv, [Next]_vars, ProjectTurn
  PROVE  \E new \in Seq(Messages) :
           /\ rows' = rows \o new /\ Sound(new)' /\ ToSet(rows) \cap ToSet(new) = {}
<1>1. PICK r \in Runs, t \in 1 .. MaxTurns :
        /\ Projectable(r, t)
        /\ rows' = rows \o Without(TurnMessages(r, t), ToSet(rows))
  BY DEF ProjectTurn
<1>2. t \in Nat /\ Committed(r, t)
  BY <1>1, TranscriptAssumption DEF Projectable
<1>3. PICK s : s = TurnMessages(r, t)
  OBVIOUS
<1>4. /\ s \in Seq(Messages) /\ IsInjective(s) /\ PairedSeq(s)
      /\ ToSet(s) = {Reply(r, t)} \cup (IF Has(r, t, "result") THEN {Result(r, t)} ELSE {})
  BY <1>2, <1>3, TurnMessagesAre, TurnMessagesInjective, TurnPaired
<1>5. \A m \in ToSet(s) : /\ m.kind \in {"reply", "result"} /\ m.run = r /\ m.n = t
                          /\ m.kind = "result" => Has(r, t, "result")
  BY <1>4 DEF Reply, Result, MessageOf
<1>6. \A m \in ToSet(s) : Known(m)
  <2> SUFFICES ASSUME NEW m \in ToSet(s)  PROVE Known(m)
    OBVIOUS
  <2>1. /\ m.kind \in {"reply", "result"} /\ m.run = r /\ m.n = t
        /\ m.kind = "result" => Has(r, t, "result")
    BY <1>5
  <2> QED BY <1>2, <2>1 DEF Known
<1>7. PICK S : S = ToSet(s) \ ToSet(rows)
  OBVIOUS
<1>8. <<r, t>> \in turnRows => S = {}
  <2> SUFFICES ASSUME <<r, t>> \in turnRows  PROVE ToSet(s) \subseteq ToSet(rows)
    BY <1>7
  <2>1. PICK p \in turnRows : p = <<r, t>>
    OBVIOUS
  <2>2. ToSet(TurnMessages(p[1], p[2])) \subseteq ToSet(rows)
    BY DEF RowsInv
  <2> QED BY <1>3, <2>1, <2>2
<1>9. <<r, t>> \notin turnRows => S = ToSet(s)
  <2> SUFFICES ASSUME <<r, t>> \notin turnRows, NEW m \in ToSet(s), m \in ToSet(rows)
               PROVE  FALSE
    BY <1>7
  <2>1. RowOfTurn(m)
    BY DEF RowsInv
  <2> QED BY <1>5, <2>1 DEF RowOfTurn
<1>10. TakesPairs(s, S)
  BY <1>4, <1>8, <1>9, PairedElements DEF TakesPairs, PairedSet
<1>11. PICK new : new = Only(s, S)
  OBVIOUS
<1>12. new \in Seq(Messages) /\ ToSet(new) = ToSet(s) \cap S /\ IsInjective(new) /\ PairedSeq(new)
  BY <1>4, <1>10, <1>11, OnlyElements, OnlyInjective, OnlyPaired
<1>13. Sound(new)
  BY <1>6, <1>12 DEF Sound
<1>14. Sound(new)'
  BY <1>13, SoundStays
<1>15. rows' = rows \o new
  BY <1>1, <1>3, <1>7, <1>11 DEF Without
<1>16. ToSet(rows) \cap ToSet(new) = {}
  BY <1>7, <1>12
<1> QED BY <1>12, <1>14, <1>15, <1>16

\* The rows stay sound.
LEMMA RowsSound ==
  ASSUME Types, JournalInv, RowsInv, ViewsInv, [Next]_vars
  PROVE  Sound(rows)'
<1>0. rows \in Seq(Messages)
  BY DEF Types
<1>1. PICK s \in Seq(Messages) : s = rows
  BY <1>0
<1>2. Sound(s) /\ Sound(s)'
  BY <1>1, SoundStays DEF ViewsInv
<1>3. ASSUME NEW new \in Seq(Messages), rows' = s \o new, Sound(new)',
             ToSet(s) \cap ToSet(new) = {}
      PROVE  Sound(rows)'
  <2>1. PICK u : u = s \o new
    OBVIOUS
  <2>2. Sound(u)'
    BY <1>2, <1>3, <2>1, SoundConcatNext
  <2> QED BY <1>3, <2>1, <2>2 DEF Sound, PairedSeq
<1>4. CASE rows' = rows
  BY <1>1, <1>2, <1>4 DEF Sound, PairedSeq
<1>5. CASE StartRun \/ StartFails \/ TakeInput
  <2>1. PICK m \in Messages : /\ rows' = Append(rows, m) /\ m \notin ToSet(rows)
                              /\ m.kind \in {"prompt", "queued"}
    <3>1. CASE StartRun \/ StartFails
      <4>0. run \in Nat
        BY RunsAre DEF Types
      <4>5. rows' = Append(rows, Prompt(run')) /\ run' = run + 1 /\ run < MaxRuns
        BY <3>1 DEF StartRun, StartFails
      <4>1. rows' = Append(rows, Prompt(run')) /\ run' = run + 1 /\ run' \in Runs /\ run \in Nat
        BY <4>0, <4>5, RunsAre
      <4>2. PICK p : p = Prompt(run')
        OBVIOUS
      <4>3. p \in Messages /\ p.kind = "prompt" /\ p.run = run + 1
        BY <4>1, <4>2, MessagesAre DEF Prompt, MessageOf
      <4>4. p \notin ToSet(rows)
        <5> SUFFICES ASSUME p \in ToSet(rows)  PROVE FALSE
          OBVIOUS
        <5>1. RowOfTurn(p)
          BY DEF RowsInv
        <5> QED BY <4>1, <4>3, <5>1 DEF RowOfTurn
      <4> QED BY <4>1, <4>2, <4>3, <4>4
    <3>2. CASE TakeInput
      <4>1. PICK i \in Steering : rows' = Append(rows, Queued(i)) /\ Queued(i) \notin ToSet(rows)
        BY <3>2 DEF TakeInput
      <4>2. Queued(i) \in Messages /\ Queued(i).kind = "queued"
        BY MessagesAre DEF Queued, MessageOf
      <4> QED BY <4>1, <4>2
    <3> QED BY <1>5, <3>1, <3>2
  <2>2. rows' = s \o <<m>>
    BY <1>1, <2>1
  <2>3. ToSet(rows') = ToSet(s) \cup {m}
    <3>1. <<m>> \in Seq(Messages) /\ ToSet(<<m>>) = {m}
      BY OneElement
    <3>2. PICK t \in Seq(Messages) : t = <<m>> /\ ToSet(t) = {m}
      BY <3>1
    <3>3. s \in Seq(Messages)
      BY <1>1
    <3>4. t \in Seq(Messages)
      BY <3>2
    <3>5. ToSet(s \o t) = ToSet(s) \cup ToSet(t)
      BY <3>3, <3>4, ToSetConcat
    <3> QED BY <2>2, <3>2, <3>5
  <2>4. Known(m)'
    BY <2>1, <2>3 DEF Known
  <2>5. Sound(<<m>>)' /\ <<m>> \in Seq(Messages) /\ ToSet(<<m>>) = {m}
    BY <2>1, <2>4, OneSound
  <2>6. PICK new : new = <<m>>
    OBVIOUS
  <2>7. Sound(new)' /\ new \in Seq(Messages) /\ ToSet(s) \cap ToSet(new) = {} /\ rows' = s \o new
    BY <1>1, <2>1, <2>2, <2>5, <2>6
  <2> QED BY <1>3, <2>7
<1>6. CASE ProjectTurn
  BY <1>1, <1>3, <1>6, ProjectedSound
<1>7. CASE Storing /\ rows' # rows
  <2>1. PICK r \in Runs : \E k \in Compacting(r) : \E m \in Messages :
          /\ rows' = Append(rows, m) /\ m \notin ToSet(rows)
          /\ m \in ToSet(journal[r][k].messages) /\ m.kind \in {"summary", "notice"}
    BY <1>7, FiledRows
  <2>2. PICK k \in Compacting(r) : \E m \in Messages :
          /\ rows' = Append(rows, m) /\ m \notin ToSet(rows)
          /\ m \in ToSet(journal[r][k].messages) /\ m.kind \in {"summary", "notice"}
    BY <2>1
  <2>3. PICK m \in Messages :
          /\ rows' = Append(rows, m) /\ m \notin ToSet(rows)
          /\ m \in ToSet(journal[r][k].messages) /\ m.kind \in {"summary", "notice"}
    BY <2>2
  <2>4. Known(m)'
    <3>1. Known(m)
      BY <2>3 DEF ViewsInv, View, Sound
    <3> QED BY <3>1, KnownStays
  <2>5. Sound(<<m>>)' /\ <<m>> \in Seq(Messages) /\ ToSet(<<m>>) = {m}
    BY <2>3, <2>4, OneSound
  <2>6. PICK new : new = <<m>>
    OBVIOUS
  <2>7. Sound(new)' /\ new \in Seq(Messages) /\ ToSet(s) \cap ToSet(new) = {} /\ rows' = s \o new
    BY <1>1, <2>3, <2>5, <2>6
  <2> QED BY <1>3, <2>7
<1>8. CASE \/ Appending \/ RunReturns \/ PassTurn \/ QuarantineTurn \/ ProjectionFails \/ RunEnds
           \/ BackfillRun \/ BackfillEnds \/ RecoverRun \/ RecoveryEnds \/ UNCHANGED vars
  <2>1. rows' = rows
    BY <1>8, EngineAppends
       DEF RunReturns, PassTurn, QuarantineTurn, ProjectorKeeps, ProjectionFails, RunEnds,
           BackfillRun, BackfillEnds, BackfillStops, RecoverRun, RecoveryEnds, StartupKeeps,
           storeVars, vars
  <2> QED BY <1>4, <2>1
<1> QED BY <1>4, <1>5, <1>6, <1>7, <1>8
        DEF Next, Engine, Appending, Projector, Startup, Backfill, Storing

\* An empty context.
LEMMA NothingSound == Sound(<<>>)'
<1>1. PICK s : s = <<>>
  OBVIOUS
<1>2. ToSet(s) = {} /\ IsInjective(s)
  BY <1>1 DEF ToSet, IsInjective
<1>3. PairedSeq(s)'
  BY <1>2, NoHalvesNext
<1>4. Sound(s)'
  BY <1>2, <1>3 DEF Sound
<1> QED BY <1>1, <1>4

\* The messages of the turn that is completed now.
LEMMA CompletedSound ==
  ASSUME Types, JournalInv, ViewsInv, [Next]_vars, CompleteTurn
  PROVE  \E new \in Seq(Messages) :
           /\ ctx' = ctx \o new /\ Sound(new)' /\ ToSet(ctx) \cap ToSet(new) = {}
<1>1. PICK es : Appends(es)
  BY EngineAppends DEF Appending
<1>2. PICK t : t = TurnOf(run)
  OBVIOUS
<1>3. run \in Runs /\ t \in Nat /\ Len(journal[run]) \in Nat /\ run' = run
  BY <1>1, <1>2, JournalAppended, EventsOfARun
<1>4. PICK e : e = Completion(t, "something")
  OBVIOUS
<1>5. /\ Record(<<e>>) /\ ~Committed(run, t) /\ ctx' = ctx \o TurnMessages(run, t)
  BY <1>2, <1>4 DEF CompleteTurn, InTurn, Completion
<1>6. e \in EventRows /\ e.kind = "completed" /\ e.turn = t
  BY <1>3, <1>4, CompletedIs
<1>7. Len(es) = 1 /\ es[1] = e
  <2>1. PICK fs \in Seq(EventRows) : fs = <<e>>
    BY <1>6, OneElement
  <2>2. es = fs
    BY <1>1, <1>5, <2>1, RecordsIs
  <2> QED BY <2>1, <2>2
<1>8. PICK r \in Runs : r = run
  BY <1>3
<1>9. Committed(r, t)'
  <2>1. PICK k : k = Len(journal[run]) + 1
    OBVIOUS
  <2>2. k \in Events(run, "completed")'
    <3>1. 1 \in {i \in 1 .. Len(es) : es[i].kind = "completed"}
      BY <1>6, <1>7
    <3> QED BY <1>1, <2>1, <3>1, EventsAppended
  <2>3. journal'[run][k] = e
    <3>1. 1 \in 1 .. Len(es)
      BY <1>7
    <3>2. journal'[run][Len(journal[run]) + 1] = es[1]
      BY <1>1, <3>1, JournalAppended
    <3> QED BY <1>7, <2>1, <3>2
  <2> QED BY <1>3, <1>6, <1>8, <2>2, <2>3 DEF Committed, Has, Events
<1>10. Has(r, t, "result")' <=> Has(r, t, "result")
  <2>1. Has(r, t, "result") => Has(r, t, "result")'
    BY <1>1, HasStays
  <2>2. ASSUME Has(r, t, "result")'  PROVE Has(r, t, "result")
    <3>1. PICK k : k \in Events(r, "result")' /\ journal'[r][k].turn = t
      BY <2>2 DEF Has
    <3>2. k \in Events(run, "result")'
      BY <1>3, <1>8, <3>1 DEF Events
    <3>3. k \in Events(run, "result")
      <4> SUFFICES ASSUME k \notin Events(run, "result")  PROVE FALSE
        OBVIOUS
      <4>1. \E i \in 1 .. Len(es) : es[i].kind = "result"
        BY <1>1, <3>2, AppendedEvent
      <4> QED BY <1>6, <1>7, <4>1
    <3>4. journal'[run][k] = journal[run][k]
      BY <1>1, <1>3, <3>3, JournalAppended, EventsOfARun
    <3> QED BY <1>8, <3>1, <3>3, <3>4 DEF Has
  <2> QED BY <2>1, <2>2
<1>11. PICK new : new = TurnMessages(r, t)
  OBVIOUS
<1>12. /\ new \in Seq(Messages) /\ IsInjective(new) /\ PairedSeq(new)
       /\ ToSet(new) = {Reply(r, t)} \cup (IF Has(r, t, "result") THEN {Result(r, t)} ELSE {})
  BY <1>3, <1>11, TurnMessagesAre, TurnMessagesInjective, TurnPaired
<1>13. \A m \in ToSet(new) : /\ m.kind \in {"reply", "result"} /\ m.run = r /\ m.n = t
                             /\ m.kind = "result" => Has(r, t, "result")
  BY <1>12 DEF Reply, Result, MessageOf
<1>14. ASSUME NEW m \in ToSet(new)  PROVE Known(m)' /\ (Answered(m)' <=> Answered(m))
  <2>1. /\ m.kind \in {"reply", "result"} /\ m.run = r /\ m.n = t
        /\ m.kind = "result" => Has(r, t, "result")
    BY <1>13
  <2>2. /\ Has(m.run, m.n, "result")' = Has(r, t, "result")'
        /\ Committed(m.run, m.n)' = Committed(r, t)'
    BY <2>1
  <2> QED BY <1>9, <1>10, <2>1, <2>2 DEF Known, Answered
<1>15. Sound(new)'
  <2>1. PairedSeq(new)'
    BY <1>12, <1>14, PairsStay
  <2> QED BY <1>12, <1>14, <2>1 DEF Sound
<1>16. ToSet(ctx) \cap ToSet(new) = {}
  <2> SUFFICES ASSUME NEW m \in ToSet(new), m \in ToSet(ctx)  PROVE FALSE
    OBVIOUS
  <2>1. Known(m)
    BY DEF ViewsInv, Sound
  <2> QED BY <1>5, <1>8, <1>13, <2>1 DEF Known
<1> QED BY <1>5, <1>8, <1>11, <1>12, <1>15, <1>16

\* What a compaction leaves.
LEMMA CompactSound ==
  ASSUME Types, JournalInv, ViewsInv, [Next]_vars, Compact
  PROVE  /\ Sound(ctx)'
         /\ ToSet(ctx) \subseteq ToSet(ctx') \cup replaced'
<1>1. /\ ctx' \in Seq(Messages) /\ replaced' = replaced \cup (ToSet(ctx) \ ToSet(ctx'))
      /\ \/ ctx' = ctx
         \/ \E j \in 1 .. Len(ctx) - 1 :
              /\ ctx[j + 1].kind # "result"
              /\ Len(ctx') = 1 + (Len(ctx) - j)
              /\ ctx'[1] = Summary(run, Len(journal[run]) + 2)
              /\ \A i \in 1 .. Len(ctx) - j : ctx'[i + 1] = ctx[j + i]
  BY CompactedContext
<1>2. PICK s \in Seq(Messages), c \in Seq(Messages) : s = ctx /\ c = ctx'
  BY <1>1 DEF Types
<1>3. Sound(s) /\ Sound(s)'
  BY <1>2, SoundStays DEF ViewsInv
<1>4. Sound(c)'
  <2>1. CASE c = s
    BY <1>3, <2>1
  <2>2. CASE c # s
    <3>1. PICK j \in 1 .. Len(s) - 1 :
            /\ s[j + 1].kind # "result"
            /\ Len(c) = 1 + (Len(s) - j)
            /\ c[1] = Summary(run, Len(journal[run]) + 2)
            /\ \A i \in 1 .. Len(s) - j : c[i + 1] = s[j + i]
      BY <1>1, <1>2, <2>2
    <3>2. PICK es : Appends(es)
      BY EngineAppends DEF Appending
    <3>3. /\ run \in Runs /\ Len(journal[run]) \in Nat /\ CompactionRows \in Seq(EventRows)
          /\ Record(CompactionRows) /\ Len(CompactionRows) = 2
      BY <3>2, JournalAppended, EventsOfARun, SnapshotIs DEF Record
    <3>4. Len(journal'[run]) = Len(journal[run]) + 2
      <4>1. es = CompactionRows
        BY <3>2, <3>3, RecordsIs
      <4> QED BY <3>2, <3>3, <4>1, JournalAppended
    <3>5. PICK e : e = Summary(run, Len(journal[run]) + 2)
      OBVIOUS
    <3>6. e \in Messages /\ e.kind = "summary" /\ e.run = run /\ e.n = Len(journal[run]) + 2
      BY <3>3, <3>5, MessagesAre DEF Summary, MessageOf
    <3>7. e \notin ToSet(s)
      <4> SUFFICES ASSUME e \in ToSet(s)  PROVE FALSE
        OBVIOUS
      <4>1. Known(e)
        BY <1>3 DEF Sound
      <4> QED BY <3>3, <3>6, <4>1 DEF Known
    <3>8. PairedSeq(c) /\ IsInjective(c) /\ ToSet(c) \subseteq ToSet(s) \cup {e}
      BY <1>3, <3>1, <3>5, <3>6, <3>7, SummarisedPairs DEF Sound
    <3>9. Known(e)' /\ (Answered(e)' <=> Answered(e))
      BY <3>3, <3>4, <3>6 DEF Known, Answered
    <3>10. \A m \in ToSet(s) : Known(m)' /\ (Answered(m)' <=> Answered(m))
      BY <1>3, KnownStays DEF Sound
    <3>11. \A m \in ToSet(c) : Known(m)' /\ (Answered(m)' <=> Answered(m))
      BY <3>8, <3>9, <3>10
    <3>12. PairedSeq(c)'
      BY <3>8, <3>11, PairsStay
    <3> QED BY <3>8, <3>11, <3>12 DEF Sound
  <2> QED BY <2>1, <2>2
<1>5. Sound(ctx)'
  BY <1>2, <1>4 DEF Sound, PairedSeq
<1> QED BY <1>1, <1>5

\* The context of a run that starts.
LEMMA StartSound ==
  ASSUME Types, JournalInv, RowsInv, ViewsInv, [Next]_vars, StartRun
  PROVE  /\ Sound(ctx)'
         /\ ToSet(rows') \subseteq ToSet(ctx') \cup replaced'
<1>1. rows' \in Seq(Messages) /\ Sound(rows)'
  BY RowsSound, StartTypes DEF Types
<1>2. PICK h \in Seq(Messages) : h = rows'
  BY <1>1
<1>3. Sound(h)'
  BY <1>1, <1>2 DEF Sound, PairedSeq
<1>4. CASE ctx' = rows'
  <2>1. Sound(ctx)'
    BY <1>2, <1>3, <1>4 DEF Sound, PairedSeq
  <2> QED BY <1>4, <2>1
<1>5. CASE \E s \in NewestSnapshots : ctx' = Merge(s, rows') /\ replaced' = s.gone
  <2>1. PICK v \in snapshots : ctx' = Merge(v, h) /\ replaced' = v.gone
    BY <1>2, <1>5 DEF NewestSnapshots
  <2>2. v.messages \in Seq(Messages)
    BY DEF Types, Views
  <2>3. View(v)'
    BY ViewStays DEF ViewsInv
  <2>4. PICK c : c = Merge(v, h)
    OBVIOUS
  <2>5. Sound(c)' /\ ToSet(h) \subseteq ToSet(c) \cup v.gone
    BY <1>3, <2>2, <2>3, <2>4, MergeSoundNext
  <2>6. Sound(ctx)'
    BY <2>1, <2>4, <2>5 DEF Sound, PairedSeq
  <2> QED BY <1>2, <2>1, <2>4, <2>5, <2>6
<1> QED BY <1>4, <1>5 DEF StartRun

\* An input that is taken.
LEMMA TakenSound ==
  ASSUME Types, JournalInv, ViewsInv, [Next]_vars, TakeInput
  PROVE  \E new \in Seq(Messages) :
           /\ ctx' = ctx \o new /\ Sound(new)' /\ ToSet(ctx) \cap ToSet(new) = {}
           /\ rows' = rows \o new
<1>1. PICK i \in Steering : /\ Queued(i) \notin ToSet(rows)
                            /\ rows' = Append(rows, Queued(i)) /\ ctx' = Append(ctx, Queued(i))
  BY DEF TakeInput
<1>2. PICK m : m = Queued(i)
  OBVIOUS
<1>3. m \in Messages /\ m.kind = "queued"
  BY <1>2, MessagesAre DEF Queued, MessageOf
<1>4. PICK new \in Seq(Messages) : new = <<m>> /\ ToSet(new) = {m}
  BY <1>3, OneElement
<1>5. rows \in Seq(Messages) /\ ctx \in Seq(Messages)
  BY DEF Types
<1>6. rows' = rows \o new /\ ctx' = ctx \o new
  BY <1>1, <1>2, <1>4, <1>5
<1>7. ToSet(rows') = ToSet(rows) \cup {m}
  <2>1. ToSet(rows \o new) = ToSet(rows) \cup ToSet(new)
    BY <1>5, ToSetConcat
  <2> QED BY <1>4, <1>6, <2>1
<1>8. Known(m)'
  BY <1>3, <1>7 DEF Known
<1>9. Sound(new)'
  BY <1>3, <1>4, <1>8, OneSound
<1>10. m \notin ToSet(ctx)
  <2> SUFFICES ASSUME m \in ToSet(ctx)  PROVE FALSE
    OBVIOUS
  <2>1. Known(m)
    BY DEF ViewsInv, Sound
  <2> QED BY <1>1, <1>2, <1>3, <2>1 DEF Known
<1> QED BY <1>4, <1>6, <1>9, <1>10

\* The context stays sound.
LEMMA ContextSound ==
  ASSUME Types, JournalInv, RowsInv, ViewsInv, [Next]_vars
  PROVE  Sound(ctx)'
<1>1. PICK s \in Seq(Messages) : s = ctx
  BY DEF Types
<1>2. Sound(s)'
  BY <1>1, SoundStays DEF ViewsInv
<1>3. CASE StartRun
  BY <1>3, StartSound
<1>4. CASE StartFails \/ Crash
  <2>1. PICK u : u = <<>>
    OBVIOUS
  <2>2. ctx' = u /\ Sound(u)'
    BY <1>4, <2>1, NothingSound DEF StartFails, Crash
  <2> QED BY <2>2 DEF Sound, PairedSeq
<1>5. CASE Compact
  BY <1>5, CompactSound
<1>6. CASE CompleteTurn \/ TakeInput
  <2>1. PICK new \in Seq(Messages) :
          ctx' = s \o new /\ Sound(new)' /\ ToSet(s) \cap ToSet(new) = {}
    BY <1>1, <1>6, CompletedSound, TakenSound
  <2>2. PICK u : u = s \o new
    OBVIOUS
  <2>3. Sound(u)'
    BY <1>2, <2>1, <2>2, SoundConcatNext
  <2> QED BY <2>1, <2>2, <2>3 DEF Sound, PairedSeq
<1>7. CASE \/ BeginTurn \/ CallRuns \/ CloseFailedTurn \/ CompactionBreaks
           \/ RunReturns \/ Projector \/ RunEnds \/ Startup \/ UNCHANGED vars
  <2>1. ctx' = ctx
    BY <1>7 DEF BeginTurn, CallRuns, CloseFailedTurn, CompactionBreaks, RunReturns, Projector,
                PassTurn, QuarantineTurn, ProjectTurn, ProjectionFails, ProjectorKeeps, RunEnds,
                Startup, Backfill, BackfillRun, BackfillCompaction, BackfillRefused, BackfillFails,
                BackfillStops, BackfillEnds, RecoverRun, RecoveryEnds, StartupKeeps, vars
  <2> QED BY <1>1, <1>2, <2>1 DEF Sound, PairedSeq
<1> QED BY <1>3, <1>4, <1>5, <1>6, <1>7 DEF Next, Engine

--------------------------------------------------------------------------------
(* The compactions are kept. *)

\* The compactions in the journal.
LEMMA JournalViews ==
  ASSUME Types, JournalInv, ViewsInv, [Next]_vars, NEW es, Appends(es),
         \A i \in 1 .. Len(es) : es[i].kind \in {"compressed", "snapshot"} => View(es[i])'
  PROVE  \A r \in Runs : \A k \in Compacting(r)' : View(journal[r][k])'
<1> SUFFICES ASSUME NEW r \in Runs, NEW k \in Compacting(r)'  PROVE View(journal[r][k])'
  OBVIOUS
<1>1. PICK v : v = journal'[r][k]
  OBVIOUS
<1>2. View(v)'
  <2>1. CASE k \in Compacting(r)
    <3>1. k \in 1 .. Len(journal[r])
      BY <2>1, EventsOfARun DEF Compacting
    <3>2. v = journal[r][k]
      BY <1>1, <3>1, JournalAppended
    <3>3. View(v)
      BY <2>1, <3>2 DEF ViewsInv
    <3> QED BY <3>3, ViewStays
  <2>2. CASE k \notin Compacting(r)
    <3>1. r = run
      <4> SUFFICES ASSUME r # run  PROVE FALSE
        OBVIOUS
      <4>1. \A kind : Events(r, kind)' = Events(r, kind)
        BY EventsAppended
      <4> QED BY <2>2, <4>1 DEF Compacting
    <3>2. run' = run
      BY JournalAppended
    <3>3. PICK kind \in {"compressed", "snapshot"} :
            k \in Events(run, kind)' /\ k \notin Events(run, kind)
      BY <2>2, <3>1, <3>2 DEF Compacting, Events
    <3>4. PICK i \in 1 .. Len(es) : es[i].kind = kind /\ k = Len(journal[run]) + i
      BY <3>3, AppendedEvent
    <3>5. v = es[i]
      BY <1>1, <3>1, <3>4, JournalAppended
    <3>6. PICK e : e = es[i]
      OBVIOUS
    <3> QED BY <3>3, <3>4, <3>5
  <2> QED BY <2>1, <2>2
<1> QED BY <1>1, <1>2 DEF View, Sound, PairedSeq, PairedSet

\* A compaction of which only the notice was journalled.
LEMMA NoticeView ==
  ASSUME NEW e, NEW r \in Runs, NEW k \in Nat, k <= Len(journal'[r]),
         Len(journal'[r]) \in Nat, e.messages = <<Notice(r, k)>>, e.inputs = {}
  PROVE  View(e)'
<1>1. PICK m : m = Notice(r, k)
  OBVIOUS
<1>2. m \in Messages /\ m.kind = "notice" /\ m.run = r /\ m.n = k
  BY <1>1, MessagesAre DEF Notice, MessageOf
<1>3. Known(m)'
  BY <1>2 DEF Known
<1>4. Sound(e.messages)'
  <2>1. PICK s : s = <<m>>
    OBVIOUS
  <2>2. Sound(s)'
    BY <1>2, <1>3, <2>1, OneSound
  <2> QED BY <1>1, <2>1, <2>2
<1>5. PairedSet(e.inputs)'
  BY DEF PairedSet
<1> QED BY <1>4, <1>5 DEF View

\* The compactions of the journal stay views.
LEMMA AppendingViews ==
  ASSUME Types, JournalInv, ViewsInv, [Next]_vars, Appending
  PROVE  \A r \in Runs : \A k \in Compacting(r)' : View(journal[r][k])'
<1>1. PICK es : Appends(es)
  BY EngineAppends
<1>2. PICK r \in Runs, n \in Nat, t \in Nat : r = run /\ n = Len(journal[run]) /\ t = TurnOf(run)
  BY <1>1, JournalAppended, EventsOfARun
<1>3. run' = run /\ Len(journal'[r]) = n + Len(es) /\ Len(es) \in Nat
  BY <1>1, <1>2, JournalAppended
<1>4. \A i \in 1 .. Len(es) : es[i].kind \in {"compressed", "snapshot"} => View(es[i])'
  <2>1. CASE BeginTurn \/ CallRuns \/ CompleteTurn \/ CloseFailedTurn
    <3>1. PICK e \in EventRows : Record(<<e>>) /\ e.kind \in {"started", "result", "completed"}
      <4>1. {"started", "result", "completed"} \subseteq EventKinds /\ t + 1 \in Nat
        BY DEF EventKinds
      <4>2. CASE BeginTurn
        <5>1. PICK e : e = Event("started", t + 1)
          OBVIOUS
        <5>2. Record(<<e>>)
          BY <1>2, <4>2, <5>1 DEF BeginTurn
        <5>3. e \in EventRows /\ e.kind = "started"
          BY <4>1, <5>1, EventIs
        <5> QED BY <5>2, <5>3
      <4>3. CASE CallRuns
        <5>1. PICK e : e = Event("result", t)
          OBVIOUS
        <5>2. Record(<<e>>)
          BY <1>2, <4>3, <5>1 DEF CallRuns
        <5>3. e \in EventRows /\ e.kind = "result"
          BY <4>1, <5>1, EventIs
        <5> QED BY <5>2, <5>3
      <4>4. CASE CompleteTurn \/ CloseFailedTurn
        <5>1. PICK what \in {"something", "nothing"} : Record(<<Completion(t, what)>>)
          BY <1>2, <4>4 DEF CompleteTurn, CloseFailedTurn, Completion
        <5>2. PICK e : e = Completion(t, what)
          OBVIOUS
        <5>3. e \in EventRows /\ e.kind = "completed"
          BY <5>2, CompletedIs
        <5> QED BY <5>1, <5>2, <5>3
      <4> QED BY <2>1, <4>2, <4>3, <4>4
    <3>2. PICK fs \in Seq(EventRows) : fs = <<e>>
      BY OneElement
    <3>3. es = fs
      BY <1>1, <3>1, <3>2, RecordsIs
    <3>4. \A i \in 1 .. Len(es) : es[i] = e
      BY <3>2, <3>3
    <3>5. \A i \in 1 .. Len(es) : es[i].kind \notin {"compressed", "snapshot"}
      BY <3>1, <3>4
    <3> QED BY <3>5
  <2>2. CASE CompactionBreaks
    <3>1. PICK e : e = Compressed(n + 1)
      OBVIOUS
    <3>2. Record(<<e>>)
      BY <1>2, <2>2, <3>1 DEF CompactionBreaks
    <3>3. e \in EventRows /\ e.messages = <<Notice(r, n + 1)>> /\ e.inputs = {}
      <4>1. n + 1 \in Nat
        OBVIOUS
      <4> QED BY <1>2, <3>1, <4>1, CompressedIs
    <3>4. PICK fs \in Seq(EventRows) : fs = <<e>>
      BY <3>3, OneElement
    <3>5. es = fs
      BY <1>1, <3>2, <3>4, RecordsIs
    <3>6. Len(es) = 1 /\ \A i \in 1 .. Len(es) : es[i] = e
      BY <3>4, <3>5
    <3>7. View(e)'
      <4>1. Len(journal'[r]) = n + 1 /\ n + 1 \in Nat
        BY <1>3, <3>6
      <4>2. PICK k \in Nat : k = n + 1
        BY <4>1
      <4> QED BY <3>3, <4>1, <4>2, NoticeView
    <3>8. \A i \in 1 .. Len(es) : i = 1 /\ es[1] = e
      BY <3>6
    <3> QED BY <3>6, <3>7, <3>8
  <2>3. CASE Compact
    <3>1. PICK fs \in Seq(EventRows) : fs = CompactionRows
      BY <2>3, SnapshotIs
    <3>2. /\ Record(fs) /\ Len(fs) = 2 /\ fs[1] = Compressed(n + 1)
          /\ fs[2].messages = ctx' /\ fs[2].inputs = ToSet(ctx) /\ fs[2].gone = replaced'
      BY <1>2, <2>3, <3>1, SnapshotIs DEF Record
    <3>3. es = fs
      BY <1>1, <3>1, <3>2, RecordsIs
    <3>4. PICK e, f : e = fs[1] /\ f = fs[2]
      OBVIOUS
    <3>5. View(e)'
      <4>1. Len(es) = 2
        BY <3>2, <3>3
      <4>2. PICK k \in Nat : k = n + 1
        OBVIOUS
      <4>3. k <= Len(journal'[r]) /\ Len(journal'[r]) \in Nat
        BY <1>3, <4>1, <4>2
      <4>4. e.messages = <<Notice(r, k)>> /\ e.inputs = {}
        BY <1>2, <3>2, <3>4, <4>2, CompressedIs
      <4> QED BY <4>3, <4>4, NoticeView
    <3>6. View(f)'
      <4>1. Sound(ctx)' /\ ToSet(ctx) \subseteq ToSet(ctx') \cup replaced'
        BY <2>3, CompactSound
      <4>2. PICK s, c : s \in Seq(Messages) /\ s = ctx /\ c = ctx'
        BY DEF Types
      <4>3. Sound(c)'
        BY <4>1, <4>2 DEF Sound, PairedSeq
      <4>4. Sound(s)'
        BY <4>2, SoundStays DEF ViewsInv
      <4>5. PairedSet(ToSet(s))' /\ \A m \in ToSet(s) : Known(m)'
        BY <4>2, <4>4, PairedElementsNext DEF Sound
      <4>6. /\ f.messages = c /\ f.inputs = ToSet(s)
            /\ f.inputs \subseteq ToSet(f.messages) \cup f.gone
        BY <3>2, <3>4, <4>1, <4>2
      <4>7. Sound(f.messages)' /\ PairedSet(f.inputs)'
        BY <4>3, <4>5, <4>6
      <4> QED BY <4>5, <4>6, <4>7 DEF View
    <3>7. \A i \in 1 .. Len(es) : es[i] = e \/ es[i] = f
      <4>1. Len(es) = 2 /\ es[1] = e /\ es[2] = f
        BY <3>2, <3>3, <3>4
      <4>2. \A i \in 1 .. Len(es) : i = 1 \/ i = 2
        BY <4>1
      <4> QED BY <4>1, <4>2
    <3> QED BY <3>5, <3>6, <3>7
  <2> QED BY <2>1, <2>2, <2>3 DEF Appending
<1> QED BY <1>1, <1>4, JournalViews

\* And those the backfill stores are those of the journal.
LEMMA SnapshotViews ==
  ASSUME Types, JournalInv, ViewsInv, [Next]_vars
  PROVE  \A s \in snapshots' : View(s)'
<1>1. \A s \in snapshots : View(s)'
  BY ViewStays DEF ViewsInv
<1>2. CASE Storing /\ snapshots' # snapshots
  <2>1. PICK r \in Runs : \E k \in Compacting(r) : snapshots' = snapshots \cup {SnapshotRow(r, k)}
    BY <1>2, StoredSnapshots
  <2>2. PICK k \in Compacting(r) : snapshots' = snapshots \cup {SnapshotRow(r, k)}
    BY <2>1
  <2>3. ASSUME NEW s, s = SnapshotRow(r, k)  PROVE View(s)'
    <3>1. PICK v : v = journal[r][k]
      OBVIOUS
    <3>2. View(v)'
      BY <3>1, ViewStays DEF ViewsInv
    <3>3. s.messages = v.messages /\ s.inputs = v.inputs /\ s.gone = v.gone
      BY <2>3, <3>1 DEF SnapshotRow
    <3> QED BY <3>2, <3>3 DEF View
  <2> QED BY <1>1, <2>2, <2>3
<1>3. CASE ~Storing
  <2>1. snapshots' = snapshots
    <3>1. CASE Appending
      BY <3>1, EngineAppends
    <3>2. CASE ~Appending
      BY <1>3, <3>2
         DEF Next, Engine, Appending, StartRun, StartFails, TakeInput, EngineKeeps, RunReturns,
             Projector, PassTurn, QuarantineTurn, ProjectTurn, ProjectorKeeps, ProjectionFails,
             RunEnds, Startup, Backfill, BackfillRun, BackfillEnds, RecoverRun, RecoveryEnds,
             Storing, storeVars, vars
    <3> QED BY <3>1, <3>2
  <2> QED BY <1>1, <2>1
<1> QED BY <1>1, <1>2, <1>3

\* Every step keeps what is read back in order.
LEMMA ViewsInvKept ==
  ASSUME Types, JournalInv, RowsInv, ViewsInv, [Next]_vars
  PROVE  ViewsInv'
<1>1. Sound(ctx)' /\ Sound(rows)' /\ \A s \in snapshots' : View(s)'
  BY RowsSound, ContextSound, SnapshotViews
<1>2. \A r \in Runs : \A k \in Compacting(r)' : View(journal[r][k])'
  <2>1. CASE Appending
    BY <2>1, AppendingViews
  <2>2. CASE ~Appending
    <3> SUFFICES ASSUME NEW r \in Runs, NEW k \in Compacting(r)'  PROVE View(journal[r][k])'
      OBVIOUS
    <3>1. UNCHANGED journal
      BY <2>2, OthersKeepJournal
    <3>2. k \in Compacting(r)
      BY <3>1, FrozenJournal DEF Compacting
    <3>3. PICK v : v = journal[r][k]
      OBVIOUS
    <3>4. View(v)'
      BY <3>2, <3>3, ViewStays DEF ViewsInv
    <3> QED BY <3>1, <3>3, <3>4 DEF View, Sound, PairedSeq, PairedSet
  <2> QED BY <2>1, <2>2
<1> QED BY <1>1, <1>2 DEF ViewsInv

--------------------------------------------------------------------------------
(* What a run knows as long as nothing failed. *)

\* No write failed, and nothing is damaged.
Clean == faults = MaxFaults /\ bad = {}

\* The context has what was said before the run, or a summary there stands for it.
Told ==
  /\ \A r \in 1 .. run - 1, t \in Nat :
       Projectable(r, t) => ToSet(TurnMessages(r, t)) \subseteq ToSet(ctx) \cup replaced
  /\ \A m \in ToSet(rows) : m.kind \in {"prompt", "queued"} => m \in ToSet(ctx) \cup replaced

\* Every turn of the runs that are over has its rows.
AllProjected ==
  \A r \in Runs, t \in Nat :
    Projectable(r, t) => <<r, t>> \in turnRows \/ (r = run /\ phase # "idle")

\* As long as nothing failed, nothing is missing.
CompleteInv ==
  Clean => /\ quarantined = {}
           /\ phase \in {"idle", "running", "projecting"} => AllProjected
           /\ phase = "projecting" => job.run = run /\ run \in Runs
           /\ phase = "running" => Told

\* What failed or was damaged stays so.
LEMMA CleanBefore ==
  ASSUME Types, [Next]_vars, Clean'
  PROVE  Clean /\ ~StartFails /\ ~QuarantineTurn /\ ~ProjectionFails /\ ~BackfillFails
<1>1. faults \in 0 .. MaxFaults
  BY DEF Types
<1>2. MaxFaults \in Nat /\ faults' = MaxFaults /\ bad' = {}
  BY TranscriptAssumption DEF Clean
<1>3. faults' = faults \/ (faults > 0 /\ faults' = faults - 1)
  <2>1. CASE Appending
    BY <2>1, EngineAppends DEF boundVars
  <2>2. CASE ~Appending
    BY <2>2
       DEF Next, Appending, StartRun, StartFails, Engine, TakeInput, EngineKeeps, RunReturns,
           Projector, PassTurn, QuarantineTurn, ProjectTurn, ProjectionFails, RunEnds, Crash,
           Startup, Backfill, BackfillRun, BackfillCompaction, BackfillRefused, BackfillFails,
           BackfillStops, BackfillEnds, RecoverRun, RecoveryEnds, ProjectorKeeps, boundVars, vars
  <2> QED BY <2>1, <2>2
<1>4. faults = MaxFaults /\ faults' = faults
  BY <1>1, <1>2, <1>3
<1>5. bad \subseteq bad'
  <2>1. CASE Appending
    BY <2>1, EngineAppends DEF boundVars
  <2>2. CASE ~Appending
    BY <2>2
       DEF Next, Appending, StartRun, StartFails, Engine, TakeInput, EngineKeeps, RunReturns,
           Projector, PassTurn, QuarantineTurn, ProjectTurn, ProjectionFails, RunEnds, Crash,
           Startup, Backfill, BackfillRun, BackfillCompaction, BackfillRefused, BackfillFails,
           BackfillStops, BackfillEnds, RecoverRun, RecoveryEnds, ProjectorKeeps, StartupKeeps,
           boundVars, vars
  <2> QED BY <2>1, <2>2
<1>6. bad = {}
  BY <1>2, <1>5
<1>7. ~ProjectionFails /\ ~BackfillFails
  BY <1>1, <1>2, <1>4 DEF ProjectionFails, BackfillFails
<1>8. ~StartFails /\ ~QuarantineTurn
  BY <1>6 DEF StartFails, Readable, QuarantineTurn, Unusable
<1> QED BY <1>4, <1>6, <1>7, <1>8 DEF Clean

\* A job that is done has handled its run.
LEMMA JobDone ==
  ASSUME Types, JournalInv, JobInv, phase \in {"projecting", "recovering"}, job.turns = <<>>,
         job.run \in Runs, NEW t \in Nat, Projectable(job.run, t)
  PROVE  Handled(job.run, t)
<1>1. PICK r \in Runs : r = job.run
  OBVIOUS
<1>2. /\ Done \in Nat
      /\ \A u \in 1 .. Done : Projectable(job.run, u) => Handled(job.run, u)
  BY DEF JobInv
<1>3. Done = TurnOf(r)
  <2>1. Len(job.turns) = 0 /\ TurnOf(r) \in Nat
    BY EventsOfARun
  <2> QED BY <1>1, <2>1 DEF Done
<1>4. t \in 1 .. TurnOf(r)
  BY <1>1, LastSequenceIs DEF Projectable
<1> QED BY <1>2, <1>3, <1>4

\* A recovery that has gone through every run has handled all of them.
LEMMA RecoveredAll ==
  ASSUME Types, JournalInv, ProjectionInv, phase = "recovering", job.turns = <<>>, pending = {},
         NEW r \in Runs, NEW t \in Nat, Projectable(r, t)
  PROVE  Handled(r, t) \/ <<r, 0>> \in quarantined
<1>1. CASE r = job.run
  BY <1>1, JobDone DEF ProjectionInv
<1>2. CASE r # job.run
  BY <1>2 DEF ProjectionInv, RecoveryInv
<1> QED BY <1>1, <1>2

\* While a run goes on it forgets nothing.
LEMMA ContextGrows ==
  ASSUME Types, JournalInv, ViewsInv, [Next]_vars, phase = "running", phase' = "running"
  PROVE  ToSet(ctx) \cup replaced \subseteq ToSet(ctx') \cup replaced'
<1>1. CASE Compact
  <2>1. ToSet(ctx) \subseteq ToSet(ctx') \cup replaced'
    BY <1>1, CompactSound
  <2>2. replaced \subseteq replaced'
    BY <1>1 DEF Compact
  <2> QED BY <2>1, <2>2
<1>2. CASE CompleteTurn \/ TakeInput
  <2>1. PICK new \in Seq(Messages) : ctx' = ctx \o new
    BY <1>2, CompletedSound, TakenSound
  <2>2. ctx \in Seq(Messages) /\ UNCHANGED replaced
    BY <1>2 DEF Types, CompleteTurn, TakeInput
  <2>3. ToSet(ctx') = ToSet(ctx) \cup ToSet(new)
    BY <2>1, <2>2, ToSetConcat
  <2> QED BY <2>2, <2>3
<1>3. CASE ~Compact /\ ~CompleteTurn /\ ~TakeInput
  <2>1. ctx' = ctx /\ replaced' = replaced
    BY <1>3
       DEF Next, StartRun, StartFails, Engine, BeginTurn, CallRuns, RunReturns, CloseFailedTurn,
           CompactionBreaks, MayCompact, Projector, Projecting, Project, PassTurn, QuarantineTurn,
           ProjectTurn, ProjectionFails, RunEnds, Crash, Startup, Backfill, BackfillRun,
           BackfillCompaction, BackfillRefused, BackfillFails, BackfillStops, BackfillEnds,
           RecoverRun, RecoveryEnds, vars
  <2> QED BY <2>1
<1> QED BY <1>1, <1>2, <1>3

\* What a turn that is committed already has said.
LEMMA CommittedBefore ==
  ASSUME Types, JournalInv, [Next]_vars, NEW r \in Runs, NEW t \in Nat, Projectable(r, t)'
  PROVE  \/ Projectable(r, t) /\ TurnMessages(r, t)' = TurnMessages(r, t)
         \/ Appending /\ r = run
<1>1. CASE Appending
  <2>1. PICK es : Appends(es)
    BY <1>1, EngineAppends
  <2>2. Committed(r, t)'
    BY DEF Projectable
  <2>3. CASE Committed(r, t)
    BY <2>1, <2>3, CommittedStays
  <2>4. CASE ~Committed(r, t)
    BY <1>1, <2>1, <2>2, <2>4, CommittedIsNew
  <2> QED BY <2>3, <2>4
<1>2. CASE ~Appending
  BY <1>2, OthersKeepJournal, FrozenJournal
<1> QED BY <1>1, <1>2

\* Nothing is quarantined as long as nothing is damaged.
LEMMA NothingQuarantined ==
  ASSUME Types, CompleteInv, [Next]_vars, Clean'
  PROVE  quarantined' = {}
<1>1. Clean /\ ~QuarantineTurn /\ quarantined = {} /\ bad = {}
  BY CleanBefore DEF CompleteInv, Clean
<1>2. quarantined' = quarantined
  <2>1. CASE Appending
    BY <2>1, EngineAppends
  <2>2. CASE RecoverRun
    BY <1>1, <2>2 DEF RecoverRun
  <2>3. CASE ~Appending /\ ~RecoverRun
    BY <1>1, <2>3
       DEF Next, Appending, StartRun, StartFails, Engine, TakeInput, EngineKeeps, RunReturns,
           Projector, PassTurn, ProjectTurn, ProjectionFails, RunEnds, Crash, Startup,
           Backfill, BackfillRun, BackfillCompaction, BackfillRefused, BackfillFails, BackfillStops,
           BackfillEnds, RecoveryEnds, storeVars, vars
  <2> QED BY <2>1, <2>2, <2>3
<1> QED BY <1>1, <1>2

\* Turn rows stay, and the runs are projected one at a time.
LEMMA AllProjectedKept ==
  ASSUME Types, JournalInv, ProjectionInv, CompleteInv, [Next]_vars, Clean',
         phase' \in {"idle", "running", "projecting"}
  PROVE  AllProjected'
<1>1. Clean /\ ~StartFails /\ ~ProjectionFails /\ quarantined = {}
  BY CleanBefore DEF CompleteInv
<1>2. turnRows \subseteq turnRows'
  <2>1. CASE Appending
    BY <2>1, EngineAppends
  <2>2. CASE ~Appending
    BY <2>2
       DEF Next, Appending, StartRun, StartFails, Engine, TakeInput, EngineKeeps, RunReturns,
           Projector, PassTurn, QuarantineTurn, ProjectTurn, ProjectionFails, RunEnds, Crash,
           Startup, Backfill, BackfillRun, BackfillCompaction, BackfillRefused, BackfillFails,
           BackfillStops, BackfillEnds, RecoverRun, RecoveryEnds, StartupKeeps, storeVars, vars
  <2> QED BY <2>1, <2>2
<1>3. CASE Appending
  <2>1. phase = "running" /\ run' = run /\ phase' # "idle"
    <3>1. PICK es : Appends(es)
      BY <1>3, EngineAppends
    <3> QED BY <1>3, <3>1, EngineAppends DEF Appends, Project
  <2>2. AllProjected
    BY <1>1, <2>1 DEF CompleteInv
  <2> SUFFICES ASSUME NEW r \in Runs, NEW t \in Nat, Projectable(r, t)', r # run
               PROVE  <<r, t>> \in turnRows'
    BY <2>1 DEF AllProjected
  <2>3. Projectable(r, t)
    BY CommittedBefore
  <2> QED BY <1>2, <2>2, <2>3 DEF AllProjected
<1>4. CASE ~Appending
  <2>1. UNCHANGED journal
    BY <1>4, OthersKeepJournal
  <2>2. \A r, t : Projectable(r, t)' = Projectable(r, t)
    BY <2>1, FrozenJournal
  <2>3. CASE StartRun \/ TakeInput \/ RunReturns \/ PassTurn \/ ProjectTurn \/ UNCHANGED vars
    <3>1. /\ phase \in {"idle", "running", "projecting"}
          /\ \/ phase = "idle"
             \/ run' = run /\ phase # "idle" /\ phase' # "idle"
      BY <2>3 DEF StartRun, TakeInput, RunReturns, Project, PassTurn, ProjectTurn, Projecting,
                  EngineKeeps, ProjectorKeeps, vars, Types, Phases
    <3>2. AllProjected
      BY <1>1, <3>1 DEF CompleteInv
    <3> QED BY <1>2, <2>2, <3>1, <3>2 DEF AllProjected
  <2>4. CASE RunEnds
    <3>1. /\ phase = "projecting" /\ job.turns = <<>> /\ job.run = run /\ run \in Runs
          /\ AllProjected
      BY <1>1, <2>4 DEF RunEnds, CompleteInv
    <3>2. \A t \in Nat : Projectable(run, t) => <<run, t>> \in turnRows
      BY <1>1, <3>1, JobDone DEF ProjectionInv, Handled
    <3>3. \A r \in Runs, t \in Nat : Projectable(r, t) => <<r, t>> \in turnRows
      BY <3>1, <3>2 DEF AllProjected
    <3> QED BY <1>2, <2>2, <3>3 DEF AllProjected
  <2>5. CASE RecoveryEnds
    <3>1. phase = "recovering" /\ job.turns = <<>> /\ pending = {}
      BY <2>5 DEF RecoveryEnds
    <3>2. \A r \in Runs, t \in Nat : Projectable(r, t) => <<r, t>> \in turnRows
      BY <1>1, <3>1, RecoveredAll DEF Handled
    <3> QED BY <1>2, <2>2, <3>2 DEF AllProjected
  <2>6. CASE QuarantineTurn \/ Crash \/ Backfill \/ RecoverRun
    BY <1>1, <2>6, CleanBefore
       DEF Crash, Backfill, BackfillRun, BackfillCompaction, BackfillRefused, BackfillFails,
           BackfillStops, BackfillEnds, RecoverRun
  <2> QED BY <1>1, <1>4, <2>3, <2>4, <2>5, <2>6
          DEF Next, Engine, Appending, Projector, Startup
<1> QED BY <1>3, <1>4

\* What is projected is what was started last.
LEMMA ProjectingTheLast ==
  ASSUME Types, CompleteInv, [Next]_vars, Clean', phase' = "projecting"
  PROVE  job'.run = run' /\ run' \in Runs
<1>1. Clean
  BY CleanBefore
<1>2. CASE phase = "running"
  <2>1. run \in Runs /\ run' = run
    <3>1. CASE Appending
      BY <1>2, <3>1, EngineAppends DEF Types
    <3>2. CASE ~Appending
      BY <1>2, <3>2
         DEF Types, Next, Appending, StartRun, StartFails, Engine, TakeInput, EngineKeeps,
             RunReturns, Projector, Projecting, PassTurn, QuarantineTurn, ProjectTurn,
             ProjectionFails, RunEnds, Crash, Startup, Backfill, BackfillRun, BackfillCompaction,
             BackfillRefused, BackfillFails, BackfillStops, BackfillEnds, RecoverRun, RecoveryEnds,
             vars
    <3> QED BY <3>1, <3>2
  <2>2. Project(run)
    <3>1. CASE Appending
      BY <1>2, <3>1, EngineAppends
    <3>2. CASE ~Appending
      BY <1>2, <3>2
         DEF Next, Appending, StartRun, StartFails, Engine, TakeInput, EngineKeeps,
             RunReturns, Projector, Projecting, PassTurn, QuarantineTurn, ProjectTurn,
             ProjectionFails, RunEnds, Crash, Startup, Backfill, BackfillRun, BackfillCompaction,
             BackfillRefused, BackfillFails, BackfillStops, BackfillEnds, RecoverRun, RecoveryEnds,
             vars
    <3> QED BY <3>1, <3>2
  <2> QED BY <2>1, <2>2 DEF Project
<1>3. CASE phase # "running"
  <2>1. ~Appending
    BY <1>3 DEF Appending, BeginTurn, CallRuns, CompleteTurn, Compact, MayCompact,
                CloseFailedTurn, CompactionBreaks
  <2>2. phase = "projecting" /\ run' = run /\ job'.run = job.run
    <3>1. CASE PassTurn \/ QuarantineTurn \/ ProjectTurn
      BY <3>1 DEF PassTurn, QuarantineTurn, ProjectTurn, ProjectorKeeps, NextTurn, Types
    <3>2. CASE ~(PassTurn \/ QuarantineTurn \/ ProjectTurn)
      BY <1>3, <2>1, <3>2
         DEF Next, Appending, StartRun, StartFails, Engine, TakeInput, EngineKeeps,
             RunReturns, Projector, ProjectionFails, RunEnds, Crash, Startup, Backfill, BackfillRun,
             BackfillCompaction, BackfillRefused, BackfillFails, BackfillStops, BackfillEnds,
             RecoverRun, RecoveryEnds, vars
    <3> QED BY <3>1, <3>2
  <2> QED BY <1>1, <2>2 DEF CompleteInv
<1> QED BY <1>2, <1>3

\* A run that starts is told everything, and forgets nothing of it.
LEMMA ToldKept ==
  ASSUME Types, JournalInv, RowsInv, ViewsInv, CompleteInv, [Next]_vars, Clean',
         phase' = "running"
  PROVE  Told'
<1>1. Clean /\ ~StartFails /\ MaxRuns \in Nat
  BY CleanBefore, TranscriptAssumption
<1>2. CASE StartRun
  <2>1. /\ phase = "idle" /\ run' = run + 1 /\ run' \in Runs /\ UNCHANGED <<journal, turnRows>>
        /\ AllProjected
    BY <1>1, <1>2, RunsAre DEF StartRun, Types, CompleteInv
  <2>2. ToSet(rows') \subseteq ToSet(ctx') \cup replaced' /\ ToSet(rows) \subseteq ToSet(rows')
    BY <1>2, StartSound, RowsGrow
  <2>3. ASSUME NEW r \in 1 .. run' - 1, NEW t \in Nat, Projectable(r, t)'
        PROVE  ToSet(TurnMessages(r, t))' \subseteq ToSet(ctx') \cup replaced'
    <3>1. r \in Runs /\ Projectable(r, t) /\ TurnMessages(r, t)' = TurnMessages(r, t)
      BY <1>1, <2>1, <2>3, FrozenJournal DEF Runs
    <3>2. <<r, t>> \in turnRows
      BY <2>1, <3>1 DEF AllProjected
    <3>3. ToSet(TurnMessages(r, t)) \subseteq ToSet(rows)
      <4>1. PICK p \in turnRows : p = <<r, t>>
        BY <3>2
      <4>2. p[1] = r /\ p[2] = t
        BY <4>1
      <4> QED BY <4>1, <4>2 DEF RowsInv
    <3> QED BY <2>2, <3>1, <3>3
  <2> QED BY <2>2, <2>3 DEF Told
<1>3. CASE ~StartRun
  <2>1. phase = "running" /\ run' = run /\ run \in Runs
    <3>1. CASE Appending
      BY <3>1, EngineAppends DEF Types, Appending, BeginTurn, CallRuns, CompleteTurn, Compact,
                                 MayCompact, CloseFailedTurn, CompactionBreaks
    <3>2. CASE PassTurn \/ QuarantineTurn \/ ProjectTurn
      BY <3>2 DEF PassTurn, QuarantineTurn, ProjectTurn, ProjectorKeeps, Projecting
    <3>3. CASE ~Appending /\ ~(PassTurn \/ QuarantineTurn \/ ProjectTurn)
      BY <1>1, <1>3, <3>3
         DEF Types, Next, Appending, Engine, TakeInput, EngineKeeps, RunReturns, Project,
             Projector, ProjectionFails, RunEnds, Crash, Startup, Backfill, BackfillRun,
             BackfillCompaction, BackfillRefused, BackfillFails, BackfillStops, BackfillEnds,
             RecoverRun, RecoveryEnds, vars
    <3> QED BY <3>1, <3>2, <3>3
  <2>2. Told /\ ToSet(ctx) \cup replaced \subseteq ToSet(ctx') \cup replaced'
    BY <1>1, <2>1, ContextGrows DEF CompleteInv
  <2>3. ASSUME NEW r \in 1 .. run' - 1, NEW t \in Nat, Projectable(r, t)'
        PROVE  ToSet(TurnMessages(r, t))' \subseteq ToSet(ctx') \cup replaced'
    <3>1. r \in Runs /\ r # run
      BY <1>1, <2>1 DEF Runs
    <3>2. Projectable(r, t) /\ TurnMessages(r, t)' = TurnMessages(r, t)
      BY <2>3, <3>1, CommittedBefore
    <3> QED BY <2>1, <2>2, <3>2 DEF Told
  <2>4. ASSUME NEW m \in ToSet(rows'), m.kind \in {"prompt", "queued"}
        PROVE  m \in ToSet(ctx') \cup replaced'
    <3>1. CASE m \in ToSet(rows)
      BY <2>2, <2>4, <3>1 DEF Told
    <3>2. CASE m \notin ToSet(rows)
      <4>1. TakeInput
        <5>1. rows' # rows
          BY <3>2
        <5>2. ~Appending
          BY <5>1, EngineAppends
        <5> QED BY <1>3, <2>1, <5>1, <5>2
                DEF Next, Appending, StartFails, Engine, RunReturns, Projector, Projecting,
                    PassTurn, QuarantineTurn, ProjectTurn, ProjectionFails, RunEnds, Crash,
                    Startup, Backfill, BackfillRun, BackfillCompaction, BackfillRefused,
                    BackfillFails, BackfillStops, BackfillEnds, RecoverRun, RecoveryEnds, storeVars,
                    vars
      <4>2. PICK new \in Seq(Messages) : ctx' = ctx \o new /\ rows' = rows \o new
        BY <4>1, TakenSound
      <4>3. ToSet(ctx') = ToSet(ctx) \cup ToSet(new) /\ ToSet(rows') = ToSet(rows) \cup ToSet(new)
        BY <4>2, ToSetConcat DEF Types
      <4> QED BY <2>4, <3>2, <4>3
    <3> QED BY <3>1, <3>2
  <2> QED BY <2>3, <2>4 DEF Told
<1> QED BY <1>2, <1>3

\* Every step keeps what a run knows.
LEMMA CompleteInvKept ==
  ASSUME Types, JournalInv, ProjectionInv, RowsInv, ViewsInv, CompleteInv, [Next]_vars
  PROVE  CompleteInv'
BY NothingQuarantined, AllProjectedKept, ProjectingTheLast, ToldKept DEF CompleteInv

--------------------------------------------------------------------------------
(* The bounds of what is counted. *)

\* Turns, runs and crashes stay within their bounds.
Bounds ==
  /\ turnRows \subseteq Runs \X (1 .. MaxTurns)
  /\ quarantined \subseteq Runs \X (0 .. MaxTurns)
  /\ job.run \in 0 .. MaxRuns
  /\ crashes \in 0 .. MaxCrashes

\* Every step keeps them.
LEMMA BoundsKept ==
  ASSUME Types, Bounds, [Next]_vars
  PROVE  Bounds'
<1>0. {MaxRuns, MaxTurns, MaxCrashes} \subseteq Nat /\ Runs = 1 .. MaxRuns
  BY TranscriptAssumption DEF Runs
<1>1. turnRows' \subseteq Runs \X (1 .. MaxTurns)
  <2>1. CASE Appending
    BY <2>1, EngineAppends DEF Bounds
  <2>2. CASE ProjectTurn
    <3>1. PICK r \in Runs, t \in 1 .. MaxTurns : turnRows' = turnRows \cup {<<r, t>>}
      BY <2>2 DEF ProjectTurn
    <3> QED BY <3>1 DEF Bounds
  <2>3. CASE ~Appending /\ ~ProjectTurn
    BY <2>3
       DEF Bounds, Next, Appending, StartRun, StartFails, Engine, TakeInput, EngineKeeps,
           RunReturns, Projector, PassTurn, QuarantineTurn, ProjectionFails, RunEnds, Crash,
           Startup, Backfill, BackfillRun, BackfillCompaction, BackfillRefused, BackfillFails,
           BackfillStops, BackfillEnds, RecoverRun, RecoveryEnds, StartupKeeps, storeVars, vars
  <2> QED BY <2>1, <2>2, <2>3
<1>2. quarantined' \subseteq Runs \X (0 .. MaxTurns)
  <2>1. CASE Appending
    BY <2>1, EngineAppends DEF Bounds
  <2>2. CASE RecoverRun
    <3>1. PICK r \in Runs : quarantined' \subseteq quarantined \cup {<<r, 0>>}
      BY <2>2 DEF RecoverRun, Types, Quarantine
    <3> QED BY <1>0, <3>1 DEF Bounds
  <2>3. CASE QuarantineTurn
    <3>1. PICK r \in Runs, t \in 1 .. MaxTurns : quarantined' = quarantined \cup {<<r, t>>}
      BY <2>3 DEF QuarantineTurn, Quarantine
    <3>2. t \in 0 .. MaxTurns
      BY <1>0
    <3> QED BY <3>1, <3>2 DEF Bounds
  <2>4. CASE ~Appending /\ ~RecoverRun /\ ~QuarantineTurn
    BY <2>4
       DEF Bounds, Next, Appending, StartRun, StartFails, Engine, TakeInput, EngineKeeps,
           RunReturns, Projector, PassTurn, ProjectTurn, ProjectionFails, RunEnds, Crash, Startup,
           Backfill, BackfillRun, BackfillCompaction, BackfillRefused, BackfillFails, BackfillStops,
           BackfillEnds, RecoveryEnds, storeVars, vars
  <2> QED BY <2>1, <2>2, <2>3, <2>4
<1>3. job'.run \in 0 .. MaxRuns
  <2>1. CASE Project(run)
    BY <2>1 DEF Project, Types
  <2>2. CASE RecoverRun
    <3>1. PICK r \in Runs : job' = [run |-> r, turns |-> TurnsOf(r)] \/ job' = NoJob
      BY <2>2 DEF RecoverRun, Types
    <3> QED BY <1>0, <3>1 DEF NoJob
  <2>3. CASE NextTurn
    BY <2>3 DEF NextTurn, Bounds, Types
  <2>4. CASE job' = NoJob \/ job' = job
    BY <1>0, <2>4 DEF NoJob, Bounds
  <2>5. CASE ~Appending
    BY <2>1, <2>2, <2>3, <2>4, <2>5
       DEF Next, Appending, StartRun, StartFails, Engine, TakeInput, EngineKeeps, RunReturns,
           Projector, PassTurn, QuarantineTurn, ProjectTurn, ProjectionFails, RunEnds, Crash,
           Startup, Backfill, BackfillRun, BackfillCompaction, BackfillRefused, BackfillFails,
           BackfillStops, BackfillEnds, RecoveryEnds, vars
  <2>6. CASE Appending
    BY <2>1, <2>4, <2>6, EngineAppends
  <2> QED BY <2>5, <2>6
<1>4. crashes' \in 0 .. MaxCrashes
  <2>1. crashes' = crashes \/ (crashes > 0 /\ crashes' = crashes - 1)
    <3>1. CASE Appending
      BY <3>1, EngineAppends DEF boundVars
    <3>2. CASE ~Appending
      BY <3>2
         DEF Next, Appending, StartRun, StartFails, Engine, TakeInput, EngineKeeps, RunReturns,
             Projector, PassTurn, QuarantineTurn, ProjectTurn, ProjectionFails, ProjectorKeeps,
             RunEnds, Crash, Startup, Backfill, BackfillRun, BackfillCompaction, BackfillRefused,
             BackfillFails, BackfillStops, BackfillEnds, RecoverRun, RecoveryEnds, StartupKeeps,
             boundVars, vars
    <3> QED BY <3>1, <3>2
  <2> QED BY <1>0, <2>1 DEF Bounds
<1> QED BY <1>1, <1>2, <1>3, <1>4 DEF Bounds

--------------------------------------------------------------------------------
(* The invariant. *)

\* All of it.
TranscriptInv ==
  /\ Types /\ JournalInv /\ ProjectionInv
  /\ RowsInv /\ ViewsInv /\ CompleteInv
  /\ Bounds

\* It holds of a conversation without runs.
LEMMA InitInv == Init => TranscriptInv
<1> SUFFICES ASSUME Init  PROVE TranscriptInv
  OBVIOUS
<1>0. /\ {MaxRuns, MaxTurns, MaxCrashes, MaxFaults} \subseteq Nat /\ Runs = 1 .. MaxRuns
      /\ 0 \notin Runs
  BY TranscriptAssumption DEF Runs
<1>1. /\ phase = "idle" /\ run = 0 /\ turnRows = {} /\ quarantined = {} /\ snapshots = {}
      /\ job.run = 0 /\ job.turns = <<>> /\ pending = {} /\ todo = {} /\ replaced = {}
  BY DEF Init, NoJob
<1>2. PICK e : e = <<>>
  OBVIOUS
<1>3. /\ e \in Seq(Messages) /\ e \in Seq(EventRows) /\ e \in Seq(Nat) /\ Len(e) = 0
      /\ DOMAIN e = {} /\ ToSet(e) = {} /\ IsInjective(e)
  BY <1>2 DEF ToSet, IsInjective
<1>4. ctx = e /\ rows = e /\ \A r \in Runs : journal[r] = e /\ watermark[r] = 0
  BY <1>2 DEF Init
<1>5. \A r \in Runs : \A kind : Events(r, kind) = {}
  BY <1>3, <1>4 DEF Events
<1>6. \A r \in Runs : \A t : ~Projectable(r, t)
  BY <1>5 DEF Projectable, Committed, Has
<1>7. Types
  <2>1. journal \in [Runs -> Seq(EventRows)]
    BY <1>2, <1>3 DEF Init
  <2>2. watermark \in [Runs -> Nat]
    BY DEF Init
  <2>3. job \in [run : Nat, turns : Seq(Nat)]
    BY <1>3, NoJobIs DEF Init
  <2>4. faults \in 0 .. MaxFaults
    BY <1>0 DEF Init
  <2>5. \A r \in Runs : watermark[r] <= Len(journal[r])
    BY <1>3, <1>4
  <2> QED BY <1>0, <1>1, <1>3, <1>4, <2>1, <2>2, <2>3, <2>4, <2>5 DEF Types, Phases
<1>8. JournalInv
  BY <1>3, <1>4, <1>5 DEF JournalInv
<1>9. ProjectionInv
  BY <1>0, <1>1, <1>6 DEF ProjectionInv, JobInv, WatermarkInv, RecoveryInv
<1>10. RowsInv
  BY <1>1, <1>3, <1>4 DEF RowsInv
<1>11. ViewsInv
  BY <1>1, <1>3, <1>4, <1>5 DEF ViewsInv, Sound, PairedSeq, Compacting
<1>12. CompleteInv
  BY <1>1, <1>6 DEF CompleteInv, AllProjected
<1>13. Bounds
  BY <1>0, <1>1 DEF Bounds, Init
<1> QED BY <1>7, <1>8, <1>9, <1>10, <1>11, <1>12, <1>13 DEF TranscriptInv

\* The invariant of a conversation: what is journalled, projected, stored and read back.
THEOREM InvariantOfTheTranscript == Spec => []TranscriptInv
<1>1. TranscriptInv /\ [Next]_vars => TranscriptInv'
  BY TypesKept, JournalInvKept, ProjectionInvKept, RowsInvKept, ViewsInvKept, CompleteInvKept,
     BoundsKept
     DEF TranscriptInv
<1> QED BY InitInv, <1>1, PTL DEF Spec

\* TypeOK: every variable keeps its type.
THEOREM TranscriptTypes == Spec => []TypeOK
<1>1. TranscriptInv => TypeOK
  <2> SUFFICES ASSUME TranscriptInv  PROVE TypeOK
    OBVIOUS
  <2>1. ASSUME NEW r \in Runs  PROVE watermark[r] \in 0 .. Len(journal[r])
    BY EventsOfARun DEF TranscriptInv, Types
  <2> QED BY <2>1 DEF TranscriptInv, Types, Bounds, TypeOK
<1> QED BY InvariantOfTheTranscript, <1>1, PTL

\* WatermarkCovers: recovery asks the watermark alone, and overlooks no turn for it.
THEOREM NoTurnIsOverlooked == Spec => []WatermarkCovers
<1>1. TranscriptInv => WatermarkCovers
  <2>1. 1 .. MaxTurns \subseteq Nat
    BY TranscriptAssumption
  <2> QED BY <2>1
          DEF TranscriptInv, ProjectionInv, WatermarkInv, WatermarkCovers, Handled
<1> QED BY InvariantOfTheTranscript, <1>1, PTL

\* TurnsAreWhole: the rows of a turn are there together, once, or not at all.
THEOREM RowsComeInTurns == Spec => []TurnsAreWhole
<1>1. TranscriptInv => TurnsAreWhole
  <2> SUFFICES ASSUME TranscriptInv, NEW r \in Runs, NEW t \in 1 .. MaxTurns
               PROVE  ToSet(TurnMessages(r, t)) \cap ToSet(rows)
                        = IF <<r, t>> \in turnRows THEN ToSet(TurnMessages(r, t)) ELSE {}
    BY DEF TurnsAreWhole, TranscriptInv, RowsInv
  <2>1. RowsInv /\ t \in Nat
    BY TranscriptAssumption DEF TranscriptInv
  <2>2. CASE <<r, t>> \in turnRows
    <3>1. PICK p \in turnRows : p = <<r, t>>
      BY <2>2
    <3>2. p[1] = r /\ p[2] = t
      BY <3>1
    <3>3. ToSet(TurnMessages(r, t)) \subseteq ToSet(rows)
      BY <2>1, <3>1, <3>2 DEF RowsInv
    <3> QED BY <2>2, <3>3
  <2>3. CASE <<r, t>> \notin turnRows
    <3>1. \A m \in ToSet(TurnMessages(r, t)) : /\ m.kind \in {"reply", "result"}
                                               /\ m.run = r /\ m.n = t
      BY <2>1, TurnMessagesAre DEF Reply, Result, MessageOf
    <3>2. \A m \in ToSet(rows) : m.kind \in {"reply", "result"} => <<m.run, m.n>> \in turnRows
      BY <2>1 DEF RowsInv, RowOfTurn
    <3> QED BY <2>3, <3>1, <3>2
  <2> QED BY <2>2, <2>3
<1> QED BY InvariantOfTheTranscript, <1>1, PTL

\* RecoveryHandlesAll: a recovery in which no write failed leaves no committed turn behind.
THEOREM RecoveryLeavesNothing == Spec => RecoveryHandlesAll
<1>1. TranscriptInv /\ [Next]_vars
        => (phase = "recovering" /\ phase' = "idle" /\ faults' = faults
              => \A r \in Runs, t \in 1 .. MaxTurns :
                   Projectable(r, t)
                     => {<<r, t>>, <<r, 0>>} \cap (turnRows' \cup quarantined') # {})
  <2> SUFFICES ASSUME TranscriptInv, [Next]_vars, phase = "recovering", phase' = "idle",
                      faults' = faults, NEW r \in Runs, NEW t \in 1 .. MaxTurns,
                      Projectable(r, t)
               PROVE  {<<r, t>>, <<r, 0>>} \cap (turnRows' \cup quarantined') # {}
    OBVIOUS
  <2>1. Types /\ JournalInv /\ ProjectionInv /\ t \in Nat /\ faults \in Nat
    <3>1. MaxTurns \in Nat /\ MaxFaults \in Nat
      BY TranscriptAssumption
    <3>2. Types /\ JournalInv /\ ProjectionInv
      BY DEF TranscriptInv
    <3>3. faults \in Nat
      BY <3>1, <3>2 DEF Types
    <3> QED BY <3>1, <3>2, <3>3
  <2>2. ~Appending
    BY DEF Appending, BeginTurn, CallRuns, CompleteTurn, Compact, MayCompact, CloseFailedTurn,
           CompactionBreaks
  <2>3. ~ProjectionFails
    BY <2>1 DEF ProjectionFails
  <2>4. RecoveryEnds
    BY <2>2, <2>3
       DEF Next, Appending, StartRun, StartFails, Engine, TakeInput, RunReturns, Projector,
           PassTurn, QuarantineTurn, ProjectTurn, ProjectorKeeps, RunEnds, Crash, Startup,
           Backfill, BackfillRun, BackfillCompaction, BackfillRefused, BackfillFails, BackfillStops,
           BackfillEnds, RecoverRun, vars
  <2>5. job.turns = <<>> /\ pending = {} /\ turnRows' = turnRows /\ quarantined' = quarantined
    BY <2>4 DEF RecoveryEnds, StartupKeeps
  <2>6. Handled(r, t) \/ <<r, 0>> \in quarantined
    BY <2>1, <2>5, RecoveredAll
  <2> QED BY <2>5, <2>6 DEF Handled
<1> QED BY InvariantOfTheTranscript, <1>1, PTL DEF Spec, RecoveryHandlesAll

\* ContextIsWhole: of what the next run starts from nothing is torn, and nothing is missing as
\* long as nothing failed.
THEOREM NextRunReadsAll == Spec => []ContextIsWhole
<1>1. TranscriptInv => ContextIsPaired
  <2> SUFFICES ASSUME TranscriptInv, NEW i \in DOMAIN ctx
               PROVE  /\ ctx[i].kind = "reply" /\ Has(ctx[i].run, ctx[i].n, "result")
                           => i < Len(ctx) /\ ctx[i + 1] = Result(ctx[i].run, ctx[i].n)
                      /\ ctx[i].kind = "result"
                           => i > 1 /\ ctx[i - 1] = Reply(ctx[i].run, ctx[i].n)
    BY DEF ContextIsPaired
  <2>1. PairedSeq(ctx)
    BY DEF TranscriptInv, ViewsInv, Sound
  <2>2. PICK m \in ToSet(ctx) : m = ctx[i]
    BY DEF ToSet
  <2>3. /\ Answered(m) => i < Len(ctx) /\ ctx[i + 1] = Result(m.run, m.n)
        /\ m.kind = "result" => i > 1 /\ ctx[i - 1] = Reply(m.run, m.n)
    BY <2>1, <2>2 DEF PairedSeq
  <2> QED BY <2>2, <2>3 DEF Answered
<1>2. TranscriptInv => ContextIsComplete
  <2> SUFFICES ASSUME TranscriptInv, phase = "running", Clean  PROVE Told /\ IsInjective(ctx)
    <3>1. 1 .. MaxTurns \subseteq Nat
      BY TranscriptAssumption
    <3> QED BY <3>1 DEF ContextIsComplete, Clean, Told
  <2> QED BY DEF TranscriptInv, CompleteInv, ViewsInv, Sound
<1> QED BY InvariantOfTheTranscript, <1>1, <1>2, PTL DEF ContextIsWhole
===================================================================================
