----------------------------- MODULE EngineProofs ------------------------------
(* What the agent engine guarantees for any history that is paired, any inputs, ids,    *)
(* stop reasons, batches and limits, and whatever writes fail: requests are paired and  *)
(* journalled, turns are closed, handlers run when they are authorised and are          *)
(* accounted for, and an acknowledged input is shown to the model.                      *)
EXTENDS Engine, FiniteSetTheorems, SequenceTheorems, WellFoundedInduction, TLAPS

--------------------------------------------------------------------------------
(* Sequences that are flattened. RepairDanglingToolCalls and DropOrphanToolResults are
   flattenings; what one computes is shown by induction over its steps. *)

\* The order of the natural numbers is well founded.
LEMMA NatWellFounded ==
  \E R : IsWellFoundedOn(R, Nat) /\ \A x, y \in Nat : x < y => <<x, y>> \in R
<1>1. IsWellFoundedOn(OpToRel(<, Nat), Nat)
  BY NatLessThanWellFounded
<1>2. \A x, y \in Nat : x < y => <<x, y>> \in OpToRel(<, Nat)
  BY DEF OpToRel
<1> QED BY <1>1, <1>2

\* A set of numbers has a least one: all inductions below rest on it.
LEMMA LeastNatural ==
  ASSUME NEW T, T \in SUBSET Nat, T # {}
  PROVE  \E n \in T : \A m \in T : n <= m
<1>1. PICK R : IsWellFoundedOn(R, Nat) /\ \A x, y \in Nat : x < y => <<x, y>> \in R
  BY NatWellFounded
<1>2. IsWellFoundedOn(R, Nat) /\ T \subseteq Nat
  BY <1>1
<1>3. \E x \in T : \A y \in T : ~(<<y, x>> \in R)
  BY <1>2, WFMin
<1>4. PICK x \in T : \A y \in T : ~(<<y, x>> \in R)
  BY <1>3
<1>5. ASSUME NEW y \in T  PROVE x <= y
  <2>1. x \in Nat /\ y \in Nat /\ ~(<<y, x>> \in R)
    BY <1>2, <1>4
  <2>2. ~(y < x)
    BY <1>1, <2>1, Zenon
  <2> QED  BY <2>1, <2>2
<1> QED BY <1>5

\* Induction from m to n, stated with the set of the numbers that have the property.
LEMMA SetInduction ==
  ASSUME NEW S, NEW m \in Nat, NEW n \in Nat, m \in S,
         \A i \in m .. n - 1 : i \in S => i + 1 \in S
  PROVE  \A i \in m .. n : i \in S
<1> DEFINE T == {i \in m .. n : i \notin S}
<1>1. SUFFICES ASSUME T # {}  PROVE FALSE
  OBVIOUS
<1>2. T \in SUBSET Nat
  OBVIOUS
<1>3. PICK k \in T : \A i \in T : k <= i
  <2> HIDE DEF T
  <2> QED BY <1>1, <1>2, LeastNatural
<1>4. k \in m .. n /\ k \notin S /\ k # m
  BY <1>3
<1>5. k - 1 \in m .. n - 1 /\ k - 1 \notin T
  BY <1>3, <1>4
<1>6. k - 1 \in S
  BY <1>5
<1>7. (k - 1) + 1 \in S
  BY <1>5, <1>6
<1> QED BY <1>4, <1>7

\* A function with the recursion of FlattenSeq, up to n.
Flattens(seqs, n, g) ==
  g = [i \in 1 .. n |-> IF i = 1 THEN seqs[i] ELSE g[i - 1] \o seqs[i]]

\* FlattenSeq is defined by a CHOOSE; what is chosen exists.
LEMMA FlatteningExists ==
  ASSUME NEW seqs, NEW n \in Nat
  PROVE  \E g : Flattens(seqs, n, g)
<1> DEFINE S == {k \in Nat : \E g : Flattens(seqs, k, g)}
<1>1. 0 \in S
  <2>1. Flattens(seqs, 0, [i \in {} |-> {}])
    BY DEF Flattens
  <2> QED BY <2>1
<1>2. ASSUME NEW k \in 0 .. n - 1, k \in S  PROVE k + 1 \in S
  <2>1. PICK g : Flattens(seqs, k, g)
    BY <1>2
  <2> DEFINE h == [i \in 1 .. k + 1 |-> IF i <= k THEN g[i] ELSE
                                         IF i = 1 THEN seqs[i] ELSE g[i - 1] \o seqs[i]]
  <2>2. \A i \in 1 .. k : g[i] = IF i = 1 THEN seqs[i] ELSE g[i - 1] \o seqs[i]
    BY <2>1 DEF Flattens
  <2>3. \A i \in 1 .. k + 1 : h[i] = IF i = 1 THEN seqs[i] ELSE h[i - 1] \o seqs[i]
    BY <2>2
  <2>4. Flattens(seqs, k + 1, h)
    <3> h = [i \in 1 .. k + 1 |-> h[i]]
      OBVIOUS
    <3> HIDE DEF h
    <3> QED BY <2>3 DEF Flattens
  <2> HIDE DEF h
  <2> QED BY <2>4
<1>3. \A k \in 0 .. n : k \in S
  <2> HIDE DEF S
  <2> QED BY <1>1, <1>2, SetInduction
<1> QED BY <1>3

\* The flattening of a sequence of sequences is made from left to right.
LEMMA FlattenSeqSteps ==
  ASSUME NEW seqs, Len(seqs) \in Nat, Len(seqs) # 0
  PROVE  \E g : /\ FlattenSeq(seqs) = g[Len(seqs)]
                /\ g[1] = seqs[1]
                /\ \A i \in 2 .. Len(seqs) : g[i] = g[i - 1] \o seqs[i]
<1> DEFINE n == Len(seqs)
           g == CHOOSE f : f = [i \in 1 .. n |-> IF i = 1 THEN seqs[i] ELSE f[i - 1] \o seqs[i]]
<1>1. FlattenSeq(seqs) = g[n]
  BY DEF FlattenSeq
<1>2. g = [i \in 1 .. n |-> IF i = 1 THEN seqs[i] ELSE g[i - 1] \o seqs[i]]
  BY FlatteningExists DEF Flattens
<1> HIDE DEF g
<1>3. \A i \in 1 .. n : g[i] = IF i = 1 THEN seqs[i] ELSE g[i - 1] \o seqs[i]
  BY <1>2
<1>4. g[1] = seqs[1]
  <2>1. 1 \in 1 .. n
    OBVIOUS
  <2> QED BY <1>3, <2>1
<1>5. ASSUME NEW i \in 2 .. n  PROVE g[i] = g[i - 1] \o seqs[i]
  <2>1. i \in 1 .. n /\ i # 1
    OBVIOUS
  <2> QED BY <1>3, <2>1
<1> QED BY <1>1, <1>4, <1>5

\* Flattening keeps a sequence that was cut into single elements.
LEMMA FlattenSeqOfSingletons ==
  ASSUME NEW A, NEW s \in Seq(A), NEW seqs, Len(seqs) = Len(s),
         \A i \in 1 .. Len(s) : seqs[i] = <<s[i]>>,
         Len(s) = 0 => seqs = s
  PROVE  FlattenSeq(seqs) = s
<1>1. CASE Len(s) = 0
  BY <1>1 DEF FlattenSeq
<1>0. Len(s) \in Nat /\ Len(seqs) \in Nat
  OBVIOUS
<1>2. CASE Len(s) # 0
  <2>1. PICK g : /\ FlattenSeq(seqs) = g[Len(seqs)]
                 /\ g[1] = seqs[1]
                 /\ \A i \in 2 .. Len(seqs) : g[i] = g[i - 1] \o seqs[i]
    BY <1>0, <1>2, FlattenSeqSteps
  <2> DEFINE S == {i \in 1 .. Len(s) : g[i] = SubSeq(s, 1, i)}
  <2>2. 1 \in S
    BY <1>2, <2>1
  <2>3. ASSUME NEW i \in 1 .. Len(s) - 1, i \in S  PROVE i + 1 \in S
    <3>1. g[i + 1] = SubSeq(s, 1, i) \o <<s[i + 1]>>
      <4>1. i + 1 \in 2 .. Len(seqs) /\ (i + 1) - 1 = i
        BY <1>0
      <4>2. g[i + 1] = g[i] \o seqs[i + 1]
        BY <2>1, <4>1
      <4>3. g[i] = SubSeq(s, 1, i)
        BY <2>3
      <4>4. seqs[i + 1] = <<s[i + 1]>>
        BY <1>0, <4>1
      <4> QED BY <4>2, <4>3, <4>4
    <3>2. SubSeq(s, 1, i + 1) = SubSeq(s, 1, i) \o <<s[i + 1]>>
      <4>1. PICK k \in 1 .. Len(s) : k = i + 1
        BY <1>0, <1>2
      <4>2. 1 \in 1 .. Len(s) /\ k - 1 = i
        BY <1>0, <1>2, <4>1
      <4>3. SubSeq(s, 1, k) = SubSeq(s, 1, k - 1) \o <<s[k]>>
        BY <4>2, SubSeqRecursiveSecond
      <4>4. SubSeq(s, 1, k) = SubSeq(s, 1, i) \o <<s[k]>>
        BY <4>2, <4>3, Zenon
      <4> QED BY <4>1, <4>4, Zenon
    <3>3. g[i + 1] = SubSeq(s, 1, i + 1)
      BY <3>1, <3>2, Zenon
    <3>4. i + 1 \in 1 .. Len(s)
      BY <1>0
    <3> QED BY <3>3, <3>4
  <2>4. \A i \in 1 .. Len(s) : i \in S
    <3> HIDE DEF S
    <3> QED BY <1>0, <1>2, <2>2, <2>3, SetInduction
  <2>5. FlattenSeq(seqs) = SubSeq(s, 1, Len(s))
    BY <1>2, <2>1, <2>4
  <2> QED BY <2>5, SubSeqFull
<1> QED BY <1>1, <1>2

\* The elements of a concatenation are those of its parts.
LEMMA ToSetConcat ==
  ASSUME NEW A, NEW s \in Seq(A), NEW t \in Seq(A)
  PROVE  s \o t \in Seq(A) /\ ToSet(s \o t) = ToSet(s) \cup ToSet(t)
<1>1. /\ s \o t \in Seq(A)
      /\ Len(s \o t) = Len(s) + Len(t)
      /\ \A i \in 1 .. Len(s) + Len(t) :
           (s \o t)[i] = IF i <= Len(s) THEN s[i] ELSE t[i - Len(s)]
  BY ConcatProperties
<1>2. /\ Len(s) \in Nat /\ DOMAIN s = 1 .. Len(s)
      /\ Len(t) \in Nat /\ DOMAIN t = 1 .. Len(t)
      /\ DOMAIN (s \o t) = 1 .. Len(s) + Len(t)
  BY <1>1
<1>3. ASSUME NEW x \in ToSet(s \o t)  PROVE x \in ToSet(s) \cup ToSet(t)
  <2>1. PICK i \in 1 .. Len(s) + Len(t) : x = (s \o t)[i]
    BY <1>2, <1>3 DEF ToSet
  <2>2. CASE i <= Len(s)
    BY <1>1, <1>2, <2>1, <2>2 DEF ToSet
  <2>3. CASE i > Len(s)
    <3>1. i - Len(s) \in DOMAIN t /\ x = t[i - Len(s)]
      BY <1>1, <1>2, <2>1, <2>3
    <3> QED BY <3>1 DEF ToSet
  <2> QED BY <1>2, <2>2, <2>3
<1>4. ASSUME NEW x \in ToSet(s)  PROVE x \in ToSet(s \o t)
  BY <1>1, <1>2 DEF ToSet
<1>5. ASSUME NEW x \in ToSet(t)  PROVE x \in ToSet(s \o t)
  <2>1. PICK i \in 1 .. Len(t) : x = t[i]
    BY <1>2, <1>5 DEF ToSet
  <2>2. i + Len(s) \in DOMAIN (s \o t) /\ (s \o t)[i + Len(s)] = t[i]
    BY <1>1, <1>2, <2>1
  <2> QED BY <2>1, <2>2 DEF ToSet
<1> QED BY <1>1, <1>3, <1>4, <1>5

\* The elements of a flattening are those of the sequences.
LEMMA FlattenSeqRange ==
  ASSUME NEW A, NEW seqs \in Seq(Seq(A))
  PROVE  /\ FlattenSeq(seqs) \in Seq(A)
         /\ ToSet(FlattenSeq(seqs)) = UNION {ToSet(seqs[i]) : i \in DOMAIN seqs}
<1>1. Len(seqs) \in Nat /\ DOMAIN seqs = 1 .. Len(seqs)
  OBVIOUS
<1>2. CASE Len(seqs) = 0
  <2>1. FlattenSeq(seqs) = <<>> /\ seqs = <<>>
    BY <1>2 DEF FlattenSeq
  <2>2. DOMAIN seqs = {} /\ ToSet(<<>>) = {} /\ <<>> \in Seq(A)
    BY <1>1, <1>2 DEF ToSet
  <2> QED BY <2>1, <2>2
<1>3. CASE Len(seqs) # 0
  <2>1. PICK g : /\ FlattenSeq(seqs) = g[Len(seqs)]
                 /\ g[1] = seqs[1]
                 /\ \A i \in 2 .. Len(seqs) : g[i] = g[i - 1] \o seqs[i]
    BY <1>1, <1>3, FlattenSeqSteps
  <2> DEFINE Parts(i) == UNION {ToSet(seqs[k]) : k \in 1 .. i}
             S == {i \in 1 .. Len(seqs) : g[i] \in Seq(A) /\ ToSet(g[i]) = Parts(i)}
  <2>2. 1 \in S
    <3>1. g[1] \in Seq(A)
      BY <1>1, <1>3, <2>1
    <3>2. Parts(1) = ToSet(seqs[1])
      <4>1. 1 .. 1 = {1}
        OBVIOUS
      <4> QED BY <4>1, Zenon
    <3> QED BY <1>1, <1>3, <2>1, <3>1, <3>2
  <2>3. ASSUME NEW i \in 1 .. Len(seqs) - 1, i \in S  PROVE i + 1 \in S
    <3>1. i + 1 \in 2 .. Len(seqs) /\ (i + 1) - 1 = i /\ i + 1 \in DOMAIN seqs
      BY <1>1
    <3>2. g[i + 1] = g[i] \o seqs[i + 1]
      BY <2>1, <3>1
    <3>3. g[i] \in Seq(A) /\ ToSet(g[i]) = Parts(i)
      BY <2>3
    <3>4. seqs[i + 1] \in Seq(A)
      BY <3>1
    <3>5. g[i + 1] \in Seq(A) /\ ToSet(g[i + 1]) = Parts(i) \cup ToSet(seqs[i + 1])
      <4> HIDE DEF Parts
      <4> QED BY <3>2, <3>3, <3>4, ToSetConcat
    <3>6. Parts(i + 1) = Parts(i) \cup ToSet(seqs[i + 1])
      <4>1. 1 .. i + 1 = (1 .. i) \cup {i + 1}
        BY <3>1
      <4> QED BY <4>1, Zenon
    <3> QED BY <3>1, <3>5, <3>6, <1>1
  <2>4. \A i \in 1 .. Len(seqs) : i \in S
    <3> HIDE DEF S
    <3> QED BY <1>1, <1>3, <2>2, <2>3, SetInduction
  <2>5. g[Len(seqs)] \in Seq(A) /\ ToSet(g[Len(seqs)]) = Parts(Len(seqs))
    <3>1. Len(seqs) \in S
      <4> HIDE DEF S
      <4> QED BY <1>1, <1>3, <2>4
    <3> QED BY <3>1
  <2> QED BY <1>1, <2>1, <2>5, Zenon
<1> QED BY <1>2, <1>3

--------------------------------------------------------------------------------
(* Transcripts in which every call has its result. *)

\* What a transcript holds.
Messages == [role : Roles, ids : Seq(CallIds), turn : Int]

\* The fields of a message.
LEMMA MessageAt ==
  ASSUME NEW msgs \in Seq(Messages), NEW i \in 1 .. Len(msgs)
  PROVE  /\ msgs[i] \in Messages
         /\ msgs[i].role \in Roles
         /\ msgs[i].turn \in Int
         /\ msgs[i].ids \in Seq(CallIds)
         /\ Len(msgs[i].ids) \in Nat
         /\ DOMAIN msgs[i].ids = 1 .. Len(msgs[i].ids)
<1>1. msgs[i] \in Messages
  OBVIOUS
<1>2. msgs[i].role \in Roles /\ msgs[i].turn \in Int /\ msgs[i].ids \in Seq(CallIds)
  BY <1>1 DEF Messages
<1> QED BY <1>1, <1>2

\* A bounded set of numbers has a greatest one.
LEMMA GreatestNatural ==
  ASSUME NEW T, T \in SUBSET Nat, T # {}, NEW b \in Nat, \A n \in T : n <= b
  PROVE  /\ Max(T) \in T
         /\ \A m \in T : m <= Max(T)
<1> DEFINE U == {b - n : n \in T}
<1>1. U \in SUBSET Nat /\ U # {}
  <2>1. \A n \in T : b - n \in Nat
    OBVIOUS
  <2> QED BY <2>1
<1>2. PICK u \in U : \A v \in U : u <= v
  <2> HIDE DEF U
  <2> QED BY <1>1, LeastNatural
<1>3. PICK n \in T : u = b - n
  BY <1>2
<1>4. \A m \in T : n >= m
  <2> SUFFICES ASSUME NEW m \in T  PROVE n >= m
    OBVIOUS
  <2>1. b - m \in U /\ m \in Nat /\ n \in Nat
    BY <1>3
  <2>2. u <= b - m
    BY <1>2, <2>1
  <2> QED BY <1>3, <2>1, <2>2
<1>5. Max(T) \in T /\ \A m \in T : Max(T) >= m
  BY <1>3, <1>4 DEF Max
<1> QED BY <1>5

\* The minimum of a set of numbers exists.
LEMMA MinOfNaturals ==
  ASSUME NEW T, T \in SUBSET Nat, T # {}
  PROVE  /\ Min(T) \in T
         /\ \A m \in T : Min(T) <= m
<1>1. PICK n \in T : \A m \in T : n =< m
  BY LeastNatural
<1> QED BY <1>1 DEF Min

\* The calls of a whole transcript are followed by results, in whose way no other answer stands.
LEMMA ResultsBehindTheirCall ==
  ASSUME NEW msgs \in Seq(Messages), Paired(msgs),
         NEW k \in 1 .. Len(msgs), msgs[k].role = "assistant"
  PROVE  /\ Len(msgs[k].ids) \in Nat
         /\ k + Len(msgs[k].ids) <= Len(msgs)
         /\ \A j \in 1 .. Len(msgs[k].ids) :
              /\ msgs[k + j].role = "tool"
              /\ msgs[k + j].ids = <<msgs[k].ids[j]>>
         /\ SearchEnd(msgs, k) \in k + Len(msgs[k].ids) + 1 .. Len(msgs) + 1
<1>1. msgs[k] \in Messages
  OBVIOUS
<1>2. Len(msgs[k].ids) \in Nat
  BY <1>1 DEF Messages
<1>3. CallsAnswered(msgs, k)
  BY DEF Paired, RoleAt
<1>4. /\ k + Len(msgs[k].ids) <= Len(msgs)
      /\ \A j \in 1 .. Len(msgs[k].ids) :
              /\ msgs[k + j].role = "tool"
              /\ msgs[k + j].ids = <<msgs[k].ids[j]>>
  BY <1>3 DEF CallsAnswered
<1> DEFINE later == {i \in k + 1 .. Len(msgs) : RoleAt(msgs, i) = "assistant"}
<1>5. \A i \in later : i > k + Len(msgs[k].ids)
  <2> SUFFICES ASSUME NEW i \in k + 1 .. k + Len(msgs[k].ids), msgs[i].role = "assistant"
               PROVE  FALSE
    BY <1>2, <1>4 DEF RoleAt
  <2>1. i - k \in 1 .. Len(msgs[k].ids) /\ k + (i - k) = i
    BY <1>2
  <2>2. msgs[k + (i - k)].role = "tool"
    BY <1>4, <2>1
  <2> QED BY <2>1, <2>2
<1>6. SearchEnd(msgs, k) = IF later = {} THEN Len(msgs) + 1 ELSE Min(later)
  BY DEF SearchEnd
<1>7. later # {} => Min(later) \in later
  <2>1. later \in SUBSET Nat
    OBVIOUS
  <2> HIDE DEF later
  <2> QED BY <2>1, MinOfNaturals
<1>8. SearchEnd(msgs, k) \in k + Len(msgs[k].ids) + 1 .. Len(msgs) + 1
  <2>1. CASE later = {}
    BY <2>1, <1>2, <1>4, <1>6
  <2>2. CASE later # {}
    <3>1. Min(later) \in k + 1 .. Len(msgs) /\ Min(later) > k + Len(msgs[k].ids)
      BY <2>2, <1>5, <1>7
    <3> QED BY <2>2, <3>1, <1>2, <1>6
  <2> QED BY <2>1, <2>2
<1> QED BY <1>2, <1>4, <1>8

\* Two numbers of a set that have as many below them are one.
LEMMA SameRank ==
  ASSUME NEW R, R \in SUBSET Nat, IsFiniteSet(R), NEW a \in R, NEW b \in R,
         Cardinality({x \in R : x < a}) = Cardinality({x \in R : x < b})
  PROVE  a = b
<1>1. ASSUME NEW p \in R, NEW q \in R, p < q,
             Cardinality({x \in R : x < p}) = Cardinality({x \in R : x < q})
      PROVE  FALSE
  <2> DEFINE P == {x \in R : x < p}
             Q == {x \in R : x < q}
  <2>1. IsFiniteSet(Q)
    BY FS_Subset
  <2>2. P \in SUBSET Q
    <3>1. ASSUME NEW x \in R, x < p  PROVE x < q
      <4>1. x \in Nat /\ p \in Nat /\ q \in Nat
        OBVIOUS
      <4> QED BY <1>1, <3>1, <4>1
    <3> QED BY <3>1
  <2>3. P = Q
    <3>1. Cardinality(Q) = Cardinality(P)
      BY <1>1
    <3> HIDE DEF P, Q
    <3> QED BY <2>1, <2>2, <3>1, FS_Subset
  <2>4. p \in Q /\ p \notin P
    BY <1>1
  <2> QED BY <2>3, <2>4
<1>2. a \in Nat /\ b \in Nat
  OBVIOUS
<1>3. ~(a < b) /\ ~(b < a)
  BY <1>1
<1> QED BY <1>2, <1>3

\* A set that is shifted keeps its size.
LEMMA ShiftKeepsCardinality ==
  ASSUME NEW S, S \in SUBSET Int, IsFiniteSet(S), NEW k \in Int
  PROVE  Cardinality({k + x : x \in S}) = Cardinality(S)
<1> DEFINE T == {k + x : x \in S}
           f == [x \in S |-> k + x]
<1>1. f \in Surjection(S, T)
  BY DEF Surjection
<1>2. f \in Injection(S, T)
  <2>1. f \in [S -> T]
    OBVIOUS
  <2>2. ASSUME NEW x \in S, NEW y \in S, f[x] = f[y]  PROVE x = y
    <3>1. k + x = k + y /\ x \in Int /\ y \in Int
      BY <2>2
    <3> QED BY <3>1
  <2> QED BY <2>1, <2>2 DEF Injection, IsInjective
<1> QED BY <1>1, <1>2, FS_Surjection

\* The search for the j-th result of an answer finds the one that stands there: the
\* earlier calls of the same id take the earlier results, one each.
LEMMA MatchOfAPair ==
  ASSUME NEW msgs \in Seq(Messages), Paired(msgs),
         NEW k \in 1 .. Len(msgs), msgs[k].role = "assistant",
         NEW j \in 1 .. Len(msgs[k].ids)
  PROVE  MatchingResult(msgs, k, j) = k + j
<1> DEFINE calls == msgs[k].ids
           n == Len(calls)
           same == {i \in 1 .. j - 1 : calls[i] = calls[j]}
           results == {i \in k + 1 .. SearchEnd(msgs, k) - 1 :
                         msgs[i].role = "tool" /\ msgs[i].ids = <<calls[j]>>}
           found == {i \in results : Cardinality({x \in results : x < i}) = Cardinality(same)}
<1>1. /\ n \in Nat
      /\ k + n <= Len(msgs)
      /\ \A i \in 1 .. n : msgs[k + i].role = "tool" /\ msgs[k + i].ids = <<calls[i]>>
      /\ SearchEnd(msgs, k) \in k + n + 1 .. Len(msgs) + 1
  BY ResultsBehindTheirCall
<1>2. results \in SUBSET Nat /\ IsFiniteSet(results)
  <2>1. IsFiniteSet(k + 1 .. SearchEnd(msgs, k) - 1)
    <3>1. k + 1 \in Int /\ SearchEnd(msgs, k) - 1 \in Int
      BY <1>1
    <3> HIDE DEF results, same, found
    <3> QED BY <3>1, FS_Interval
  <2>2. results \in SUBSET (k + 1 .. SearchEnd(msgs, k) - 1)
    OBVIOUS
  <2>3. IsFiniteSet(results)
    BY <2>1, <2>2, FS_Subset
  <2> QED BY <1>1, <2>3
<1>3. k + j \in results
  <2>1. k + j \in k + 1 .. SearchEnd(msgs, k) - 1
    <3>1. PICK e \in Nat : e = SearchEnd(msgs, k) /\ k + n + 1 <= e
      BY <1>1
    <3>2. j <= n /\ j \in Nat /\ k \in Nat
      BY <1>1
    <3> HIDE DEF n
    <3> QED BY <1>1, <3>1, <3>2
  <2>2. msgs[k + j].role = "tool" /\ msgs[k + j].ids = <<calls[j]>>
    BY <1>1
  <2> QED BY <2>1, <2>2
<1>4. {x \in results : x < k + j} = {k + i : i \in same}
  <2>1. ASSUME NEW x \in results, x < k + j  PROVE x \in {k + i : i \in same}
    <3>1. x - k \in 1 .. j - 1 /\ x - k \in 1 .. n /\ k + (x - k) = x
      BY <1>1, <2>1
    <3>2. msgs[x].ids = <<calls[x - k]>> /\ msgs[x].ids = <<calls[j]>>
      BY <1>1, <2>1, <3>1
    <3>3. calls[x - k] = calls[j]
      BY <3>2
    <3> QED BY <3>1, <3>3
  <2>2. ASSUME NEW i \in same  PROVE k + i \in results /\ k + i < k + j
    <3>1. i \in 1 .. n /\ calls[i] = calls[j] /\ i < j
      BY <1>1
    <3>2. k + i \in k + 1 .. SearchEnd(msgs, k) - 1
      BY <1>1, <3>1
    <3> QED BY <1>1, <3>1, <3>2
  <2> HIDE DEF results, same
  <2> QED BY <2>1, <2>2
<1>5. Cardinality({x \in results : x < k + j}) = Cardinality(same)
  <2>1. same \in SUBSET Int
    OBVIOUS
  <2>2. IsFiniteSet(same)
    <3>1. IsFiniteSet(1 .. j - 1)
      BY <1>1, FS_Interval
    <3> QED BY <3>1, FS_Subset
  <2> HIDE DEF results, same
  <2>3. Cardinality({k + i : i \in same}) = Cardinality(same)
    <3>1. k \in Int
      OBVIOUS
    <3> QED BY <2>1, <2>2, <3>1, ShiftKeepsCardinality, Zenon
  <2> QED BY <1>4, <2>3, Zenon
<1>6. found = {k + j}
  <2> HIDE DEF results, same
  <2>1. k + j \in found
    BY <1>3, <1>5
  <2>2. ASSUME NEW i \in found  PROVE i = k + j
    <3>1. /\ i \in results
          /\ Cardinality({x \in results : x < i}) = Cardinality({x \in results : x < k + j})
      BY <1>5, <2>2
    <3> HIDE DEF found
    <3>2. \A a, b \in results :
            Cardinality({x \in results : x < a}) = Cardinality({x \in results : x < b}) => a = b
      BY <1>2, SameRank
    <3> QED BY <1>3, <3>1, <3>2, Zenon
  <2> QED BY <2>1, <2>2
<1>7. MatchingResult(msgs, k, j) = IF found = {} THEN 0 ELSE CHOOSE i \in found : TRUE
  BY DEF MatchingResult
<1> HIDE DEF found
<1>8. (CHOOSE i \in {k + j} : TRUE) = k + j
  OBVIOUS
<1> QED BY <1>6, <1>7, <1>8

\* Between a result and its call stand results only.
LEMMA CallOfAResult ==
  ASSUME NEW msgs \in Seq(Messages), Paired(msgs),
         NEW x \in 1 .. Len(msgs), msgs[x].role = "tool"
  PROVE  \E k \in 1 .. x - 1 : /\ msgs[k].role = "assistant"
                               /\ x - k \in 1 .. Len(msgs[k].ids)
                               /\ \A e \in k + 1 .. x : msgs[e].role = "tool"
<1>0. Len(msgs) \in Nat /\ DOMAIN msgs = 1 .. Len(msgs)
  OBVIOUS
<1>1. HasItsCall(msgs, x)
  BY <1>0 DEF Paired, RoleAt
<1>2. PICK k \in 1 .. x - 1 : msgs[k].role = "assistant" /\ x - k <= Len(msgs[k].ids)
  BY <1>1 DEF HasItsCall, RoleAt
<1>3. k \in 1 .. Len(msgs)
  BY <1>0
<1>4. /\ Len(msgs[k].ids) \in Nat
      /\ \A j \in 1 .. Len(msgs[k].ids) : msgs[k + j].role = "tool"
  BY <1>2, <1>3, ResultsBehindTheirCall
<1>5. ASSUME NEW e \in k + 1 .. x  PROVE msgs[e].role = "tool"
  <2>1. PICK l \in Nat : l = Len(msgs[k].ids)
    BY <1>4
  <2>2. x - k <= l /\ k \in Nat /\ x \in Nat
    BY <1>2, <1>3, <2>1
  <2>3. e - k \in 1 .. l /\ k + (e - k) = e
    BY <2>2
  <2> QED BY <1>4, <2>1, <2>3
<1>6. x - k \in 1 .. Len(msgs[k].ids)
  BY <1>2, <1>3, <1>4
<1> QED BY <1>2, <1>5, <1>6

\* Behind a group that is whole, no result stands.
LEMMA GroupIsClosed ==
  ASSUME NEW msgs \in Seq(Messages), Paired(msgs), NEW k \in 1 .. Len(msgs)
  PROVE  /\ msgs[k].role = "assistant" /\ k + Len(msgs[k].ids) + 1 <= Len(msgs)
              => msgs[k + Len(msgs[k].ids) + 1].role # "tool"
         /\ msgs[k].role \notin {"assistant", "tool"} /\ k + 1 <= Len(msgs)
              => msgs[k + 1].role # "tool"
<1>0. Len(msgs) \in Nat
  OBVIOUS
<1>1. ASSUME msgs[k].role = "assistant", k + Len(msgs[k].ids) + 1 <= Len(msgs),
             msgs[k + Len(msgs[k].ids) + 1].role = "tool"
      PROVE  FALSE
  <2>1. /\ Len(msgs[k].ids) \in Nat
        /\ \A j \in 1 .. Len(msgs[k].ids) : msgs[k + j].role = "tool"
    BY <1>1, ResultsBehindTheirCall
  <2>2. PICK x \in 1 .. Len(msgs) : x = k + Len(msgs[k].ids) + 1
    BY <1>0, <1>1, <2>1
  <2>3. PICK c \in 1 .. x - 1 : /\ msgs[c].role = "assistant"
                               /\ x - c \in 1 .. Len(msgs[c].ids)
                               /\ \A e \in c + 1 .. x : msgs[e].role = "tool"
    <3>1. msgs[x].role = "tool"
      BY <1>1, <2>2
    <3> HIDE <1>1
    <3> QED BY <3>1, CallOfAResult
  <2>4. c <= k
    <3>1. SUFFICES ASSUME c > k  PROVE FALSE
      BY <2>2
    <3>2. c - k \in 1 .. Len(msgs[k].ids) /\ k + (c - k) = c
      BY <2>1, <2>2, <3>1
    <3>3. msgs[c].role = "tool"
      BY <2>1, <3>2
    <3> QED BY <2>3, <3>3
  <2>5. CASE c = k
    BY <2>1, <2>2, <2>3, <2>5
  <2>6. CASE c < k
    <3>1. k \in c + 1 .. x
      BY <2>1, <2>2, <2>6
    <3>2. msgs[k].role = "tool"
      BY <2>3, <3>1
    <3> QED BY <1>1, <3>2
  <2> QED BY <2>2, <2>4, <2>5, <2>6
<1>2. ASSUME msgs[k].role \notin {"assistant", "tool"}, k + 1 <= Len(msgs),
             msgs[k + 1].role = "tool"
      PROVE  FALSE
  <2>1. PICK x \in 1 .. Len(msgs) : x = k + 1
    BY <1>0, <1>2
  <2>2. PICK c \in 1 .. x - 1 : /\ msgs[c].role = "assistant"
                               /\ \A e \in c + 1 .. x : msgs[e].role = "tool"
    BY <1>2, <2>1, CallOfAResult
  <2>3. c # k
    BY <1>2, <2>2
  <2>4. k \in c + 1 .. x
    BY <2>1, <2>2, <2>3
  <2> QED BY <1>2, <2>2, <2>4
<1> QED BY <1>1, <1>2

--------------------------------------------------------------------------------
(* A transcript that is paired is left alone by the repair. *)

\* The pieces a whole transcript is repaired to: each group at its call, nothing at a result.
Piece(msgs, i) ==
  IF msgs[i].role = "assistant" THEN SubSeq(msgs, i, i + Len(msgs[i].ids))
  ELSE IF msgs[i].role = "tool" THEN <<>> ELSE <<msgs[i]>>

\* RepairDanglingToolCalls puts these pieces together.
LEMMA RepairOfPieces ==
  ASSUME NEW msgs \in Seq(Messages), Paired(msgs)
  PROVE  RepairDanglingToolCalls(msgs) = FlattenSeq([i \in DOMAIN msgs |-> Piece(msgs, i)])
<1> DEFINE ResultOf(k, j) ==
             LET found == MatchingResult(msgs, k, j)
             IN IF found # 0 THEN msgs[found]
                ELSE Message("tool", <<msgs[k].ids[j]>>, Dangling)
           P(i) ==
             IF RoleAt(msgs, i) = "assistant"
             THEN <<msgs[i]>> \o [j \in DOMAIN msgs[i].ids |-> ResultOf(i, j)]
             ELSE IF i \in ConsumedResults(msgs) THEN <<>> ELSE <<msgs[i]>>
<1>1. RepairDanglingToolCalls(msgs) = FlattenSeq([i \in DOMAIN msgs |-> P(i)])
  BY DEF RepairDanglingToolCalls
<1>2. DOMAIN msgs = 1 .. Len(msgs) /\ Len(msgs) \in Nat
  OBVIOUS
<1>3. ASSUME NEW i \in 1 .. Len(msgs), msgs[i].role = "assistant"
      PROVE  P(i) = Piece(msgs, i)
  <2> DEFINE n == Len(msgs[i].ids)
  <2>1. n \in Nat /\ i + n <= Len(msgs) /\ DOMAIN msgs[i].ids = 1 .. n
    <3>1. msgs[i].ids \in Seq(CallIds)
      BY MessageAt
    <3>2. n \in Nat /\ i + n <= Len(msgs)
      BY <1>3, ResultsBehindTheirCall
    <3> QED BY <3>1, <3>2
  <2>2. \A j \in 1 .. n : MatchingResult(msgs, i, j) = i + j
    BY <1>3, MatchOfAPair
  <2>3. \A j \in 1 .. n : ResultOf(i, j) = msgs[i + j]
    BY <2>2
  <2> DEFINE res == [j \in DOMAIN msgs[i].ids |-> ResultOf(i, j)]
             beh == [j \in 1 .. n |-> msgs[i + j]]
  <2>4. res = beh
    BY <2>1, <2>3, Zenon
  <2>5. P(i) = <<msgs[i]>> \o beh
    BY <1>3, <2>4 DEF RoleAt
  <2>6. beh = SubSeq(msgs, i + 1, i + n)
    <3>1. beh \in Seq(Messages) /\ Len(beh) = n /\ \A j \in 1 .. n : beh[j] = msgs[i + j]
      <4>1. \A j \in 1 .. n : msgs[i + j] \in Messages
        BY <2>1
      <4> QED BY <2>1, <4>1
    <3>2. /\ SubSeq(msgs, i + 1, i + n) \in Seq(Messages)
          /\ Len(SubSeq(msgs, i + 1, i + n)) = n
          /\ \A j \in 1 .. n : SubSeq(msgs, i + 1, i + n)[j] = msgs[i + j]
      <4>1. \A e \in i + 1 .. i + n : msgs[e] \in Messages
        BY <2>1
      <4>2. i + 1 \in Int /\ i + n \in Int
        BY <2>1
      <4>3. /\ SubSeq(msgs, i + 1, i + n) \in Seq(Messages)
            /\ Len(SubSeq(msgs, i + 1, i + n)) = IF i + 1 <= i + n THEN i + n - (i + 1) + 1 ELSE 0
            /\ \A j \in 1 .. i + n - (i + 1) + 1 :
                 SubSeq(msgs, i + 1, i + n)[j] = msgs[(i + 1) + j - 1]
        BY <4>1, <4>2, SubSeqProperties
      <4>4. (IF i + 1 <= i + n THEN i + n - (i + 1) + 1 ELSE 0) = n
            /\ i + n - (i + 1) + 1 = n
        BY <2>1
      <4>5. \A j \in 1 .. n : (i + 1) + j - 1 = i + j
        BY <2>1
      <4> QED BY <4>3, <4>4, <4>5
    <3> HIDE DEF beh
    <3>3. \A j \in 1 .. Len(beh) : beh[j] = SubSeq(msgs, i + 1, i + n)[j]
      BY <3>1, <3>2
    <3>4. Len(beh) = Len(SubSeq(msgs, i + 1, i + n))
      BY <3>1, <3>2
    <3> QED BY <3>1, <3>2, <3>3, <3>4, SeqEqual, Zenon
  <2>7. SubSeq(msgs, i, i + n) = <<msgs[i]>> \o SubSeq(msgs, i + 1, i + n)
    <3>1. i + n \in i .. Len(msgs)
      BY <2>1
    <3> QED BY <3>1, SubSeqRecursiveFirst
  <2>8. Piece(msgs, i) = SubSeq(msgs, i, i + n)
    BY <1>3 DEF Piece
  <2> QED BY <2>5, <2>6, <2>7, <2>8
<1>4. ASSUME NEW i \in 1 .. Len(msgs), msgs[i].role = "tool"
      PROVE  i \in ConsumedResults(msgs)
  <2>1. PICK k \in 1 .. i - 1 : msgs[k].role = "assistant" /\ i - k \in 1 .. Len(msgs[k].ids)
    BY <1>4, CallOfAResult
  <2>2. k \in 1 .. Len(msgs)
    BY <1>2
  <2>3. MatchingResult(msgs, k, i - k) = k + (i - k)
    BY <2>1, <2>2, MatchOfAPair
  <2>4. k + (i - k) = i
    BY <2>2
  <2>5. i - k \in DOMAIN msgs[k].ids
    <3>1. msgs[k].ids \in Seq(CallIds)
      BY <2>2, MessageAt
    <3> QED BY <2>1, <3>1
  <2> QED BY <1>2, <2>1, <2>2, <2>3, <2>4, <2>5 DEF ConsumedResults, RoleAt
<1>5. ASSUME NEW i \in 1 .. Len(msgs), i \in ConsumedResults(msgs)
      PROVE  msgs[i].role = "tool"
  <2>0. PICK k \in 1 .. Len(msgs) :
          /\ msgs[k].role = "assistant"
          /\ i \in {MatchingResult(msgs, k, j) : j \in DOMAIN msgs[k].ids}
    BY <1>2, <1>5 DEF ConsumedResults, RoleAt
  <2>1. PICK j \in DOMAIN msgs[k].ids :
          msgs[k].role = "assistant" /\ i = MatchingResult(msgs, k, j)
    BY <2>0
  <2>2. j \in 1 .. Len(msgs[k].ids)
    <3>1. msgs[k].ids \in Seq(CallIds)
      BY MessageAt
    <3> QED BY <3>1
  <2>3. i = k + j
    BY <2>1, <2>2, MatchOfAPair
  <2>4. msgs[k + j].role = "tool"
    BY <2>1, <2>2, ResultsBehindTheirCall
  <2> QED BY <2>3, <2>4
<1>6. \A i \in 1 .. Len(msgs) : P(i) = Piece(msgs, i)
  BY <1>3, <1>4, <1>5 DEF Piece, RoleAt
<1>7. [i \in DOMAIN msgs |-> P(i)] = [i \in DOMAIN msgs |-> Piece(msgs, i)]
  <2> HIDE DEF P
  <2> QED BY <1>2, <1>6
<1> QED BY <1>1, <1>7

\* What is flattened up to i is the transcript up to the end of the group of i.
LEMMA PieceEndsItsGroup ==
  ASSUME NEW msgs \in Seq(Messages), Paired(msgs),
         NEW i \in 1 .. Len(msgs), msgs[i].role # "tool"
  PROVE  \E e \in i .. Len(msgs) :
           /\ Piece(msgs, i) = SubSeq(msgs, i, e)
           /\ \A x \in i + 1 .. e : msgs[x].role = "tool"
           /\ e = Len(msgs) \/ msgs[e + 1].role # "tool"
<1>0. Len(msgs) \in Nat
  OBVIOUS
<1>1. CASE msgs[i].role = "assistant"
  <2> DEFINE e == i + Len(msgs[i].ids)
  <2>1. /\ Len(msgs[i].ids) \in Nat
        /\ e <= Len(msgs)
        /\ \A j \in 1 .. Len(msgs[i].ids) : msgs[i + j].role = "tool"
    BY <1>1, ResultsBehindTheirCall
  <2>2. e \in i .. Len(msgs) /\ Piece(msgs, i) = SubSeq(msgs, i, e)
    BY <1>0, <1>1, <2>1 DEF Piece
  <2>3. ASSUME NEW x \in i + 1 .. e  PROVE msgs[x].role = "tool"
    <3>1. x - i \in 1 .. Len(msgs[i].ids) /\ i + (x - i) = x
      BY <2>1
    <3> QED BY <2>1, <3>1
  <2>4. e = Len(msgs) \/ msgs[e + 1].role # "tool"
    BY <1>0, <1>1, <2>1, GroupIsClosed
  <2> HIDE DEF e
  <2> QED BY <2>2, <2>3, <2>4
<1>2. CASE msgs[i].role # "assistant"
  <2>1. Piece(msgs, i) = <<msgs[i]>>
    BY <1>2 DEF Piece
  <2>2. SubSeq(msgs, i, i) = <<msgs[i]>>
    <3>1. i \in i .. Len(msgs) /\ i + 1 \in Int /\ i < i + 1
      BY <1>0
    <3>2. SubSeq(msgs, i, i) = <<msgs[i]>> \o SubSeq(msgs, i + 1, i)
      BY <3>1, SubSeqRecursiveFirst
    <3>3. SubSeq(msgs, i + 1, i) = <<>>
      BY <3>1, SubSeqEmpty
    <3>4. <<msgs[i]>> \in Seq(Messages)
      OBVIOUS
    <3> QED BY <3>2, <3>3, <3>4, ConcatEmptySeq
  <2>3. i = Len(msgs) \/ msgs[i + 1].role # "tool"
    <3>1. msgs[i].role \notin {"assistant", "tool"}
      BY <1>2
    <3>2. i = Len(msgs) \/ i + 1 <= Len(msgs)
      BY <1>0
    <3> QED BY <3>1, <3>2, GroupIsClosed
  <2>4. i \in i .. Len(msgs) /\ i + 1 .. i = {}
    BY <1>0
  <2> QED BY <2>1, <2>2, <2>3, <2>4
<1> QED BY <1>1, <1>2

\* The pieces, put together, are the transcript.
LEMMA PiecesMakeTheWhole ==
  ASSUME NEW msgs \in Seq(Messages), Paired(msgs)
  PROVE  FlattenSeq([i \in DOMAIN msgs |-> Piece(msgs, i)]) = msgs
<1> DEFINE n == Len(msgs)
           seqs == [i \in DOMAIN msgs |-> Piece(msgs, i)]
<1>1. n \in Nat /\ DOMAIN msgs = 1 .. n
  OBVIOUS
<1>2. Len(seqs) = n /\ \A i \in 1 .. n : seqs[i] = Piece(msgs, i)
  BY <1>1
<1> HIDE DEF seqs
<1>3. CASE n = 0
  <2>1. FlattenSeq(seqs) = seqs
    BY <1>2, <1>3 DEF FlattenSeq
  <2>2. msgs = <<>>
    BY <1>3
  <2>3. seqs = <<>>
    BY <1>1, <1>3 DEF seqs
  <2> QED BY <2>1, <2>2, <2>3 DEF seqs
<1>4. CASE n # 0
  <2>1. PICK g : /\ FlattenSeq(seqs) = g[Len(seqs)]
                 /\ g[1] = seqs[1]
                 /\ \A i \in 2 .. Len(seqs) : g[i] = g[i - 1] \o seqs[i]
    BY <1>1, <1>2, <1>4, FlattenSeqSteps
  <2> DEFINE Upto(i, e) == /\ g[i] = SubSeq(msgs, 1, e)
                           /\ \A x \in i + 1 .. e : msgs[x].role = "tool"
                           /\ e = n \/ msgs[e + 1].role # "tool"
             S == {i \in 1 .. n : \E e \in i .. n : Upto(i, e)}
  <2>2. 1 \in S
    <3>1. msgs[1].role # "tool"
      <4>1. 1 \in 1 .. Len(msgs) /\ 1 .. 1 - 1 = {}
        BY <1>1, <1>4
      <4> QED BY <4>1, CallOfAResult
    <3>0. 1 \in 1 .. n
      BY <1>1, <1>4
    <3>2. PICK e \in 1 .. n : /\ Piece(msgs, 1) = SubSeq(msgs, 1, e)
                              /\ \A x \in 1 + 1 .. e : msgs[x].role = "tool"
                              /\ e = n \/ msgs[e + 1].role # "tool"
      <4> HIDE DEF S, Upto
      <4> QED BY <3>0, <3>1, PieceEndsItsGroup
    <3>3. g[1] = SubSeq(msgs, 1, e)
      BY <1>2, <2>1, <3>0, <3>2
    <3>4. Upto(1, e)
      BY <3>2, <3>3
    <3> HIDE DEF Upto
    <3> QED BY <3>0, <3>4
  <2>3. ASSUME NEW i \in 1 .. n - 1, i \in S  PROVE i + 1 \in S
    <3>1. /\ i + 1 \in 2 .. n /\ (i + 1) - 1 = i /\ i \in Nat
          /\ i + 1 \in 1 .. Len(msgs)
      BY <1>1
    <3>2. PICK e \in i .. n : Upto(i, e)
      BY <2>3
    <3>2a. /\ g[i] = SubSeq(msgs, 1, e)
           /\ \A x \in i + 1 .. e : msgs[x].role = "tool"
           /\ e = n \/ msgs[e + 1].role # "tool"
      BY <3>2
    <3>2b. e \in Nat /\ e <= n /\ i <= e /\ n \in Nat /\ i < n
      <4> HIDE DEF S, Upto
      <4> QED BY <1>1, <3>1
    <3>3. g[i + 1] = g[i] \o Piece(msgs, i + 1)
      BY <1>2, <2>1, <3>1
    <3> HIDE DEF S, Upto
    <3>4. CASE msgs[i + 1].role = "tool"
      <4>1. Piece(msgs, i + 1) = <<>>
        BY <3>4 DEF Piece
      <4>2. SubSeq(msgs, 1, e) \in Seq(Messages)
        <5>1. \A x \in 1 .. e : msgs[x] \in Messages
          BY <1>1, <3>2b
        <5>2. 1 \in Int /\ e \in Int
          BY <3>2b
        <5> QED BY <5>1, <5>2, SubSeqProperties
      <4>3. g[i + 1] = SubSeq(msgs, 1, e)
        BY <3>2a, <3>3, <4>1, <4>2, ConcatEmptySeq
      <4>4. e # i
        <5>1. SUFFICES ASSUME e = i  PROVE FALSE
          OBVIOUS
        <5>2. e # n
          BY <3>2b, <5>1
        <5> QED BY <3>2a, <3>4, <5>1, <5>2
      <4>5. e \in i + 1 .. n /\ \A x \in (i + 1) + 1 .. e : msgs[x].role = "tool"
        BY <3>1, <3>2a, <3>2b, <4>4
      <4>6. Upto(i + 1, e)
        BY <3>2a, <4>3, <4>5 DEF Upto
      <4> QED BY <3>1, <4>5, <4>6 DEF S
    <3>5. CASE msgs[i + 1].role # "tool"
      <4>1. e = i
        <5>1. SUFFICES ASSUME e # i  PROVE FALSE
          OBVIOUS
        <5>2. i + 1 \in i + 1 .. e
          BY <1>1, <3>1, <5>1
        <5> QED BY <3>2a, <3>5, <5>2
      <4>2. PICK f \in i + 1 .. n : /\ Piece(msgs, i + 1) = SubSeq(msgs, i + 1, f)
                                    /\ \A x \in (i + 1) + 1 .. f : msgs[x].role = "tool"
                                    /\ f = n \/ msgs[f + 1].role # "tool"
        BY <3>1, <3>5, PieceEndsItsGroup
      <4>3. SubSeq(msgs, 1, i) \o SubSeq(msgs, i + 1, f) = SubSeq(msgs, 1, f)
        <5>1. 1 \in 1 .. Len(msgs) + 1 /\ i \in 1 - 1 .. Len(msgs) /\ f \in i .. Len(msgs)
          BY <1>1, <3>1
        <5> QED BY <5>1, ConcatAdjacentSubSeq
      <4>4. g[i + 1] = SubSeq(msgs, 1, f)
        BY <3>2a, <3>3, <4>1, <4>2, <4>3
      <4>5. Upto(i + 1, f)
        BY <4>2, <4>4 DEF Upto
      <4> QED BY <3>1, <4>2, <4>5 DEF S
    <3> QED BY <3>4, <3>5
  <2>4. n \in S
    <3> HIDE DEF S
    <3>1. \A i \in 1 .. n : i \in S
      BY <1>1, <1>4, <2>2, <2>3, SetInduction
    <3> QED BY <1>1, <1>4, <3>1
  <2>5. PICK e \in n .. n : g[n] = SubSeq(msgs, 1, e)
    BY <2>4
  <2>6. e = n
    BY <1>1
  <2> QED BY <1>2, <2>1, <2>5, <2>6, SubSeqFull DEF seqs
<1> QED BY <1>1, <1>3, <1>4 DEF seqs

\* A transcript that is paired is left as it is, whatever ids its calls share: the repair every
\* compaction ends with (compaction.rs, repair_dangling_tool_calls) never touches what a provider
\* would accept.
THEOREM RepairKeepsPaired ==
  ASSUME NEW msgs \in Seq(Messages), Paired(msgs)
  PROVE  RepairDanglingToolCalls(msgs) = msgs
BY RepairOfPieces, PiecesMakeTheWhole

--------------------------------------------------------------------------------
(* Parts of a whole transcript are whole, and so is what is put together from them. *)

\* The results of a turn of this run are of that turn.
PairsOfTurns(msgs) ==
  \A k \in DOMAIN msgs : msgs[k].role = "assistant" /\ msgs[k].turn > 0 =>
    \A j \in DOMAIN msgs[k].ids : msgs[k + j].turn = msgs[k].turn

\* What a request must be.
Whole(msgs) == Paired(msgs) /\ PairsOfTurns(msgs)

\* The tail of a transcript.
LEMMA SubSeqOfMessages ==
  ASSUME NEW msgs \in Seq(Messages), NEW s \in 0 .. Len(msgs)
  PROVE  /\ SubSeq(msgs, s + 1, Len(msgs)) \in Seq(Messages)
         /\ Len(SubSeq(msgs, s + 1, Len(msgs))) = Len(msgs) - s
         /\ \A i \in 1 .. Len(msgs) - s : SubSeq(msgs, s + 1, Len(msgs))[i] = msgs[s + i]
<1>1. \A i \in s + 1 .. Len(msgs) : msgs[i] \in Messages
  OBVIOUS
<1>2. s + 1 \in Int /\ Len(msgs) \in Int /\ s \in Nat /\ s <= Len(msgs)
  OBVIOUS
<1>3. /\ SubSeq(msgs, s + 1, Len(msgs)) \in Seq(Messages)
      /\ Len(SubSeq(msgs, s + 1, Len(msgs)))
           = IF s + 1 <= Len(msgs) THEN Len(msgs) - (s + 1) + 1 ELSE 0
      /\ \A i \in 1 .. Len(msgs) - (s + 1) + 1 :
           SubSeq(msgs, s + 1, Len(msgs))[i] = msgs[(s + 1) + i - 1]
  BY <1>1, <1>2, SubSeqProperties
<1>4. Len(msgs) - (s + 1) + 1 = Len(msgs) - s /\ (s + 1 > Len(msgs) => Len(msgs) - s = 0)
  BY <1>2
<1>5. \A i \in 1 .. Len(msgs) - s : (s + 1) + i - 1 = s + i
  BY <1>2
<1>6. Len(SubSeq(msgs, s + 1, Len(msgs))) = Len(msgs) - s
  <2>1. CASE s + 1 <= Len(msgs)
    BY <1>3, <1>4, <2>1
  <2>2. CASE s + 1 > Len(msgs)
    BY <1>2, <1>3, <1>4, <2>2
  <2> QED BY <1>2, <2>1, <2>2
<1>7. \A i \in 1 .. Len(msgs) - s : SubSeq(msgs, s + 1, Len(msgs))[i] = msgs[s + i]
  BY <1>3, <1>4, <1>5
<1> QED BY <1>3, <1>6, <1>7

\* A transcript with messages behind it.
LEMMA ConcatOfMessages ==
  ASSUME NEW s \in Seq(Messages), NEW t \in Seq(Messages)
  PROVE  /\ s \o t \in Seq(Messages)
         /\ Len(s \o t) = Len(s) + Len(t)
         /\ Len(s) \in Nat /\ Len(t) \in Nat
         /\ DOMAIN s = 1 .. Len(s) /\ DOMAIN t = 1 .. Len(t)
         /\ DOMAIN (s \o t) = 1 .. Len(s) + Len(t)
         /\ \A i \in 1 .. Len(s) : (s \o t)[i] = s[i]
         /\ \A i \in 1 .. Len(t) : (s \o t)[Len(s) + i] = t[i]
<1>1. /\ s \o t \in Seq(Messages)
      /\ Len(s \o t) = Len(s) + Len(t)
      /\ Len(s) \in Nat /\ Len(t) \in Nat
      /\ \A i \in 1 .. Len(s) + Len(t) :
           (s \o t)[i] = IF i <= Len(s) THEN s[i] ELSE t[i - Len(s)]
  BY ConcatProperties
<1>2. \A i \in 1 .. Len(s) : (s \o t)[i] = s[i]
  BY <1>1
<1>3. ASSUME NEW i \in 1 .. Len(t)  PROVE (s \o t)[Len(s) + i] = t[i]
  <2>1. Len(s) + i \in 1 .. Len(s) + Len(t) /\ ~(Len(s) + i <= Len(s)) /\ (Len(s) + i) - Len(s) = i
    BY <1>1
  <2> QED BY <1>1, <2>1
<1> QED BY <1>1, <1>2, <1>3

\* Two whole transcripts, one behind the other, are whole.
LEMMA WholeConcat ==
  ASSUME NEW s \in Seq(Messages), NEW t \in Seq(Messages), Whole(s), Whole(t)
  PROVE  Whole(s \o t)
<1> DEFINE u == s \o t
           m == Len(s)
           n == Len(t)
<1>1. /\ u \in Seq(Messages) /\ Len(u) = m + n /\ m \in Nat /\ n \in Nat
      /\ DOMAIN s = 1 .. m /\ DOMAIN t = 1 .. n /\ DOMAIN u = 1 .. m + n
      /\ \A i \in 1 .. m : u[i] = s[i]
      /\ \A i \in 1 .. n : u[m + i] = t[i]
  BY ConcatOfMessages
<1>2. /\ Paired(s) /\ PairsOfTurns(s)
      /\ Paired(t) /\ PairsOfTurns(t)
  BY DEF Whole
<1> HIDE DEF u, m, n
<1>3. ASSUME NEW k \in 1 .. m, s[k].role = "assistant"
      PROVE  /\ CallsAnswered(u, k)
             /\ s[k].turn > 0 => \A j \in DOMAIN s[k].ids : u[k + j].turn = s[k].turn
  <2>1. /\ Len(s[k].ids) \in Nat
        /\ k + Len(s[k].ids) <= m
        /\ \A j \in 1 .. Len(s[k].ids) :
             s[k + j].role = "tool" /\ s[k + j].ids = <<s[k].ids[j]>>
    BY <1>2, <1>3, ResultsBehindTheirCall DEF m
  <2>2. u[k] = s[k] /\ \A j \in 1 .. Len(s[k].ids) : u[k + j] = s[k + j]
    BY <1>1, <2>1
  <2>3. DOMAIN s[k].ids = 1 .. Len(s[k].ids)
    BY MessageAt DEF m
  <2>4. CallsAnswered(u, k)
    BY <1>1, <2>1, <2>2 DEF CallsAnswered
  <2> QED BY <1>1, <1>2, <1>3, <2>2, <2>3, <2>4 DEF PairsOfTurns
<1>4. ASSUME NEW k \in 1 .. n, t[k].role = "assistant"
      PROVE  /\ CallsAnswered(u, m + k)
             /\ t[k].turn > 0 => \A j \in DOMAIN t[k].ids : u[m + k + j].turn = t[k].turn
  <2>1. /\ Len(t[k].ids) \in Nat
        /\ k + Len(t[k].ids) <= n
        /\ \A j \in 1 .. Len(t[k].ids) :
             t[k + j].role = "tool" /\ t[k + j].ids = <<t[k].ids[j]>>
    BY <1>2, <1>4, ResultsBehindTheirCall DEF n
  <2>2. ASSUME NEW j \in 1 .. Len(t[k].ids)  PROVE u[m + k + j] = t[k + j]
    <3>1. k + j \in 1 .. n /\ m + k + j = m + (k + j)
      BY <1>1, <2>1
    <3> QED BY <1>1, <3>1
  <2>3. u[m + k] = t[k]
    BY <1>1
  <2>4. DOMAIN t[k].ids = 1 .. Len(t[k].ids)
    BY MessageAt DEF n
  <2>5. CallsAnswered(u, m + k)
    <3>1. (m + k) + Len(u[m + k].ids) <= Len(u)
      <4>1. Len(u[m + k].ids) = Len(t[k].ids)
        BY <2>3
      <4>2. (m + k) + Len(t[k].ids) <= m + n
        <5>1. m \in Nat /\ n \in Nat
          BY <1>1
        <5>2. Len(t[k].ids) \in Nat /\ k + Len(t[k].ids) <= n
          BY <2>1
        <5>3. PICK l \in Nat : l = Len(t[k].ids)
          BY <5>2
        <5>4. k + l <= n
          BY <5>2, <5>3
        <5>5. (m + k) + l <= m + n
          BY <5>1, <5>4
        <5> QED BY <5>3, <5>5
      <4> QED BY <1>1, <4>1, <4>2
    <3>2. \A j \in 1 .. Len(u[m + k].ids) :
            /\ u[(m + k) + j].role = "tool"
            /\ u[(m + k) + j].ids = <<u[m + k].ids[j]>>
      BY <2>1, <2>2, <2>3
    <3> QED BY <3>1, <3>2 DEF CallsAnswered
  <2> QED BY <1>1, <1>2, <1>4, <2>2, <2>3, <2>4, <2>5 DEF PairsOfTurns
<1>5. ASSUME NEW i \in 1 .. m, s[i].role = "tool"  PROVE HasItsCall(u, i)
  <2>1. PICK k \in 1 .. i - 1 : s[k].role = "assistant" /\ i - k <= Len(s[k].ids)
    BY <1>1, <1>2, <1>5 DEF Paired, HasItsCall, RoleAt
  <2>2. u[k] = s[k]
    BY <1>1
  <2> QED BY <2>1, <2>2 DEF HasItsCall, RoleAt
<1>6. ASSUME NEW i \in 1 .. n, t[i].role = "tool"  PROVE HasItsCall(u, m + i)
  <2>1. PICK k \in 1 .. i - 1 : t[k].role = "assistant" /\ i - k <= Len(t[k].ids)
    BY <1>1, <1>2, <1>6 DEF Paired, HasItsCall, RoleAt
  <2>2. u[m + k] = t[k] /\ m + k \in 1 .. (m + i) - 1 /\ (m + i) - (m + k) = i - k
    BY <1>1
  <2> QED BY <2>1, <2>2 DEF HasItsCall, RoleAt
<1>7. \A i \in 1 .. m + n : i \in 1 .. m \/ (i - m \in 1 .. n /\ i = m + (i - m))
  BY <1>1
<1>8. ASSUME NEW i \in 1 .. m + n, u[i].role = "assistant"
      PROVE  CallsAnswered(u, i)
  BY <1>1, <1>3, <1>4, <1>7, <1>8
<1>9. ASSUME NEW i \in 1 .. m + n, u[i].role = "tool"  PROVE HasItsCall(u, i)
  BY <1>1, <1>5, <1>6, <1>7, <1>9
<1>10. ASSUME NEW i \in 1 .. m + n, u[i].role = "assistant", u[i].turn > 0,
              NEW j \in DOMAIN u[i].ids
       PROVE  u[i + j].turn = u[i].turn
  <2>1. CASE i \in 1 .. m
    <3>1. u[i] = s[i]
      BY <1>1, <2>1
    <3> QED BY <1>3, <1>10, <2>1, <3>1
  <2>2. CASE i - m \in 1 .. n /\ i = m + (i - m)
    <3>1. PICK k \in 1 .. n : i = m + k
      BY <2>2
    <3>2. u[i] = t[k]
      BY <1>1, <3>1
    <3> QED BY <1>4, <1>10, <3>1, <3>2
  <2> QED BY <1>7, <2>1, <2>2
<1>11. Paired(u) /\ PairsOfTurns(u)
  BY <1>1, <1>8, <1>9, <1>10 DEF Paired, PairsOfTurns, RoleAt
<1> QED BY <1>11 DEF Whole, u

\* A whole transcript can be cut in front of any message that is not a result.
LEMMA WholeTail ==
  ASSUME NEW msgs \in Seq(Messages), Whole(msgs), NEW s \in 0 .. Len(msgs),
         s < Len(msgs) => msgs[s + 1].role # "tool"
  PROVE  Whole(SubSeq(msgs, s + 1, Len(msgs)))
<1> DEFINE u == SubSeq(msgs, s + 1, Len(msgs))
           n == Len(msgs) - s
<1>1. /\ u \in Seq(Messages) /\ Len(u) = n /\ n \in Nat /\ s \in Nat /\ Len(msgs) = s + n
      /\ DOMAIN u = 1 .. n /\ DOMAIN msgs = 1 .. Len(msgs)
      /\ \A i \in 1 .. n : u[i] = msgs[s + i]
  <2>1. u \in Seq(Messages) /\ Len(u) = n /\ \A i \in 1 .. n : u[i] = msgs[s + i]
    BY SubSeqOfMessages
  <2>2. s \in Nat /\ Len(msgs) \in Nat /\ s <= Len(msgs) /\ DOMAIN msgs = 1 .. Len(msgs)
    OBVIOUS
  <2>3. n \in Nat /\ Len(msgs) = s + n
    BY <2>2
  <2> HIDE DEF u
  <2>4. DOMAIN u = 1 .. n
    BY <2>1
  <2> QED BY <2>1, <2>2, <2>3, <2>4
<1>2. Paired(msgs) /\ PairsOfTurns(msgs)
  BY DEF Whole
<1> HIDE DEF u, n
<1>3. ASSUME NEW k \in 1 .. n, u[k].role = "assistant"
      PROVE  /\ CallsAnswered(u, k)
             /\ u[k].turn > 0 => \A j \in DOMAIN u[k].ids : u[k + j].turn = u[k].turn
  <2>1. s + k \in 1 .. Len(msgs) /\ u[k] = msgs[s + k]
    BY <1>1
  <2>2. /\ Len(u[k].ids) \in Nat
        /\ (s + k) + Len(u[k].ids) <= Len(msgs)
        /\ \A j \in 1 .. Len(u[k].ids) :
             msgs[(s + k) + j].role = "tool" /\ msgs[(s + k) + j].ids = <<u[k].ids[j]>>
    <3>1. PICK c \in 1 .. Len(msgs) : c = s + k
      BY <2>1
    <3>2. u[k] = msgs[c] /\ msgs[c].role = "assistant"
      BY <1>3, <2>1, <3>1
    <3>3. /\ Len(msgs[c].ids) \in Nat
          /\ c + Len(msgs[c].ids) <= Len(msgs)
          /\ \A j \in 1 .. Len(msgs[c].ids) :
               msgs[c + j].role = "tool" /\ msgs[c + j].ids = <<msgs[c].ids[j]>>
      BY <1>2, <3>2, ResultsBehindTheirCall
    <3> QED BY <3>1, <3>2, <3>3
  <2>3. ASSUME NEW j \in 1 .. Len(u[k].ids)  PROVE u[k + j] = msgs[(s + k) + j]
    <3>1. k + j \in 1 .. n /\ (s + k) + j = s + (k + j)
      <4>1. s \in Nat /\ n \in Nat /\ Len(msgs) = s + n
        BY <1>1
      <4>2. Len(u[k].ids) \in Nat /\ (s + k) + Len(u[k].ids) <= Len(msgs)
        BY <2>2
      <4>3. PICK l \in Nat : l = Len(u[k].ids)
        BY <4>2
      <4>4. j \in 1 .. l /\ (s + k) + l <= s + n
        BY <4>1, <4>2, <4>3
      <4> QED BY <4>1, <4>4
    <3> QED BY <1>1, <3>1
  <2>4. DOMAIN u[k].ids = 1 .. Len(u[k].ids)
    BY <1>1, <1>3, MessageAt
  <2>5. CallsAnswered(u, k)
    <3>1. k + Len(u[k].ids) <= n
      BY <1>1, <2>2
    <3> QED BY <1>1, <2>2, <2>3, <3>1 DEF CallsAnswered
  <2>6. u[k].turn > 0 => \A j \in DOMAIN u[k].ids : msgs[(s + k) + j].turn = u[k].turn
    BY <1>1, <1>2, <1>3, <2>1 DEF PairsOfTurns
  <2> QED BY <2>3, <2>4, <2>5, <2>6
<1>4. ASSUME NEW i \in 1 .. n, u[i].role = "tool"  PROVE HasItsCall(u, i)
  <2>1. s + i \in 1 .. Len(msgs) /\ u[i] = msgs[s + i]
    BY <1>1
  <2>2. PICK k \in 1 .. (s + i) - 1 :
          /\ msgs[k].role = "assistant"
          /\ (s + i) - k \in 1 .. Len(msgs[k].ids)
          /\ \A e \in k + 1 .. s + i : msgs[e].role = "tool"
    <3>1. PICK x \in 1 .. Len(msgs) : x = s + i
      BY <2>1
    <3>2. msgs[x].role = "tool"
      BY <1>4, <2>1, <3>1
    <3>3. \E k \in 1 .. x - 1 : /\ msgs[k].role = "assistant"
                                /\ x - k \in 1 .. Len(msgs[k].ids)
                                /\ \A e \in k + 1 .. x : msgs[e].role = "tool"
      BY <1>2, <3>2, CallOfAResult, Zenon
    <3> QED BY <3>1, <3>3
  <2>3. k > s
    <3>1. SUFFICES ASSUME k <= s  PROVE FALSE
      BY <1>1, <2>1
    <3>2. s + 1 \in k + 1 .. s + i /\ s < Len(msgs)
      BY <1>1, <3>1
    <3> QED BY <2>2, <3>2
  <2>4. k - s \in 1 .. i - 1 /\ k - s \in 1 .. n /\ s + (k - s) = k
    BY <1>1, <2>3
  <2>5. u[k - s] = msgs[k] /\ i - (k - s) = (s + i) - k
    BY <1>1, <2>4
  <2>6. i - (k - s) <= Len(u[k - s].ids)
    <3>1. Len(msgs[k].ids) \in Nat
      BY <1>1, <2>2, MessageAt
    <3> QED BY <2>2, <2>5, <3>1
  <2> QED BY <2>2, <2>4, <2>5, <2>6 DEF HasItsCall, RoleAt
<1>5. Paired(u) /\ PairsOfTurns(u)
  BY <1>1, <1>3, <1>4 DEF Paired, PairsOfTurns, RoleAt
<1> QED BY <1>5 DEF Whole, u

\* A transcript that is paired has no orphans to drop.
LEMMA DropKeepsPaired ==
  ASSUME NEW msgs \in Seq(Messages), Paired(msgs)
  PROVE  DropOrphanToolResults(msgs) = msgs
<1> DEFINE Known(i) == \E k \in 1 .. i - 1 : /\ RoleAt(msgs, k) = "assistant"
                                             /\ msgs[i].ids[1] \in ToSet(msgs[k].ids)
           Kept(i) == IF RoleAt(msgs, i) = "tool" /\ ~Known(i) THEN <<>> ELSE <<msgs[i]>>
           seqs == [i \in DOMAIN msgs |-> Kept(i)]
<1>1. DropOrphanToolResults(msgs) = FlattenSeq(seqs)
  BY DEF DropOrphanToolResults
<1>2. DOMAIN msgs = 1 .. Len(msgs) /\ Len(msgs) \in Nat
  OBVIOUS
<1>3. ASSUME NEW i \in 1 .. Len(msgs), msgs[i].role = "tool"  PROVE Known(i)
  <2>1. PICK k \in 1 .. i - 1 : msgs[k].role = "assistant" /\ i - k \in 1 .. Len(msgs[k].ids)
    BY <1>3, CallOfAResult
  <2>2. k \in 1 .. Len(msgs) /\ k + (i - k) = i
    BY <1>2
  <2>3. msgs[k + (i - k)].ids = <<msgs[k].ids[i - k]>>
    BY <2>1, <2>2, ResultsBehindTheirCall
  <2>4. msgs[i].ids[1] = msgs[k].ids[i - k]
    BY <2>2, <2>3
  <2>5. i - k \in DOMAIN msgs[k].ids
    BY <2>1, <2>2, MessageAt
  <2> QED BY <2>1, <2>4, <2>5 DEF ToSet, RoleAt
<1>4. \A i \in 1 .. Len(msgs) : Kept(i) = <<msgs[i]>>
  BY <1>3 DEF RoleAt
<1>5. /\ Len(seqs) = Len(msgs)
      /\ \A i \in 1 .. Len(msgs) : seqs[i] = <<msgs[i]>>
  BY <1>2, <1>4
<1>6. Len(msgs) = 0 => seqs = msgs
  <2>1. ASSUME Len(msgs) = 0  PROVE seqs = <<>> /\ msgs = <<>>
    <3>1. DOMAIN msgs = {}
      BY <1>2, <2>1
    <3> QED BY <2>1, <3>1
  <2> QED BY <2>1
<1> HIDE DEF seqs
<1> QED BY <1>1, <1>5, <1>6, FlattenSeqOfSingletons

\* A summary never splits an answer from its results.
LEMMA SplitStandsBeforeAGroup ==
  ASSUME NEW msgs \in Seq(Messages), Paired(msgs), NEW keep \in Nat
  PROVE  LET s == ChooseSummarySplit(msgs, keep)
         IN /\ s \in 0 .. Len(msgs)
            /\ s = 0 \/ s <= Len(msgs) - keep
            /\ s < Len(msgs) => msgs[s + 1].role # "tool"
<1> DEFINE s == ChooseSummarySplit(msgs, keep)
           C == {i \in 0 .. Len(msgs) - keep : i = 0 \/ RoleAt(msgs, i + 1) # "tool"}
<1>0. Len(msgs) \in Nat
  OBVIOUS
<1>1. s = IF Len(msgs) <= keep THEN 0 ELSE Max(C)
  BY DEF ChooseSummarySplit
<1>2. ASSUME Len(msgs) # 0  PROVE msgs[1].role # "tool"
  <2>1. 1 \in 1 .. Len(msgs) /\ 1 .. 1 - 1 = {}
    BY <1>0, <1>2
  <2> QED BY <2>1, CallOfAResult
<1>3. CASE Len(msgs) <= keep
  BY <1>0, <1>1, <1>2, <1>3
<1>4. CASE Len(msgs) > keep
  <2>1. C \in SUBSET Nat /\ 0 \in C /\ \A i \in C : i <= Len(msgs)
    BY <1>0, <1>4
  <2>2. Max(C) \in C
    <3> HIDE DEF C
    <3> QED BY <1>0, <2>1, GreatestNatural
  <2>3. s \in C
    BY <1>0, <1>1, <1>4, <2>2
  <2>4. /\ s \in 0 .. Len(msgs) - keep
        /\ s = 0 \/ msgs[s + 1].role # "tool"
    BY <2>3 DEF RoleAt
  <2> HIDE DEF s
  <2>5. s = 0 /\ s < Len(msgs) => msgs[s + 1].role # "tool"
    BY <1>0, <1>2
  <2>6. s \in 0 .. Len(msgs) /\ s <= Len(msgs) - keep
    BY <1>0, <1>4, <2>4
  <2>7. s < Len(msgs) => msgs[s + 1].role # "tool"
    BY <2>4, <2>5
  <2> QED BY <2>6, <2>7 DEF s
<1> QED BY <1>0, <1>3, <1>4

\* Messages without calls are whole.
LEMMA WithoutCallsIsWhole ==
  ASSUME NEW msgs \in Seq(Messages),
         \A i \in 1 .. Len(msgs) : msgs[i].role # "tool",
         \A i \in 1 .. Len(msgs) : msgs[i].role = "assistant" => msgs[i].ids = <<>>
  PROVE  Whole(msgs)
<1>1. DOMAIN msgs = 1 .. Len(msgs) /\ Len(msgs) \in Nat
  OBVIOUS
<1>2. ASSUME NEW k \in 1 .. Len(msgs), msgs[k].role = "assistant"
      PROVE  CallsAnswered(msgs, k) /\ DOMAIN msgs[k].ids = {}
  <2>1. msgs[k].ids = <<>> /\ Len(<<>>) = 0 /\ 1 .. 0 = {} /\ DOMAIN <<>> = {}
    BY <1>2
  <2>2. k + 0 <= Len(msgs)
    BY <1>1
  <2> QED BY <2>1, <2>2 DEF CallsAnswered
<1>3. Paired(msgs)
  <2>1. \A k \in 1 .. Len(msgs) : msgs[k].role = "assistant" => CallsAnswered(msgs, k)
    BY <1>2
  <2>2. \A k \in 1 .. Len(msgs) : msgs[k].role # "tool"
    OBVIOUS
  <2> QED BY <1>1, <2>1, <2>2 DEF Paired, RoleAt
<1>4. PairsOfTurns(msgs)
  BY <1>1, <1>2 DEF PairsOfTurns
<1> QED BY <1>3, <1>4 DEF Whole

\* A summary of a whole transcript is the system message and an untouched tail: nothing was
\* dropped from it and nothing had to be repaired (compaction.rs, apply_model_summary).
THEOREM SummaryOfWhole ==
  ASSUME NEW msgs \in Seq(Messages), Whole(msgs), NEW keep \in Nat, NEW turn \in Int
  PROVE  LET s == ChooseSummarySplit(msgs, keep)
             new == ApplyModelSummary(msgs, s, turn)
         IN /\ new = <<Message("system", <<>>, turn)>> \o SubSeq(msgs, s + 1, Len(msgs))
            /\ new \in Seq(Messages)
            /\ Whole(new)
<1> DEFINE s == ChooseSummarySplit(msgs, keep)
           tail == SubSeq(msgs, s + 1, Len(msgs))
           head == <<Message("system", <<>>, turn)>>
<1>1. s \in 0 .. Len(msgs) /\ (s < Len(msgs) => msgs[s + 1].role # "tool")
  BY SplitStandsBeforeAGroup DEF Whole
<1>0. ApplyModelSummary(msgs, s, turn)
        = head \o RepairDanglingToolCalls(DropOrphanToolResults(tail))
  BY DEF ApplyModelSummary
<1> HIDE DEF s
<1>2. tail \in Seq(Messages)
  BY <1>1, SubSeqOfMessages
<1>3. Whole(tail)
  BY <1>1, WholeTail
<1> HIDE DEF tail
<1>4. RepairDanglingToolCalls(DropOrphanToolResults(tail)) = tail
  BY <1>2, <1>3, DropKeepsPaired, RepairKeepsPaired DEF Whole
<1>5. /\ Message("system", <<>>, turn) \in Messages
      /\ Message("system", <<>>, turn).role = "system"
  BY DEF Message, Messages, Roles
<1>6. head \in Seq(Messages) /\ Whole(head)
  <2>1. /\ head \in Seq(Messages) /\ Len(head) = 1
        /\ \A i \in 1 .. Len(head) : head[i].role = "system"
    BY <1>5
  <2> HIDE DEF head
  <2> QED BY <2>1, WithoutCallsIsWhole
<1> HIDE DEF head
<1>7. head \o tail \in Seq(Messages) /\ Whole(head \o tail)
  BY <1>2, <1>3, <1>6, WholeConcat, ConcatOfMessages
<1> QED BY <1>0, <1>4, <1>7 DEF s, tail, head

\* An answer and the results of its calls.
LEMMA BatchIsWhole ==
  ASSUME NEW ids \in Seq(CallIds), NEW turn \in Int
  PROVE  LET msgs == <<Message("assistant", ids, turn)>>
                       \o [i \in DOMAIN ids |-> Message("tool", <<ids[i]>>, turn)]
         IN msgs \in Seq(Messages) /\ Whole(msgs)
<1> DEFINE head == <<Message("assistant", ids, turn)>>
           results == [i \in DOMAIN ids |-> Message("tool", <<ids[i]>>, turn)]
           msgs == head \o results
           n == Len(ids)
<1>1. n \in Nat /\ DOMAIN ids = 1 .. n
  OBVIOUS
<1>2. /\ Message("assistant", ids, turn) \in Messages
      /\ Message("assistant", ids, turn).role = "assistant"
      /\ Message("assistant", ids, turn).ids = ids
      /\ Message("assistant", ids, turn).turn = turn
  BY DEF Message, Messages, Roles
<1>3. head \in Seq(Messages) /\ Len(head) = 1 /\ head[1] = Message("assistant", ids, turn)
  BY <1>2
<1>4. \A i \in 1 .. n : Message("tool", <<ids[i]>>, turn) \in Messages
  BY DEF Message, Messages, Roles
<1>5. /\ results \in Seq(Messages) /\ Len(results) = n
      /\ \A i \in 1 .. n : results[i] = Message("tool", <<ids[i]>>, turn)
  BY <1>1, <1>4
<1> HIDE DEF head, results
<1>6. /\ msgs \in Seq(Messages) /\ Len(msgs) = 1 + n /\ DOMAIN msgs = 1 .. 1 + n
      /\ msgs[1] = Message("assistant", ids, turn)
      /\ \A i \in 1 .. n : msgs[1 + i] = Message("tool", <<ids[i]>>, turn)
  <2>1. 1 \in 1 .. Len(head)
    BY <1>3
  <2>2. /\ msgs \in Seq(Messages)
        /\ Len(msgs) = Len(head) + Len(results)
        /\ DOMAIN msgs = 1 .. Len(head) + Len(results)
        /\ \A i \in 1 .. Len(head) : msgs[i] = head[i]
        /\ \A i \in 1 .. Len(results) : msgs[Len(head) + i] = results[i]
    BY <1>3, <1>5, ConcatOfMessages
  <2>3. msgs[1] = head[1]
    BY <2>1, <2>2
  <2>4. \A i \in 1 .. n : msgs[1 + i] = results[i]
    BY <1>3, <1>5, <2>2
  <2> HIDE DEF msgs
  <2> QED BY <1>3, <1>5, <2>2, <2>3, <2>4
<1> HIDE DEF msgs, n
<1>7. \A i \in 1 .. n : /\ msgs[1 + i].role = "tool" /\ msgs[1 + i].ids = <<ids[i]>>
                       /\ msgs[1 + i].turn = turn
  <2> SUFFICES ASSUME NEW i \in 1 .. n
               PROVE  /\ msgs[1 + i].role = "tool" /\ msgs[1 + i].ids = <<ids[i]>>
                      /\ msgs[1 + i].turn = turn
    OBVIOUS
  <2>1. msgs[1 + i] = Message("tool", <<ids[i]>>, turn)
    BY <1>6
  <2> QED BY <2>1 DEF Message
<1>8. /\ msgs[1].role = "assistant" /\ msgs[1].ids = ids /\ msgs[1].turn = turn
  BY <1>2, <1>6
<1>9. ASSUME NEW k \in 1 .. 1 + n, k # 1  PROVE msgs[k].role = "tool" /\ HasItsCall(msgs, k)
  <2>1. k - 1 \in 1 .. n /\ 1 + (k - 1) = k /\ 1 \in 1 .. k - 1
    BY <1>1, <1>9
  <2>2. msgs[k].role = "tool"
    BY <1>7, <2>1
  <2>3. k - 1 <= Len(msgs[1].ids)
    BY <1>1, <1>8, <2>1 DEF n
  <2> QED BY <1>8, <2>1, <2>2, <2>3 DEF HasItsCall, RoleAt
<1>10. CallsAnswered(msgs, 1)
  BY <1>1, <1>6, <1>7, <1>8 DEF CallsAnswered, n
<1>11. Paired(msgs)
  BY <1>6, <1>8, <1>9, <1>10 DEF Paired, RoleAt
<1>12. PairsOfTurns(msgs)
  BY <1>1, <1>6, <1>7, <1>8, <1>9 DEF PairsOfTurns
<1> QED BY <1>6, <1>11, <1>12 DEF Whole, msgs, head, results

--------------------------------------------------------------------------------
(* The engine. Its steps are first reduced to what the invariants can tell apart: where
   it stands, the messages, the facts that may have been appended, the inputs. *)

\* The awaits between a request and its answer.
Asked == {"connect", "backoff", "stream", "received", "overflow"}
\* The awaits between two turns.
Closed == {"top", "follow_up", "steer", "compact", "boundary"}
\* What an answer is collected to.
Replies == [text : BOOLEAN, calls : Seq(CallIds), reason : StopReasons \cup {"none"}]

\* A prepared call.
BatchCalls == [id : CallIds, rejected : BOOLEAN]

\* Where the engine stands, and the types of its variables.
Types ==
  /\ pc \in {"hooks", "execute", "ended"} \cup Asked \cup Closed
  /\ outcome \in Outcomes \cup {"none"}
  /\ pc # "ended" => outcome = "none"
  /\ step \in Nat /\ step <= MaxSteps
  /\ pc = "hooks" => step = 0
  /\ pc \in Asked \cup {"execute"} => step > 0
  /\ reply \in Replies /\ Len(reply.calls) <= MaxBatch
  /\ batch \in Seq(BatchCalls)
  /\ Len(batch) <= MaxBatch
  /\ together \in BOOLEAN /\ poisoned \in BOOLEAN /\ cancelled \in BOOLEAN
  /\ at \in Nat \ {0}
  /\ ran \subseteq Nat \X Nat
  /\ facts \subseteq FactKinds \X Nat \X Nat
  /\ acked \subseteq Inputs
  /\ faults \in Nat

\* The transcript is whole wherever the engine stands, not only in a request.
WholeTranscript == transcript \in Seq(Messages) /\ Whole(transcript)

\* A list of one fact.
LEMMA ToSetOfOne ==
  ASSUME NEW a  PROVE ToSet(<<a>>) = {a}
BY DEF ToSet

\* A list of two facts.
LEMMA ToSetOfTwo ==
  ASSUME NEW a, NEW b  PROVE ToSet(<<a, b>>) = {a, b}
<1>1. DOMAIN <<a, b>> = {1, 2} /\ <<a, b>>[1] = a /\ <<a, b>>[2] = b
  OBVIOUS
<1> QED BY <1>1 DEF ToSet

\* What a write that fails leaves of the facts it was to append.
LEMMA FailedCommit ==
  ASSUME NEW A, NEW fs \in Seq(A), CommitFails(fs)
  PROVE  /\ facts \subseteq facts' /\ facts' \subseteq facts \cup ToSet(fs)
         /\ faults > 0 /\ faults' = faults - 1
         /\ pc' = "ended" /\ outcome' = "error"
<1>1. PICK n \in 0 .. Len(fs) - 1 : facts' = facts \cup ToSet(SubSeq(fs, 1, n))
  BY DEF CommitFails
<1>2. Len(fs) \in Nat /\ DOMAIN fs = 1 .. Len(fs) /\ n \in Nat /\ n <= Len(fs)
  OBVIOUS
<1>3. /\ SubSeq(fs, 1, n) \in Seq(A)
      /\ Len(SubSeq(fs, 1, n)) = IF 1 <= n THEN n - 1 + 1 ELSE 0
      /\ \A i \in 1 .. n - 1 + 1 : SubSeq(fs, 1, n)[i] = fs[1 + i - 1]
  <2>1. \A i \in 1 .. n : fs[i] \in A
    BY <1>2
  <2>2. 1 \in Int /\ n \in Int
    BY <1>2
  <2> QED BY <2>1, <2>2, SubSeqProperties
<1>4. ToSet(SubSeq(fs, 1, n)) \subseteq ToSet(fs)
  <2> SUFFICES ASSUME NEW i \in DOMAIN SubSeq(fs, 1, n)
               PROVE  SubSeq(fs, 1, n)[i] \in ToSet(fs)
    BY DEF ToSet
  <2>1. i \in 1 .. n
    BY <1>2, <1>3
  <2>2. i \in DOMAIN fs /\ SubSeq(fs, 1, n)[i] = fs[i]
    BY <1>2, <1>3, <2>1
  <2> QED BY <2>2 DEF ToSet
<1> QED BY <1>1, <1>4 DEF CommitFails, End

\* The facts of the step are the old ones and some of "new".
Appends(new) ==
  /\ facts \subseteq facts' /\ facts' \subseteq facts \cup new
  /\ faults' = faults \/ (faults > 0 /\ faults' = faults - 1)

\* The facts that close a turn.
Closing == {Fact("MessageCompleted", step), Fact("TurnCompleted", step)}

\* TurnClosing lists them.
LEMMA TurnClosingFacts ==
  /\ TurnClosing \in Seq(Closing)
  /\ ToSet(TurnClosing) = Closing
<1>1. TurnClosing = <<Fact("MessageCompleted", step), Fact("TurnCompleted", step)>>
  BY DEF TurnClosing
<1> HIDE DEF TurnClosing
<1>2. Fact("MessageCompleted", step) \in Closing /\ Fact("TurnCompleted", step) \in Closing
  BY DEF Closing
<1> QED BY <1>1, <1>2, ToSetOfTwo DEF Closing

\* What is in the journal when they were appended, or one of them was not.
LEMMA CommitOfClosing ==
  /\ Commit(TurnClosing) => facts' = facts \cup Closing /\ faults' = faults
  /\ CommitFails(TurnClosing) => Appends(Closing) /\ pc' = "ended" /\ outcome' = "error"
BY TurnClosingFacts, FailedCommit DEF Commit, Appends

\* What close_failed_turn leaves.
LEMMA ClosedTurn ==
  ASSUME NEW o, CloseTurn(o)
  PROVE  /\ pc' = "ended" /\ Appends(Closing)
         /\ outcome' = "error" \/ (outcome' = o /\ Closing \subseteq facts')
         /\ UNCHANGED <<transcript, step, reply, toolVars, cancelled, acked, sent>>
BY CommitOfClosing DEF CloseTurn, Appends, End, turnVars

--------------------------------------------------------------------------------
(* Asking the provider and reading its answer. *)

\* The steps that ask the provider or read its answer.
AskingSteps == Connected \/ ConnectFails \/ Backoff \/ Streaming

\* The fact an answer leaves.
Sending == {Fact("GenerationAttemptCommitted", step)}

\* What every step has in common that asks the provider or reads what it answers.
AskedMoves ==
  /\ pc \in Asked /\ pc' \in Asked \cup {"ended"}
  /\ UNCHANGED <<transcript, step, toolVars, cancelled, acked>>
  /\ Appends(Closing \cup Sending)
  /\ sent' = IF pc' = "connect" THEN Shown(transcript, summary.replaced) ELSE sent
  /\ reply' \in Replies /\ Len(reply'.calls) <= MaxBatch
  /\ \/ pc' # "ended" /\ outcome' = outcome
     \/ pc' = "ended" /\ outcome' = "error"
     \/ pc' = "ended" /\ outcome' = "cancelled" /\ Closing \subseteq facts'

\* What is in the journal when it was appended, or was not.
LEMMA CommitOfSending ==
  LET fs == <<Fact("GenerationAttemptCommitted", step)>>
  IN /\ Commit(fs) => Appends(Sending)
     /\ CommitFails(fs) => Appends(Sending) /\ pc' = "ended" /\ outcome' = "error"
<1> DEFINE f == Fact("GenerationAttemptCommitted", step)
<1>1. ToSet(<<f>>) = {f} /\ <<f>> \in Seq({f})
  BY ToSetOfOne
<1> QED BY <1>1, FailedCommit DEF Commit, Appends, Sending

\* Some of X are some of Y.
LEMMA AppendsMore ==
  ASSUME NEW X, NEW Y, X \subseteq Y, Appends(X)  PROVE Appends(Y)
BY DEF Appends

\* Nothing is some of anything.
LEMMA NothingAppended ==
  ASSUME NEW X, UNCHANGED <<facts, faults>>  PROVE Appends(X)
BY DEF Appends

\* A turn that is closed while it waits for its answer.
LEMMA ClosedWhileAsked ==
  ASSUME Types, pc \in Asked, NEW o \in {"error", "cancelled"}, CloseTurn(o)
  PROVE  AskedMoves
<1>1. /\ pc' = "ended" /\ Appends(Closing)
      /\ outcome' = "error" \/ (outcome' = o /\ Closing \subseteq facts')
      /\ UNCHANGED <<transcript, step, reply, toolVars, cancelled, acked, sent>>
  BY ClosedTurn
<1>2. Appends(Closing \cup Sending)
  BY <1>1, AppendsMore
<1> QED BY <1>1, <1>2 DEF AskedMoves, Types

\* A turn that asks again.
LEMMA RetryWhileAsked ==
  ASSUME Types, pc \in Asked, WillRetry
  PROVE  AskedMoves
BY NothingAppended DEF AskedMoves, Types, WillRetry, turnVars, Asked

\* The end of a stream.
LEMMA SettleWhileAsked ==
  ASSUME Types, pc = "stream", NEW reason \in StopReasons \cup {"none"}, Settle(reason)
  PROVE  AskedMoves
<1>0. pc \in Asked
  BY DEF Asked
<1>1. CASE CloseTurn("cancelled") \/ CloseTurn("error")
  BY <1>0, <1>1, ClosedWhileAsked
<1>2. CASE WillRetry
  BY <1>0, <1>2, RetryWhileAsked
<1>3. ASSUME NEW r \in StopReasons \cup {"none"}
      PROVE  /\ [reply EXCEPT !.reason = r] \in Replies
             /\ [reply EXCEPT !.reason = r].calls = reply.calls
  <2>1. reply \in Replies
    BY DEF Types
  <2> QED BY <2>1 DEF Replies
<1>4. CASE /\ Received("unknown")
           /\ UNCHANGED <<transcript, step, toolVars, summary, facts, cancelled, acked, sent,
                          faults>>
  <2>1. reply' \in Replies /\ Len(reply'.calls) <= MaxBatch
    BY <1>3, <1>4 DEF Received, StopReasons, Types
  <2> QED BY <1>0, <1>4, <2>1, NothingAppended DEF AskedMoves, Types, Received, Asked
<1>5. CASE /\ Commit(<<Fact("GenerationAttemptCommitted", step)>>)
           /\ Received(reason)
           /\ UNCHANGED <<transcript, step, toolVars, summary, cancelled, acked, sent>>
  <2>1. reply' \in Replies /\ Len(reply'.calls) <= MaxBatch
    BY <1>3, <1>5 DEF Received, Types
  <2>2. Appends(Closing \cup Sending)
    BY <1>5, CommitOfSending, AppendsMore
  <2> QED BY <1>0, <1>5, <2>1, <2>2 DEF AskedMoves, Types, Received, Asked
<1>6. CASE /\ CommitFails(<<Fact("GenerationAttemptCommitted", step)>>)
           /\ UNCHANGED <<reply, attempt, overflowed>>
           /\ UNCHANGED <<transcript, step, toolVars, summary, cancelled, acked, sent>>
  <2>2. Appends(Closing \cup Sending)
    BY <1>6, CommitOfSending, AppendsMore
  <2> QED BY <1>0, <1>6, <2>2, CommitOfSending DEF AskedMoves, Types, Asked
<1> QED BY <1>1, <1>2, <1>4, <1>5, <1>6 DEF Settle

\* An event of a stream.
LEMMA ReceiveWhileAsked ==
  ASSUME Types, NEW r \in Replies, Len(r.calls) <= MaxBatch, Receive(r)
  PROVE  AskedMoves
<1>1. pc = "stream" /\ pc' = "stream" /\ reply' = r
  BY DEF Receive
<1>2. Appends(Closing \cup Sending)
  BY NothingAppended DEF Receive
<1> QED BY <1>1, <1>2 DEF AskedMoves, Types, Receive, turnVars, Asked

\* All of them together.
LEMMA StepsWhileAsked ==
  ASSUME Types, AskingSteps
  PROVE  AskedMoves
<1>0. /\ reply \in Replies /\ reply.text \in BOOLEAN /\ reply.calls \in Seq(CallIds)
      /\ reply.reason \in StopReasons \cup {"none"} /\ Len(reply.calls) <= MaxBatch
      /\ MaxBatch \in Nat
  BY EngineAssumption DEF Types, Replies
<1>1. CASE Connected
  <2>1. reply' = NoReply /\ NoReply \in Replies /\ Len(NoReply.calls) <= MaxBatch
    <3>1. NoReply.calls = <<>> /\ Len(<<>>) = 0 /\ <<>> \in Seq(CallIds)
      BY DEF NoReply
    <3>2. NoReply \in Replies
      BY <3>1 DEF NoReply, Replies
    <3> QED BY <1>0, <1>1, <3>1, <3>2 DEF Connected
  <2>2. Appends(Closing \cup Sending)
    BY <1>1, NothingAppended DEF Connected
  <2> QED BY <1>1, <2>1, <2>2 DEF AskedMoves, Types, Connected, turnVars, Asked
<1>2. CASE ConnectFails
  <2>1. CASE CloseTurn("cancelled") \/ CloseTurn("error")
    BY <1>2, <2>1, ClosedWhileAsked DEF ConnectFails, Asked
  <2>2. CASE WillRetry
    BY <1>2, <2>2, RetryWhileAsked DEF ConnectFails, Asked
  <2>3. CASE /\ pc' = "overflow"
             /\ UNCHANGED <<outcome, transcript, step, reply, toolVars, summary, facts, cancelled,
                            acked, sent, faults>>
    <3>1. Appends(Closing \cup Sending)
      BY <2>3, NothingAppended
    <3> QED BY <1>2, <2>3, <3>1 DEF AskedMoves, Types, ConnectFails, Asked
  <2> QED BY <1>2, <2>1, <2>2, <2>3 DEF ConnectFails
<1>3. CASE Backoff
  <2>1. CASE CloseTurn("cancelled")
    BY <1>3, <2>1, ClosedWhileAsked DEF Backoff, Asked
  <2>2. CASE /\ Ask(transcript, summary.replaced)
             /\ UNCHANGED <<outcome, transcript, step, overflowed, reply, toolVars, summary, facts,
                            cancelled, acked, faults>>
    <3>1. Appends(Closing \cup Sending)
      BY <2>2, NothingAppended
    <3> QED BY <1>3, <2>2, <3>1 DEF AskedMoves, Types, Backoff, Ask, Asked
  <2> QED BY <1>3, <2>1, <2>2 DEF Backoff
<1>4. CASE TextDelta
  <2>1. [reply EXCEPT !.text = TRUE] \in Replies /\ [reply EXCEPT !.text = TRUE].calls = reply.calls
    BY <1>0 DEF Replies
  <2> QED BY <1>0, <1>4, <2>1, ReceiveWhileAsked DEF TextDelta
<1>5. CASE ToolCallDelta
  <2>1. PICK id \in CallIds : Receive([reply EXCEPT !.calls = Append(@, id)])
    BY <1>5 DEF ToolCallDelta
  <2>2. /\ Append(reply.calls, id) \in Seq(CallIds)
        /\ Len(Append(reply.calls, id)) = Len(reply.calls) + 1
    BY <1>0
  <2>3. Len(reply.calls) + 1 <= MaxBatch
    BY <1>0, <1>5 DEF ToolCallDelta
  <2>4. /\ [reply EXCEPT !.calls = Append(@, id)] \in Replies
        /\ [reply EXCEPT !.calls = Append(@, id)].calls = Append(reply.calls, id)
    BY <1>0, <2>2 DEF Replies
  <2> QED BY <2>1, <2>2, <2>3, <2>4, ReceiveWhileAsked
<1>6. CASE CompletedWithReason
  <2>1. PICK r \in Reasons : Receive([reply EXCEPT !.reason = r])
    BY <1>6 DEF CompletedWithReason
  <2>2. r \in StopReasons
    BY EngineAssumption
  <2>3. /\ [reply EXCEPT !.reason = r] \in Replies
        /\ [reply EXCEPT !.reason = r].calls = reply.calls
    BY <1>0, <2>2 DEF Replies
  <2> QED BY <1>0, <2>1, <2>3, ReceiveWhileAsked
<1>7. CASE StreamError
  <2>1. CASE CloseTurn("error")
    BY <1>7, <2>1, ClosedWhileAsked DEF StreamError, Asked
  <2>2. CASE WillRetry
    BY <1>7, <2>2, RetryWhileAsked DEF StreamError, Asked
  <2>3. CASE Settle("error")
    BY <1>7, <2>3, SettleWhileAsked DEF StreamError, StopReasons
  <2> QED BY <1>7, <2>1, <2>2, <2>3 DEF StreamError
<1>8. CASE StreamCancelled
  <2>1. CASE CloseTurn("cancelled")
    BY <1>8, <2>1, ClosedWhileAsked DEF StreamCancelled, Asked
  <2>2. CASE Settle("cancelled")
    BY <1>8, <2>2, SettleWhileAsked DEF StreamCancelled, StopReasons
  <2> QED BY <1>8, <2>1, <2>2 DEF StreamCancelled
<1>9. CASE StreamEnds
  BY <1>0, <1>9, SettleWhileAsked DEF StreamEnds
<1> QED BY <1>1, <1>2, <1>3, <1>4, <1>5, <1>6, <1>7, <1>8, <1>9 DEF AskingSteps, Streaming

--------------------------------------------------------------------------------
(* Steps without a message, and compactions. *)

\* The facts of the first n calls of a batch.
Preparing(n) == {CallFact(kind, step, i) : kind \in {"ToolCallRequested", "ToolCallPrepared"},
                                           i \in 1 .. n}

\* PreparedFacts lists them.
LEMMA PreparedFactsOfTheBatch ==
  ASSUME NEW n \in Nat
  PROVE  /\ PreparedFacts(n) \in Seq(Preparing(n))
         /\ ToSet(PreparedFacts(n)) = Preparing(n)
<1> DEFINE Two(i) == <<CallFact("ToolCallRequested", step, i),
                       CallFact("ToolCallPrepared", step, i)>>
           seqs == [i \in 1 .. n |-> Two(i)]
<1>1. \A i \in 1 .. n : /\ CallFact("ToolCallRequested", step, i) \in Preparing(n)
                       /\ CallFact("ToolCallPrepared", step, i) \in Preparing(n)
  BY DEF Preparing
<1>2. \A i \in 1 .. n : Two(i) \in Seq(Preparing(n))
  BY <1>1
<1>3. \A i \in 1 .. n :
        ToSet(Two(i)) = {CallFact("ToolCallRequested", step, i),
                         CallFact("ToolCallPrepared", step, i)}
  BY ToSetOfTwo
<1> HIDE DEF Two
<1>4. /\ seqs \in Seq(Seq(Preparing(n))) /\ DOMAIN seqs = 1 .. n
      /\ \A i \in 1 .. n : seqs[i] = Two(i)
  BY <1>2
<1>5. PreparedFacts(n) = FlattenSeq(seqs)
  BY DEF PreparedFacts, Two
<1> HIDE DEF seqs
<1>6. /\ FlattenSeq(seqs) \in Seq(Preparing(n))
      /\ ToSet(FlattenSeq(seqs)) = UNION {ToSet(seqs[i]) : i \in DOMAIN seqs}
  BY <1>4, FlattenSeqRange
<1>7. ASSUME NEW f \in Preparing(n)  PROVE f \in ToSet(FlattenSeq(seqs))
  <2>1. PICK i \in 1 .. n : f \in {CallFact("ToolCallRequested", step, i),
                                   CallFact("ToolCallPrepared", step, i)}
    BY DEF Preparing
  <2>2. f \in ToSet(seqs[i])
    BY <1>3, <1>4, <2>1
  <2> QED BY <1>4, <1>6, <2>2
<1>8. ASSUME NEW f \in ToSet(FlattenSeq(seqs))  PROVE f \in Preparing(n)
  <2>1. PICK i \in 1 .. n : f \in ToSet(seqs[i])
    BY <1>4, <1>6
  <2>2. f \in {CallFact("ToolCallRequested", step, i), CallFact("ToolCallPrepared", step, i)}
    BY <1>3, <1>4, <2>1
  <2> QED BY <1>1, <2>2
<1> QED BY <1>5, <1>6, <1>7, <1>8

\* The steps that end the run, or move it on, without a message.
QuietSteps ==
  \/ StartHooks \/ EndBetweenTurns \/ DoomedByText \/ DoomedByCalls \/ Finish
  \/ PostHookRefuses \/ PostCompactRefuses \/ Boundary \/ Cancel

\* The steps that leave the transcript and the batch alone.
QuietMoves ==
  /\ UNCHANGED <<transcript, step, reply, toolVars, acked, sent>>
  /\ cancelled' \in BOOLEAN /\ (cancelled => cancelled')
  /\ Appends(Closing \cup Preparing(MaxBatch))
  /\ pc # "ended"
  /\ \/ pc' = pc /\ outcome' = outcome
     \/ pc \in {"hooks", "boundary"} /\ pc' = "top" /\ outcome' = outcome
     \/ pc' = "ended" /\ outcome' = "hook_refused"
     \/ pc' = "ended" /\ outcome' = "error" /\ pc # "execute"
     \/ pc' = "ended" /\ outcome' = "cancelled" /\ pc = "top"
     \/ pc' = "ended" /\ outcome' \in Outcomes /\ pc = "follow_up"

\* All of them together.
LEMMA StepsThatAreQuiet ==
  ASSUME Types, QuietSteps
  PROVE  QuietMoves
<1>0. cancelled \in BOOLEAN /\ outcome \in Outcomes \cup {"none"}
  BY DEF Types
<1>1. CASE StartHooks
  <2>1. Appends(Closing \cup Preparing(MaxBatch))
    BY <1>1, NothingAppended DEF StartHooks
  <2> QED BY <1>0, <1>1, <2>1 DEF QuietMoves, StartHooks, End, turnVars
<1>2. CASE EndBetweenTurns
  <2>1. Appends(Closing \cup Preparing(MaxBatch))
    BY <1>2, NothingAppended DEF EndBetweenTurns
  <2> QED BY <1>0, <1>2, <2>1 DEF QuietMoves, EndBetweenTurns, End, turnVars
<1>3. CASE DoomedByText
  <2>1. /\ pc' = "ended" /\ Appends(Closing) /\ outcome' = "error"
        /\ UNCHANGED <<transcript, step, reply, toolVars, cancelled, acked, sent>>
    BY <1>3, ClosedTurn DEF DoomedByText
  <2>2. Appends(Closing \cup Preparing(MaxBatch))
    BY <2>1, AppendsMore
  <2> QED BY <1>0, <1>3, <2>1, <2>2 DEF QuietMoves, DoomedByText
<1>4. CASE DoomedByCalls
  <2>1. PICK n \in 0 .. Len(reply.calls) - 1 : facts' = facts \cup ToSet(PreparedFacts(n))
    BY <1>4 DEF DoomedByCalls
  <2>2. n \in Nat /\ n <= MaxBatch /\ MaxBatch \in Nat
    <3>1. reply.calls \in Seq(CallIds) /\ Len(reply.calls) <= MaxBatch /\ MaxBatch \in Nat
      BY EngineAssumption DEF Types, Replies
    <3> QED BY <3>1
  <2>3. ToSet(PreparedFacts(n)) \subseteq Preparing(MaxBatch)
    <3>1. Preparing(n) \subseteq Preparing(MaxBatch)
      <4>1. 1 .. n \subseteq 1 .. MaxBatch
        BY <2>2
      <4> QED BY <4>1 DEF Preparing
    <3> QED BY <2>2, <3>1, PreparedFactsOfTheBatch
  <2>4. Appends(Closing \cup Preparing(MaxBatch))
    BY <1>4, <2>1, <2>3 DEF Appends, DoomedByCalls
  <2> QED BY <1>0, <1>4, <2>4 DEF QuietMoves, DoomedByCalls, End, turnVars
<1>5. CASE Finish
  <2>1. Appends(Closing \cup Preparing(MaxBatch))
    BY <1>5, NothingAppended DEF Finish
  <2>2. outcome' \in Outcomes /\ pc' = "ended"
    BY <1>5 DEF Finish, End, AnswerOutcome, Outcomes
  <2> QED BY <1>0, <1>5, <2>1, <2>2 DEF QuietMoves, Finish, turnVars
<1>6. CASE PostHookRefuses
  <2>1. Appends(Closing \cup Preparing(MaxBatch))
    BY <1>6, NothingAppended DEF PostHookRefuses
  <2> QED BY <1>0, <1>6, <2>1 DEF QuietMoves, PostHookRefuses, Executing, End, turnVars
<1>7. CASE PostCompactRefuses
  <2>1. Appends(Closing \cup Preparing(MaxBatch))
    BY <1>7, NothingAppended DEF PostCompactRefuses
  <2> QED BY <1>0, <1>7, <2>1 DEF QuietMoves, PostCompactRefuses, Compacting, End, turnVars
<1>8. CASE Boundary
  <2>1. Appends(Closing \cup Preparing(MaxBatch))
    BY <1>8 DEF Boundary, SafePointFails, Appends
  <2> QED BY <1>0, <1>8, <2>1 DEF QuietMoves, Boundary, SafePointFails, End, turnVars
<1>9. CASE Cancel
  <2>1. Appends(Closing \cup Preparing(MaxBatch))
    BY <1>9, NothingAppended DEF Cancel
  <2> QED BY <1>0, <1>9, <2>1 DEF QuietMoves, Cancel, turnVars
<1> QED BY <1>1, <1>2, <1>3, <1>4, <1>5, <1>6, <1>7, <1>8, <1>9 DEF QuietSteps

\* The steps of maybe_compact_typed_history that leave a transcript.
CompactingSteps == CompactNothing \/ PreCompactDenies \/ CompactWithModel \/ CompactMechanically

\* The transcript a summary leaves.
Summary == ApplyModelSummary(transcript, Split, step)

\* The fact of a compaction.
Snapshot == {Fact("ContextSnapshotCommitted", step)}

\* A transcript that is adopted, with the inputs its summaries stand for.
Replaces(new, replaced) ==
  \/ new = transcript /\ replaced = summary.replaced
  \/ new = Summary /\ replaced = Replacing

\* A compaction leaves the transcript, or puts the summary in its place when that is durable.
CompactingMoves ==
  /\ Compacting
  /\ UNCHANGED <<step, reply, toolVars, cancelled, acked>>
  /\ Appends(Snapshot)
  /\ \/ pc' = "ended" /\ outcome' = "error" /\ UNCHANGED <<transcript, sent>>
     \/ /\ outcome' = outcome
        /\ pc' = IF pc = "overflow" THEN "connect" ELSE "boundary"
        /\ sent' = IF pc = "overflow" THEN Shown(transcript', summary'.replaced) ELSE sent
        /\ \/ transcript' = transcript
           \/ transcript' = Summary /\ Snapshot \subseteq facts'
        /\ Replaces(transcript', summary'.replaced)

\* A transcript that is adopted.
LEMMA AdoptMoves ==
  ASSUME Types, Compacting, NEW new, NEW replaced, Replaces(new, replaced),
         NEW trimmed \in BOOLEAN, Adopt(new, replaced, trimmed), summary'.replaced = replaced
  PROVE  CompactingMoves
<1> DEFINE f == Fact("ContextSnapshotCommitted", step)
<1>1. ToSet(<<f>>) = Snapshot /\ <<f>> \in Seq(Snapshot) /\ ToSet(<<>>) = {}
  <2>1. ToSet(<<f>>) = {f}
    BY ToSetOfOne
  <2>2. <<f>> \in Seq({f})
    OBVIOUS
  <2>3. ToSet(<<>>) = {}
    BY DEF ToSet
  <2> QED BY <2>1, <2>2, <2>3 DEF Snapshot
<1>2. CASE /\ transcript' = new
           /\ Commit(IF new # transcript \/ trimmed
                     THEN <<Fact("ContextSnapshotCommitted", step)>> ELSE <<>>)
           /\ IF pc = "overflow" THEN Ask(new, replaced) ELSE pc' = "boundary" /\ UNCHANGED sent
           /\ UNCHANGED outcome
  <2>1. CASE new # transcript \/ trimmed
    <3>1. facts' = facts \cup Snapshot /\ faults' = faults
      BY <1>1, <1>2, <2>1 DEF Commit
    <3>2. Appends(Snapshot) /\ Snapshot \subseteq facts'
      BY <3>1 DEF Appends
    <3> QED BY <1>2, <3>2 DEF CompactingMoves, Replaces, Adopt, Ask, turnVars
  <2>2. CASE ~(new # transcript \/ trimmed)
    <3>1. facts' = facts \cup {} /\ faults' = faults
      BY <1>1, <1>2, <2>2 DEF Commit
    <3>2. Appends(Snapshot) /\ transcript' = transcript
      BY <1>2, <2>2, <3>1 DEF Appends
    <3> QED BY <1>2, <3>2 DEF CompactingMoves, Replaces, Adopt, Ask, turnVars
  <2> QED BY <2>1, <2>2
<1>3. CASE /\ new # transcript \/ trimmed
           /\ CommitFails(<<Fact("ContextSnapshotCommitted", step)>>)
           /\ UNCHANGED <<transcript, sent>>
  <2>1. Appends(Snapshot) /\ pc' = "ended" /\ outcome' = "error"
    BY <1>1, <1>3, FailedCommit DEF Appends
  <2> QED BY <1>3, <2>1 DEF CompactingMoves, Adopt, turnVars
<1> QED BY <1>2, <1>3 DEF Adopt

\* All of them together: the repair changes nothing, since the transcript is whole.
LEMMA StepsThatCompact ==
  ASSUME Types, WholeTranscript, CompactingSteps
  PROVE  CompactingMoves
<1>1. RepairDanglingToolCalls(transcript) = transcript
  BY RepairKeepsPaired DEF WholeTranscript, Whole
<1>2. CASE CompactNothing
  BY <1>1, <1>2, AdoptMoves DEF CompactNothing, Replaces
<1>3. CASE PreCompactDenies
  BY <1>3, AdoptMoves DEF PreCompactDenies, Replaces
<1>4. CASE CompactWithModel
  <2>1. summary'.replaced = Replacing
    BY <1>4 DEF CompactWithModel
  <2> QED BY <1>4, <2>1, AdoptMoves DEF CompactWithModel, Summary, Replaces
<1>5. CASE CompactMechanically
  <2>1. summary'.replaced = summary.replaced
    BY <1>5 DEF CompactMechanically
  <2> QED BY <1>1, <1>5, <2>1, AdoptMoves DEF CompactMechanically, Replaces
<1> QED BY <1>2, <1>3, <1>4, <1>5 DEF CompactingSteps

--------------------------------------------------------------------------------
(* What is pushed on the transcript. *)

\* The inputs are numbers, and finitely many.
LEMMA InputsAreFinite ==
  /\ Inputs \subseteq Nat \ {0}
  /\ IsFiniteSet(Inputs)
BY EngineAssumption DEF Inputs

\* What is pushed when inputs are taken: one user message for each of them.
Users(users, inputs) ==
  /\ users \in Seq(Messages)
  /\ Len(users) = Cardinality(inputs)
  /\ \A i \in 1 .. Len(users) : \E x \in inputs : users[i] = AsUser(x)
  /\ \A x \in inputs : \E i \in 1 .. Len(users) : users[i] = AsUser(x)

\* Inputs that are taken become user messages, and the transcript stays whole.
LEMMA TakenPushesUsers ==
  ASSUME NEW inputs, inputs \subseteq Inputs, WholeTranscript, Taken(inputs)
  PROVE  /\ acked' = acked \cup inputs
         /\ \E users : Users(users, inputs) /\ transcript' = transcript \o users
         /\ transcript' \in Seq(Messages) /\ Whole(transcript')
<1>1. PICK order \in [1 .. Cardinality(inputs) -> inputs] :
        /\ Range(order) = inputs
        /\ transcript' = transcript \o [i \in DOMAIN order |-> AsUser(order[i])]
  BY DEF Taken
<1>2. IsFiniteSet(inputs) /\ Cardinality(inputs) \in Nat
  BY InputsAreFinite, FS_Subset, FS_CardinalityType
<1> DEFINE users == [i \in DOMAIN order |-> AsUser(order[i])]
           n == Cardinality(inputs)
<1>3. DOMAIN order = 1 .. n /\ \A i \in 1 .. n : order[i] \in inputs
  BY <1>1
<1>4. \A x \in inputs : /\ AsUser(x) \in Messages /\ AsUser(x).role = "user"
  BY InputsAreFinite DEF AsUser, Message, Messages, Roles
<1>5. /\ users \in Seq(Messages) /\ Len(users) = n
      /\ \A i \in 1 .. n : users[i] = AsUser(order[i])
  BY <1>2, <1>3, <1>4
<1> HIDE DEF users
<1>6. \A x \in inputs : \E i \in 1 .. n : order[i] = x
  BY <1>1, <1>3 DEF Range
<1>7. Users(users, inputs)
  BY <1>3, <1>5, <1>6 DEF Users
<1>8. Whole(users)
  <2>1. \A i \in 1 .. Len(users) : users[i].role = "user"
    BY <1>3, <1>4, <1>5
  <2> QED BY <1>5, <2>1, WithoutCallsIsWhole
<1>9. transcript' = transcript \o users
  BY <1>1 DEF users
<1>10. transcript' \in Seq(Messages) /\ Whole(transcript')
  BY <1>5, <1>8, <1>9, WholeConcat, ConcatOfMessages DEF WholeTranscript
<1> QED BY <1>7, <1>9, <1>10 DEF Taken

\* An answer without calls leaves the transcript whole.
LEMMA AnswerIsWhole ==
  ASSUME Types, WholeTranscript,
         transcript' = Append(transcript, Message("assistant", <<>>, step))
  PROVE  transcript' \in Seq(Messages) /\ Whole(transcript')
<1> DEFINE m == Message("assistant", <<>>, step)
<1>1. m \in Messages /\ m.ids = <<>> /\ m.role = "assistant"
  <2>1. <<>> \in Seq(CallIds) /\ step \in Int
    BY DEF Types
  <2> QED BY <2>1 DEF Message, Messages, Roles
<1> HIDE DEF m
<1>2. <<m>> \in Seq(Messages) /\ Len(<<m>>) = 1 /\ <<m>>[1] = m
  BY <1>1
<1>3. Whole(<<m>>)
  <2>1. \A i \in 1 .. Len(<<m>>) : <<m>>[i].role = "assistant"
    BY <1>1, <1>2
  <2>2. \A i \in 1 .. Len(<<m>>) : <<m>>[i].ids = <<>>
    BY <1>1, <1>2
  <2> QED BY <1>2, <2>1, <2>2, WithoutCallsIsWhole
<1>4. transcript' = transcript \o <<m>>
  BY <1>1, AppendIsConcat DEF m, WholeTranscript
<1> QED BY <1>2, <1>3, <1>4, WholeConcat, ConcatOfMessages DEF WholeTranscript

\* The answer of a turn with the results of its calls.
BatchMessages ==
  <<Message("assistant", [i \in DOMAIN batch |-> batch[i].id], step)>> \o ResultsOf(batch)

\* An answer with its results leaves the transcript whole.
LEMMA CommittedBatchIsWhole ==
  ASSUME Types, WholeTranscript, CommitBatch
  PROVE  /\ transcript' = transcript \o BatchMessages
         /\ BatchMessages \in Seq(Messages)
         /\ transcript' \in Seq(Messages) /\ Whole(transcript')
<1> DEFINE ids == [i \in DOMAIN batch |-> batch[i].id]
           n == Len(batch)
           m == Message("assistant", ids, step)
<1>1. batch \in Seq(BatchCalls) /\ step \in Int
  BY DEF Types
<1>2. n \in Nat /\ DOMAIN batch = 1 .. n /\ \A i \in 1 .. n : batch[i].id \in CallIds
  <2>1. \A i \in 1 .. n : batch[i] \in BatchCalls
    BY <1>1
  <2>2. \A i \in 1 .. n : batch[i].id \in CallIds
    BY <2>1 DEF BatchCalls
  <2> QED BY <1>1, <2>2
<1>3. ids \in Seq(CallIds) /\ Len(ids) = n /\ \A i \in 1 .. n : ids[i] = batch[i].id
  BY <1>2
<1>4. DOMAIN ids = DOMAIN batch
  OBVIOUS
<1>5. ResultsOf(batch) = [i \in DOMAIN ids |-> Message("tool", <<ids[i]>>, step)]
  BY <1>4 DEF ResultsOf
<1>6. BatchMessages = <<m>> \o [i \in DOMAIN ids |-> Message("tool", <<ids[i]>>, step)]
  BY <1>5 DEF BatchMessages
<1>7. m \in Messages
  BY <1>1, <1>3 DEF Message, Messages, Roles
<1>8. ResultsOf(batch) \in Seq(Messages)
  <2>1. \A i \in 1 .. n : Message("tool", <<batch[i].id>>, step) \in Messages
    BY <1>1, <1>2 DEF Message, Messages, Roles
  <2> QED BY <1>2, <2>1 DEF ResultsOf
<1>9. transcript' = Append(transcript, m) \o ResultsOf(batch)
  BY DEF CommitBatch
<1> HIDE DEF ids, m
<1>10. BatchMessages \in Seq(Messages) /\ Whole(BatchMessages)
  BY <1>1, <1>3, <1>6, BatchIsWhole DEF m
<1>11. Append(transcript, m) = transcript \o <<m>>
  BY <1>7, AppendIsConcat DEF WholeTranscript
<1>12. (transcript \o <<m>>) \o ResultsOf(batch) = transcript \o (<<m>> \o ResultsOf(batch))
  <2>1. <<m>> \in Seq(Messages) /\ transcript \in Seq(Messages)
    BY <1>7 DEF WholeTranscript
  <2> QED BY <1>8, <2>1, ConcatAssociative
<1>13. BatchMessages = <<m>> \o ResultsOf(batch)
  BY DEF BatchMessages, m, ids
<1>14. transcript' = transcript \o BatchMessages
  BY <1>9, <1>11, <1>12, <1>13
<1> QED BY <1>10, <1>14, WholeConcat, ConcatOfMessages DEF WholeTranscript

\* So does a summary.
LEMMA SummaryIsWhole ==
  ASSUME Types, WholeTranscript
  PROVE  /\ Summary = <<Message("system", <<>>, step)>>
                        \o SubSeq(transcript, Split + 1, Len(transcript))
         /\ Summary \in Seq(Messages) /\ Whole(Summary)
         /\ Split \in 0 .. Len(transcript)
         /\ Split = 0 \/ Split <= Len(transcript) - KeepTail
<1>1. KeepTail \in Nat /\ step \in Int
  BY EngineAssumption DEF Types
<1>2. transcript \in Seq(Messages) /\ Whole(transcript) /\ Paired(transcript)
  BY DEF WholeTranscript, Whole
<1>3. /\ Summary = <<Message("system", <<>>, step)>>
                     \o SubSeq(transcript, Split + 1, Len(transcript))
      /\ Summary \in Seq(Messages) /\ Whole(Summary)
  BY <1>1, <1>2, SummaryOfWhole DEF Summary, Split
<1>4. /\ Split \in 0 .. Len(transcript)
      /\ Split = 0 \/ Split <= Len(transcript) - KeepTail
  BY <1>1, <1>2, SplitStandsBeforeAGroup DEF Split
<1> QED BY <1>3, <1>4

\* And the history a run starts with is whole.
LEMMA InitialTranscript ==
  ASSUME NEW h \in Histories
  PROVE  LET t == Append(h, Message("user", <<>>, 0))
         IN /\ t \in Seq(Messages) /\ Whole(t)
            /\ \A i \in DOMAIN t : t[i].turn = 0
<1> DEFINE m == Message("user", <<>>, 0)
<1>1. m \in Messages /\ m.ids = <<>> /\ m.role = "user" /\ m.turn = 0
  <2>1. <<>> \in Seq(CallIds)
    OBVIOUS
  <2> QED BY <2>1 DEF Message, Messages, Roles
<1> HIDE DEF m
<1>2. h \in Seq(HistoryMessages) /\ Paired(h)
  BY EngineAssumption
<1>3. HistoryMessages \subseteq Messages
  BY DEF HistoryMessages, Messages
<1>4. h \in Seq(Messages)
  BY <1>2, <1>3, SeqMonotonic
<1>5. /\ Len(h) \in Nat /\ DOMAIN h = 1 .. Len(h)
      /\ \A i \in 1 .. Len(h) : h[i].turn = 0
  <2>1. \A i \in 1 .. Len(h) : h[i] \in HistoryMessages
    BY <1>2
  <2>2. \A i \in 1 .. Len(h) : h[i].turn = 0
    BY <2>1 DEF HistoryMessages
  <2> QED BY <1>4, <2>2
<1>6. Whole(h)
  BY <1>2, <1>5 DEF Whole, PairsOfTurns
<1>7. <<m>> \in Seq(Messages) /\ Len(<<m>>) = 1 /\ <<m>>[1] = m
  BY <1>1
<1>8. Whole(<<m>>)
  <2>1. \A i \in 1 .. Len(<<m>>) : <<m>>[i].role = "user"
    BY <1>1, <1>7
  <2> QED BY <1>7, <2>1, WithoutCallsIsWhole
<1>9. Append(h, m) = h \o <<m>>
  BY <1>1, <1>4, AppendIsConcat
<1>10. h \o <<m>> \in Seq(Messages) /\ Whole(h \o <<m>>)
  BY <1>4, <1>6, <1>7, <1>8, WholeConcat, ConcatOfMessages
<1>11. \A i \in DOMAIN Append(h, m) : Append(h, m)[i].turn = 0
  <2>1. /\ DOMAIN Append(h, m) = 1 .. Len(h) + 1
        /\ \A i \in 1 .. Len(h) : Append(h, m)[i] = h[i]
        /\ Append(h, m)[Len(h) + 1] = m
    BY <1>1, <1>4, AppendProperties
  <2>2. \A i \in 1 .. Len(h) + 1 : i \in 1 .. Len(h) \/ i = Len(h) + 1
    BY <1>5
  <2> QED BY <1>1, <1>5, <2>1, <2>2
<1> QED BY <1>9, <1>10, <1>11 DEF m

--------------------------------------------------------------------------------
(* The first part of the invariant: types and a whole transcript. *)

\* The steps that are none of these.
OtherSteps ==
  \/ BeginTurn \/ Answer \/ FollowUp \/ Prepare \/ RunCalls \/ ConcludeCall \/ CommitBatch \/ Steer

\* The cases of a step.
LEMMA StepCases ==
  Next => AskingSteps \/ QuietSteps \/ CompactingSteps \/ OtherSteps
BY DEF Next, EngineStep, Asking, Answering, CallingTools, CompactingHistory, AskingSteps,
       QuietSteps, CompactingSteps, OtherSteps

\* The facts that open a turn.
Opening == {Fact("TurnStarted", step + 1), Fact("MessageStarted", step + 1)}

\* What the start of a turn leaves.
LEMMA OpeningMoves ==
  ASSUME BeginTurn
  PROVE  /\ Appends(Opening) /\ step' = step + 1
         /\ \/ /\ pc' = "connect" /\ outcome' = outcome
               /\ sent' = Shown(transcript, summary.replaced)
            \/ pc' = "ended" /\ outcome' = "error" /\ sent' = sent
<1> DEFINE fs == <<Fact("TurnStarted", step'), Fact("MessageStarted", step')>>
<1>1. step' = step + 1
  BY DEF BeginTurn
<1>2. ToSet(fs) = Opening /\ fs \in Seq(Opening)
  <2>1. ToSet(fs) = {Fact("TurnStarted", step'), Fact("MessageStarted", step')}
    BY ToSetOfTwo
  <2>2. ToSet(fs) = Opening
    BY <1>1, <2>1 DEF Opening
  <2>3. fs \in Seq(Opening)
    <3>1. Fact("TurnStarted", step') \in Opening /\ Fact("MessageStarted", step') \in Opening
      BY <1>1 DEF Opening
    <3> QED BY <3>1
  <2> QED BY <2>2, <2>3
<1>3. CASE Commit(fs) /\ Ask(transcript, summary.replaced) /\ UNCHANGED outcome
  BY <1>1, <1>2, <1>3 DEF Commit, Appends, Ask
<1>4. CASE CommitFails(fs) /\ UNCHANGED sent
  <2> HIDE DEF fs
  <2> QED BY <1>1, <1>2, <1>4, FailedCommit DEF Appends
<1> QED BY <1>3, <1>4 DEF BeginTurn

\* What the closing facts, the facts of a call and the rest are as a set.
LEMMA FactTypes ==
  ASSUME step \in Nat, NEW n \in Nat
  PROVE  /\ Closing \subseteq FactKinds \X Nat \X Nat
         /\ Sending \subseteq FactKinds \X Nat \X Nat
         /\ Snapshot \subseteq FactKinds \X Nat \X Nat
         /\ Opening \subseteq FactKinds \X Nat \X Nat
         /\ Preparing(n) \subseteq FactKinds \X Nat \X Nat
         /\ \A i \in Nat : /\ CallFact("ToolCallCompleted", step, i) \in FactKinds \X Nat \X Nat
                           /\ CallFact("Uncertain", step, i) \in FactKinds \X Nat \X Nat
BY DEF Closing, Sending, Snapshot, Opening, Preparing, Fact, CallFact, FactKinds

\* The journal keeps its type.
LEMMA AppendedTypes ==
  ASSUME Types, NEW new, new \subseteq FactKinds \X Nat \X Nat, Appends(new)
  PROVE  facts' \subseteq FactKinds \X Nat \X Nat /\ faults' \in Nat
BY DEF Types, Appends

\* The first part of the invariant holds first.
LEMMA InitTypes ==
  Init => Types /\ WholeTranscript
<1> SUFFICES ASSUME Init  PROVE Types /\ WholeTranscript
  OBVIOUS
<1>1. NoReply \in Replies /\ Len(NoReply.calls) = 0 /\ <<>> \in Seq(BatchCalls)
      /\ Len(<<>>) = 0
  <2>1. NoReply.calls = <<>> /\ Len(<<>>) = 0 /\ <<>> \in Seq(CallIds)
    BY DEF NoReply
  <2>2. NoReply \in Replies
    BY <2>1 DEF NoReply, Replies
  <2> QED BY <2>1, <2>2
<1>2. MaxSteps \in Nat /\ MaxBatch \in Nat /\ MaxFaults \in Nat
  BY EngineAssumption
<1>3. Types
  <2>1. pc = "hooks" /\ outcome = "none" /\ step = 0 /\ faults \in Nat /\ step <= MaxSteps
    BY <1>2 DEF Init
  <2>2. reply \in Replies /\ Len(reply.calls) <= MaxBatch
    BY <1>1, <1>2 DEF Init
  <2>3. batch \in Seq(BatchCalls) /\ Len(batch) <= MaxBatch /\ at \in Nat \ {0}
    BY <1>1, <1>2 DEF Init
  <2>4. together \in BOOLEAN /\ poisoned \in BOOLEAN /\ cancelled \in BOOLEAN
    BY DEF Init
  <2>5. /\ ran \subseteq Nat \X Nat /\ facts \subseteq FactKinds \X Nat \X Nat
        /\ acked \subseteq Inputs
    BY DEF Init
  <2>6. step \in Nat /\ pc \notin Asked \cup {"execute"}
    BY <2>1 DEF Asked
  <2> QED BY <2>1, <2>2, <2>3, <2>4, <2>5, <2>6 DEF Types
<1>4. PICK h \in Histories : transcript = Append(h, Message("user", <<>>, 0))
  BY DEF Init
<1>5. WholeTranscript
  BY <1>4, InitialTranscript DEF WholeTranscript
<1> QED BY <1>3, <1>5

\* And every step keeps it.
LEMMA TypesAreKept ==
  ASSUME Types, WholeTranscript, [Next]_vars
  PROVE  Types' /\ WholeTranscript'
<1>0. /\ MaxSteps \in Nat /\ MaxBatch \in Nat /\ step \in Nat /\ Dangling \in Int
      /\ step' \in Nat => Closing' = Closing'
  BY EngineAssumption DEF Types, Dangling
<1>1. CASE UNCHANGED vars
  BY <1>1 DEF Types, WholeTranscript, vars, turnVars, toolVars
<1>2. CASE AskingSteps
  <2>1. AskedMoves
    BY <1>2, StepsWhileAsked
  <2>2. facts' \subseteq FactKinds \X Nat \X Nat /\ faults' \in Nat
    <3>1. Closing \cup Sending \subseteq FactKinds \X Nat \X Nat
      BY <1>0, FactTypes
    <3> QED BY <2>1, <3>1, AppendedTypes DEF AskedMoves
  <2>4. pc' \in Asked \cup {"ended"} /\ outcome' \in Outcomes \cup {"none"}
        /\ (pc' # "ended" => outcome' = "none") /\ step > 0
    BY <2>1 DEF AskedMoves, Types, Asked, Outcomes
  <2> QED BY <2>1, <2>2, <2>4 DEF AskedMoves, Types, WholeTranscript, toolVars, Asked
<1>3. CASE QuietSteps
  <2>1. QuietMoves
    BY <1>3, StepsThatAreQuiet
  <2>2. facts' \subseteq FactKinds \X Nat \X Nat /\ faults' \in Nat
    <3>1. Closing \cup Preparing(MaxBatch) \subseteq FactKinds \X Nat \X Nat
      BY <1>0, FactTypes
    <3> QED BY <2>1, <3>1, AppendedTypes DEF QuietMoves
  <2>3. /\ pc' \in {"hooks", "execute", "ended"} \cup Asked \cup Closed
        /\ outcome' \in Outcomes \cup {"none"}
        /\ pc' # "ended" => outcome' = "none"
        /\ pc' = "hooks" => step = 0
        /\ pc' \in Asked \cup {"execute"} => step > 0
    BY <2>1 DEF QuietMoves, Types, Asked, Closed, Outcomes
  <2>4. /\ UNCHANGED <<transcript, step, reply, acked, sent>>
        /\ UNCHANGED <<batch, together, at, ran, poisoned>>
        /\ cancelled' \in BOOLEAN
    <3>1. UNCHANGED <<transcript, step, reply, toolVars, acked, sent>>
      BY <2>1 DEF QuietMoves
    <3>4. cancelled' \in BOOLEAN
      BY <2>1, Zenon DEF QuietMoves
    <3>2. UNCHANGED toolVars
      BY <3>1
    <3>3. UNCHANGED <<batch, together, at, ran, poisoned>>
      BY <3>2 DEF toolVars
    <3> QED BY <3>1, <3>3, <3>4
  <2>5. WholeTranscript'
    BY <2>4 DEF WholeTranscript
  <2>6. /\ together' \in BOOLEAN /\ poisoned' \in BOOLEAN
        /\ at' \in Nat \ {0} /\ ran' \subseteq Nat \X Nat
        /\ batch' \in Seq(BatchCalls) /\ Len(batch') <= MaxBatch
    BY <2>4 DEF Types
  <2>7. /\ step' \in Nat /\ step' <= MaxSteps
        /\ reply' \in Replies /\ Len(reply'.calls) <= MaxBatch
        /\ acked' \subseteq Inputs
    BY <2>4 DEF Types
  <2>8. /\ pc' = "hooks" => step' = 0
        /\ pc' \in Asked \cup {"execute"} => step' > 0
    BY <2>3, <2>4
  <2> QED BY <2>2, <2>3, <2>4, <2>5, <2>6, <2>7, <2>8 DEF Types
<1>4. CASE CompactingSteps
  <2>1. CompactingMoves
    BY <1>4, StepsThatCompact
  <2>2. facts' \subseteq FactKinds \X Nat \X Nat /\ faults' \in Nat
    BY <1>0, <2>1, FactTypes, AppendedTypes DEF CompactingMoves
  <2>3. transcript' \in Seq(Messages) /\ Whole(transcript')
    BY <2>1, SummaryIsWhole DEF CompactingMoves, WholeTranscript
  <2>5. /\ pc' \in {"ended", "connect", "boundary"}
        /\ outcome' \in Outcomes \cup {"none"}
        /\ pc' # "ended" => outcome' = "none"
        /\ pc' = "connect" => step > 0
    BY <2>1 DEF CompactingMoves, Compacting, Types, Asked, Outcomes
  <2> QED BY <2>1, <2>2, <2>3, <2>5
      DEF CompactingMoves, Types, WholeTranscript, toolVars, Asked, Closed
<1>5. CASE BeginTurn
  <2>1. /\ Appends(Opening) /\ step' = step + 1
        /\ \/ pc' = "connect" /\ outcome' = outcome
           \/ pc' = "ended" /\ outcome' = "error"
    BY <1>5, OpeningMoves
  <2>2. facts' \subseteq FactKinds \X Nat \X Nat /\ faults' \in Nat
    BY <1>0, <2>1, FactTypes, AppendedTypes
  <2>4. step' \in Nat /\ step' <= MaxSteps /\ step' > 0
    BY <1>0, <1>5, <2>1 DEF BeginTurn
  <2>5. UNCHANGED <<transcript, reply, toolVars, cancelled, acked>>
    BY <1>5 DEF BeginTurn
  <2>6. /\ pc' \in {"ended", "connect"}
        /\ outcome' \in Outcomes \cup {"none"}
        /\ pc' # "ended" => outcome' = "none"
    BY <1>5, <2>1 DEF BeginTurn, Types, Outcomes
  <2> QED BY <2>2, <2>4, <2>5, <2>6 DEF Types, WholeTranscript, toolVars, Asked, Closed
<1>6. CASE Answer
  <2>1. transcript' \in Seq(Messages) /\ Whole(transcript')
    BY <1>6, AnswerIsWhole DEF Answer
  <2>2. /\ Appends(Closing)
        /\ \/ pc' = "follow_up" /\ outcome' = outcome
           \/ pc' = "ended" /\ outcome' = "error"
    BY <1>6, CommitOfClosing DEF Answer, Appends
  <2>3. facts' \subseteq FactKinds \X Nat \X Nat /\ faults' \in Nat
    BY <1>0, <2>2, FactTypes, AppendedTypes
  <2>4. UNCHANGED <<step, reply, toolVars, cancelled, acked, sent>>
    BY <1>6 DEF Answer, turnVars
  <2>5. outcome' \in Outcomes \cup {"none"} /\ (pc' # "ended" => outcome' = "none")
    BY <1>6, <2>2 DEF Answer, Types, Outcomes
  <2> QED BY <2>1, <2>2, <2>3, <2>4, <2>5 DEF Types, WholeTranscript, toolVars, Asked, Closed
<1>10. NoReply \in Replies /\ Len(NoReply.calls) = 0 /\ <<>> \in Seq(BatchCalls)
       /\ Len(<<>>) = 0
  <2>1. NoReply.calls = <<>> /\ Len(<<>>) = 0 /\ <<>> \in Seq(CallIds)
    BY DEF NoReply
  <2>2. NoReply \in Replies
    BY <2>1 DEF NoReply, Replies
  <2> QED BY <2>1, <2>2
<1>7. CASE FollowUp
  <2>1. PICK inputs \in SUBSET (FollowUps \ acked) :
          \/ Taken(inputs) /\ pc' = "top" /\ UNCHANGED <<outcome, faults>>
          \/ AckFails(inputs) /\ UNCHANGED transcript
    BY <1>7 DEF FollowUp
  <2>2. inputs \subseteq Inputs
    BY DEF Inputs
  <2>3. transcript' \in Seq(Messages) /\ Whole(transcript')
    BY <2>1, <2>2, TakenPushesUsers DEF WholeTranscript
  <2>4. acked' \subseteq Inputs /\ faults' \in Nat
    BY <2>1, <2>2 DEF Taken, AckFails, Types
  <2>5. /\ pc' \in {"top", "ended"}
        /\ outcome' \in Outcomes \cup {"none"} /\ (pc' # "ended" => outcome' = "none")
    BY <1>7, <2>1 DEF FollowUp, AckFails, End, Types, Outcomes
  <2>6. reply' = NoReply /\ UNCHANGED <<turnVars, toolVars, summary, facts, cancelled, sent>>
    BY <1>7 DEF FollowUp
  <2> QED BY <1>0, <1>10, <2>3, <2>4, <2>5, <2>6
      DEF Types, WholeTranscript, turnVars, toolVars, Asked, Closed
<1>8. CASE Prepare
  <2>1. PICK denied \in SUBSET DOMAIN reply.calls :
          /\ batch' = [i \in DOMAIN reply.calls |->
                         [id |-> reply.calls[i],
                          rejected |-> ~Authorised(reply.reason) \/ i \in denied]]
          /\ together' \in BOOLEAN
    BY <1>8 DEF Prepare
  <2>2. reply.calls \in Seq(CallIds) /\ Len(reply.calls) <= MaxBatch
    BY DEF Types, Replies
  <2>3. batch' \in Seq(BatchCalls) /\ Len(batch') = Len(reply.calls)
    <3>1. \A i \in 1 .. Len(reply.calls) :
            [id |-> reply.calls[i], rejected |-> ~Authorised(reply.reason) \/ i \in denied]
              \in BatchCalls
      <4> SUFFICES ASSUME NEW i \in 1 .. Len(reply.calls)
                   PROVE  [id |-> reply.calls[i],
                           rejected |-> ~Authorised(reply.reason) \/ i \in denied] \in BatchCalls
        OBVIOUS
      <4>1. reply.calls[i] \in CallIds
        BY <2>2
      <4>2. (~Authorised(reply.reason) \/ i \in denied) \in BOOLEAN
        OBVIOUS
      <4> QED BY <4>1, <4>2 DEF BatchCalls
    <3> QED BY <2>1, <2>2, <3>1
  <2>4. PICK n \in Nat : n = Len(reply.calls)
    BY <2>2
  <2>5. /\ Appends(Preparing(n))
        /\ \/ pc' = "execute" /\ outcome' = outcome
           \/ pc' = "ended" /\ outcome' = "error"
    BY <1>8, <2>4, PreparedFactsOfTheBatch, FailedCommit DEF Prepare, Commit, Appends
  <2>6. facts' \subseteq FactKinds \X Nat \X Nat /\ faults' \in Nat
    BY <1>0, <2>5, FactTypes, AppendedTypes
  <2>7. /\ outcome' \in Outcomes \cup {"none"} /\ (pc' # "ended" => outcome' = "none")
        /\ step > 0
    BY <1>8, <2>5 DEF Prepare, Types, Outcomes, Asked
  <2>8. at' = 1 /\ UNCHANGED <<transcript, step, reply, ran, poisoned, cancelled, acked, sent>>
    BY <1>8 DEF Prepare, turnVars
  <2> QED BY <2>1, <2>2, <2>3, <2>5, <2>6, <2>7, <2>8 DEF Types, WholeTranscript, Asked, Closed
<1>9. CASE RunCalls
  <2>1. ran' \subseteq Nat \X Nat
    <3>1. Group \subseteq Nat
      BY DEF Group, Types
    <3> QED BY <1>0, <1>9, <3>1 DEF RunCalls, Types
  <2>2. faults' \in Nat /\ poisoned' \in BOOLEAN
    <3>1. faults' \in Nat
      <4>1. faults' = faults \/ (faults > 0 /\ faults' = faults - 1)
        BY <1>9 DEF RunCalls
      <4> QED BY <4>1 DEF Types
    <3>2. poisoned' = poisoned \/ poisoned' = TRUE
      BY <1>9 DEF RunCalls
    <3> QED BY <3>1, <3>2 DEF Types
  <2> QED BY <1>9, <2>1, <2>2 DEF RunCalls, Types, WholeTranscript, turnVars
<1>11. CASE ConcludeCall
  <2>1. /\ facts' \subseteq FactKinds \X Nat \X Nat /\ faults' \in Nat /\ at' \in Nat \ {0}
        /\ cancelled' \in BOOLEAN
        /\ \/ pc' = pc /\ outcome' = outcome
           \/ pc' = "ended" /\ outcome' \in {"error", "recovery_blocked"}
    <3>1. CASE /\ Commit(<<CallFact("ToolCallCompleted", step, at)>>)
               /\ at' = at + 1
               /\ UNCHANGED <<pc, outcome, cancelled>>
      <4>1. facts' = facts \cup {CallFact("ToolCallCompleted", step, at)} /\ faults' = faults
        BY <3>1, ToSetOfOne DEF Commit
      <4>2. at \in Nat /\ at' = at + 1
        BY <3>1 DEF Types
      <4>3. CallFact("ToolCallCompleted", step, at) \in FactKinds \X Nat \X Nat
        BY <1>0, <4>2, FactTypes
      <4>4. facts' \subseteq FactKinds \X Nat \X Nat /\ faults' \in Nat
        BY <4>1, <4>3 DEF Types
      <4>5. cancelled' \in BOOLEAN /\ pc' = pc /\ outcome' = outcome
        BY <3>1 DEF Types
      <4> QED BY <4>2, <4>4, <4>5
    <3>2. CASE CompletionFails
      <4>1. at \in Nat \ {0} /\ at' = at
        BY <3>2 DEF CompletionFails, Types
      <4>2. CallFact("Uncertain", step, at) \in FactKinds \X Nat \X Nat
        BY <1>0, <4>1, FactTypes
      <4>3. /\ facts' \subseteq facts \cup {CallFact("Uncertain", step, at)}
            /\ pc' = "ended" /\ outcome' \in {"error", "recovery_blocked"}
        BY <3>2 DEF CompletionFails, End
      <4>4. (faults > 0 /\ faults' = faults - 1) \/ (faults > 1 /\ faults' = faults - 2)
        BY <3>2 DEF CompletionFails
      <4>5. faults' \in Nat
        BY <4>4 DEF Types
      <4>6. cancelled' = TRUE
        BY <3>2 DEF CompletionFails
      <4> QED BY <4>1, <4>2, <4>3, <4>5, <4>6 DEF Types
    <3> QED BY <1>11, <3>1, <3>2 DEF ConcludeCall
  <2>2. UNCHANGED <<transcript, step, reply, batch, together, ran, poisoned, acked, sent>>
    BY <1>11 DEF ConcludeCall, turnVars
  <2>3. /\ pc' \in {"hooks", "execute", "ended"} \cup Asked \cup Closed
        /\ outcome' \in Outcomes \cup {"none"} /\ (pc' # "ended" => outcome' = "none")
        /\ pc' = "hooks" => step = 0
        /\ pc' \in Asked \cup {"execute"} => step > 0
    BY <2>1 DEF Types, Outcomes, Asked
  <2> QED BY <2>1, <2>2, <2>3 DEF Types, WholeTranscript
<1>12. CASE CommitBatch
  <2>1. transcript' \in Seq(Messages) /\ Whole(transcript')
    BY <1>12, CommittedBatchIsWhole
  <2>2. /\ Appends(Closing) /\ cancelled' \in BOOLEAN
        /\ \/ pc' = "steer" /\ outcome' = outcome
           \/ pc' = "ended" /\ outcome' = "error"
    BY <1>12, CommitOfClosing DEF CommitBatch, Appends, End, Types
  <2>3. facts' \subseteq FactKinds \X Nat \X Nat /\ faults' \in Nat
    BY <1>0, <2>2, FactTypes, AppendedTypes
  <2>4. /\ reply' = NoReply /\ batch' = <<>> /\ together' = FALSE /\ at' = 1
        /\ UNCHANGED <<step, ran, poisoned, acked, sent>>
    BY <1>12 DEF CommitBatch, turnVars
  <2>5. outcome' \in Outcomes \cup {"none"} /\ (pc' # "ended" => outcome' = "none")
    BY <1>12, <2>2 DEF CommitBatch, Types, Outcomes
  <2>6. /\ reply' \in Replies /\ Len(reply'.calls) <= MaxBatch
        /\ batch' \in Seq(BatchCalls) /\ Len(batch') <= MaxBatch
        /\ at' \in Nat \ {0}
    BY <1>0, <1>10, <2>4
  <2>7. together' \in BOOLEAN /\ poisoned' \in BOOLEAN
    BY <2>4 DEF Types
  <2>8. /\ step' \in Nat /\ step' <= MaxSteps /\ ran' \subseteq Nat \X Nat
        /\ acked' \subseteq Inputs
    BY <2>4 DEF Types
  <2>9. /\ pc' \in {"ended"} \cup Closed
        /\ pc' = "hooks" => step' = 0
        /\ pc' \in Asked \cup {"execute"} => step' > 0
    BY <2>2 DEF Asked, Closed
  <2>10. WholeTranscript'
    BY <2>1 DEF WholeTranscript
  <2> QED BY <2>2, <2>3, <2>5, <2>6, <2>7, <2>8, <2>9, <2>10 DEF Types
<1>13. CASE Steer
  <2>1. PICK inputs \in SUBSET (Steering \ acked) :
          \/ Taken(inputs) /\ pc' = "compact" /\ UNCHANGED <<outcome, faults>>
          \/ AckFails(inputs) /\ UNCHANGED transcript
          \/ SafePointFails /\ UNCHANGED <<acked, transcript>>
    BY <1>13 DEF Steer
  <2>2. inputs \subseteq Inputs
    BY DEF Inputs
  <2>3. transcript' \in Seq(Messages) /\ Whole(transcript')
    BY <2>1, <2>2, TakenPushesUsers DEF WholeTranscript
  <2>4. acked' \subseteq Inputs /\ faults' \in Nat
    BY <2>1, <2>2 DEF Taken, AckFails, SafePointFails, Types
  <2>5. /\ pc' \in {"compact", "ended"}
        /\ outcome' \in Outcomes \cup {"none"} /\ (pc' # "ended" => outcome' = "none")
    BY <1>13, <2>1 DEF Steer, AckFails, SafePointFails, End, Types, Outcomes
  <2>6. UNCHANGED <<turnVars, reply, toolVars, summary, facts, cancelled, sent>>
    BY <1>13 DEF Steer
  <2> QED BY <2>3, <2>4, <2>5, <2>6
      DEF Types, WholeTranscript, turnVars, toolVars, Asked, Closed
<1> QED BY <1>1, <1>2, <1>3, <1>4, <1>5, <1>6, <1>7, <1>8, <1>9, <1>11, <1>12, <1>13, StepCases
    DEF OtherSteps

--------------------------------------------------------------------------------
(* The other steps, reduced. *)

\* What each of the other steps changes, as far as the invariants can tell.

\* The turn begins, or its facts cannot be written.
Opens ==
  /\ pc = "top" /\ step' = step + 1
  /\ Appends(Opening)
  /\ UNCHANGED <<transcript, batch, together, at, ran, acked>>
  /\ \/ /\ pc' = "connect" /\ outcome' = outcome
        /\ sent' = Shown(transcript, summary.replaced)
     \/ pc' = "ended" /\ outcome' = "error" /\ sent' = sent

\* An answer without calls is pushed and its turn closed.
Answers ==
  /\ pc = "received"
  /\ transcript' = Append(transcript, Message("assistant", <<>>, step))
  /\ Appends(Closing)
  /\ UNCHANGED <<step, batch, together, at, ran, acked, sent>>
  /\ \/ pc' = "follow_up" /\ outcome' = outcome /\ Closing \subseteq facts'
     \/ pc' = "ended" /\ outcome' = "error"

\* Inputs that waited at "from" are taken, and the engine goes on at "to".
Takes(waiting, from, to) ==
  /\ pc = from
  /\ UNCHANGED <<step, batch, together, at, ran, facts, sent>>
  /\ acked \subseteq acked'
  /\ \/ pc' = "ended" /\ outcome' = "error"
     \/ /\ pc' = to /\ outcome' = outcome
        /\ \E inputs \in SUBSET waiting :
             /\ acked' = acked \cup inputs
             /\ \E users : Users(users, inputs) /\ transcript' = transcript \o users

\* The batch is prepared, or its facts cannot be written.
Prepares ==
  /\ pc = "received"
  /\ Len(batch') \in 1 .. MaxBatch
  /\ \A i \in 1 .. Len(batch') : batch'[i].rejected \/ reply'.reason = "tool_use"
  /\ at' = 1
  /\ Appends(Preparing(Len(batch')))
  /\ UNCHANGED <<transcript, step, ran, acked, sent>>
  /\ \/ pc' = "execute" /\ outcome' = outcome /\ Preparing(Len(batch')) \subseteq facts'
     \/ pc' = "ended" /\ outcome' = "error"

\* Handlers are run.
Runs ==
  /\ pc = "execute" /\ at <= Len(batch)
  /\ \E group \in SUBSET (at .. Len(batch)) :
       /\ ran' = ran \cup {<<step, i>> : i \in group}
       /\ \A i \in group : ~batch[i].rejected
       /\ together \/ group = {at}
  /\ UNCHANGED <<pc, outcome, transcript, step, reply, batch, together, at, facts, cancelled,
                 acked, sent>>

\* A call is completed, or marked uncertain, or neither.
Concludes ==
  /\ pc = "execute" /\ at <= Len(batch)
  /\ UNCHANGED <<transcript, step, reply, batch, together, ran, acked, sent>>
  /\ \/ /\ facts' = facts \cup {CallFact("ToolCallCompleted", step, at)}
        /\ at' = at + 1
        /\ UNCHANGED <<pc, outcome>>
     \/ /\ pc' = "ended" /\ at' = at /\ cancelled'
        /\ \/ outcome' = "error" /\ facts' = facts \cup {CallFact("Uncertain", step, at)}
           \/ outcome' = "recovery_blocked" /\ facts' = facts

\* The batch is pushed and its turn closed.
CommitsBatch ==
  /\ pc = "execute" /\ at > Len(batch)
  /\ transcript' = transcript \o BatchMessages
  /\ Appends(Closing)
  /\ UNCHANGED <<step, ran, acked, sent>>
  /\ \/ pc' = "steer" /\ outcome' = outcome /\ Closing \subseteq facts'
     \/ pc' = "ended" /\ outcome' = "error"

\* The action BeginTurn.
LEMMA BeginTurnOpens ==
  ASSUME Types, BeginTurn  PROVE Opens
<1>1. UNCHANGED <<batch, together, at, ran>>
  BY DEF BeginTurn, toolVars
<1>2. UNCHANGED <<transcript, acked>> /\ pc = "top"
  BY DEF BeginTurn
<1> QED BY <1>1, <1>2, OpeningMoves DEF Opens

\* The action Answer.
LEMMA AnswerAnswers ==
  ASSUME Types, Answer  PROVE Answers
<1>1. /\ Appends(Closing)
      /\ \/ pc' = "follow_up" /\ outcome' = outcome /\ Closing \subseteq facts'
         \/ pc' = "ended" /\ outcome' = "error"
  BY CommitOfClosing DEF Answer, Appends
<1>2. UNCHANGED <<batch, together, at, ran>> /\ step' = step
  BY DEF Answer, toolVars, turnVars
<1> QED BY <1>1, <1>2 DEF Answers, Answer

\* The action FollowUp.
LEMMA FollowUpTakes ==
  ASSUME Types, WholeTranscript, FollowUp  PROVE Takes(FollowUps, "follow_up", "top")
<1>1. PICK inputs \in SUBSET (FollowUps \ acked) :
        \/ Taken(inputs) /\ pc' = "top" /\ UNCHANGED <<outcome, faults>>
        \/ AckFails(inputs) /\ UNCHANGED transcript
  BY DEF FollowUp
<1>2. inputs \subseteq Inputs /\ inputs \in SUBSET FollowUps
  BY DEF Inputs
<1>3. /\ UNCHANGED <<batch, together, at, ran>> /\ UNCHANGED <<step, facts, sent>>
      /\ pc = "follow_up"
  BY DEF FollowUp, toolVars, turnVars
<1>4. CASE Taken(inputs) /\ pc' = "top" /\ UNCHANGED <<outcome, faults>>
  <2>1. /\ acked' = acked \cup inputs
        /\ \E users : Users(users, inputs) /\ transcript' = transcript \o users
    BY <1>2, <1>4, TakenPushesUsers
  <2>2. acked \subseteq acked' /\ pc' = "top" /\ outcome' = outcome
    BY <1>4, <2>1
  <2> QED BY <1>2, <1>3, <2>1, <2>2 DEF Takes
<1>5. CASE AckFails(inputs) /\ UNCHANGED transcript
  <2>1. acked \subseteq acked' /\ pc' = "ended" /\ outcome' = "error"
    BY <1>5 DEF AckFails, End
  <2> QED BY <1>3, <2>1 DEF Takes
<1> QED BY <1>1, <1>4, <1>5

\* The action Steer.
LEMMA SteerTakes ==
  ASSUME Types, WholeTranscript, Steer  PROVE Takes(Steering, "steer", "compact")
<1>1. PICK inputs \in SUBSET (Steering \ acked) :
        \/ Taken(inputs) /\ pc' = "compact" /\ UNCHANGED <<outcome, faults>>
        \/ AckFails(inputs) /\ UNCHANGED transcript
        \/ SafePointFails /\ UNCHANGED <<acked, transcript>>
  BY DEF Steer
<1>2. inputs \subseteq Inputs /\ inputs \in SUBSET Steering
  BY DEF Inputs
<1>3. /\ UNCHANGED <<batch, together, at, ran>> /\ UNCHANGED <<step, facts, sent>>
      /\ pc = "steer"
  BY DEF Steer, toolVars, turnVars
<1>4. CASE Taken(inputs) /\ pc' = "compact" /\ UNCHANGED <<outcome, faults>>
  <2>1. /\ acked' = acked \cup inputs
        /\ \E users : Users(users, inputs) /\ transcript' = transcript \o users
    BY <1>2, <1>4, TakenPushesUsers
  <2>2. acked \subseteq acked' /\ pc' = "compact" /\ outcome' = outcome
    BY <1>4, <2>1
  <2> QED BY <1>2, <1>3, <2>1, <2>2 DEF Takes
<1>5. CASE AckFails(inputs) /\ UNCHANGED transcript
  <2>1. acked \subseteq acked' /\ pc' = "ended" /\ outcome' = "error"
    BY <1>5 DEF AckFails, End
  <2> QED BY <1>3, <2>1 DEF Takes
<1>6. CASE SafePointFails /\ UNCHANGED <<acked, transcript>>
  <2>1. acked \subseteq acked' /\ pc' = "ended" /\ outcome' = "error"
    BY <1>6 DEF SafePointFails, End
  <2> QED BY <1>3, <2>1 DEF Takes
<1> QED BY <1>1, <1>4, <1>5, <1>6

\* The action Prepare.
LEMMA PreparePrepares ==
  ASSUME Types, Prepare  PROVE Prepares
<1>1. PICK denied \in SUBSET DOMAIN reply.calls :
        batch' = [i \in DOMAIN reply.calls |->
                    [id |-> reply.calls[i],
                     rejected |-> ~Authorised(reply.reason) \/ i \in denied]]
  BY DEF Prepare
<1>2. /\ reply.calls \in Seq(CallIds) /\ Len(reply.calls) <= MaxBatch
      /\ DOMAIN reply.calls = 1 .. Len(reply.calls) /\ reply.calls # <<>>
  BY DEF Types, Replies, Prepare
<1>3. PICK n \in Nat : n = Len(reply.calls)
  BY <1>2
<1>4. n \in 1 .. MaxBatch
  <2>1. n # 0
    BY <1>2, <1>3
  <2> QED BY <1>2, <1>3, <2>1, EngineAssumption
<1>5. Len(batch') = n
  BY <1>1, <1>2, <1>3
<1>6. \A i \in 1 .. n : batch'[i].rejected \/ reply.reason = "tool_use"
  BY <1>1, <1>2, <1>3 DEF Authorised
<1>7. /\ Appends(Preparing(n))
      /\ \/ pc' = "execute" /\ outcome' = outcome /\ Preparing(n) \subseteq facts'
         \/ pc' = "ended" /\ outcome' = "error"
  BY <1>3, PreparedFactsOfTheBatch, FailedCommit DEF Prepare, Commit, Appends
<1>8. at' = 1 /\ pc = "received" /\ UNCHANGED <<transcript, step, reply, ran, acked, sent>>
  BY DEF Prepare, turnVars
<1> QED BY <1>4, <1>5, <1>6, <1>7, <1>8 DEF Prepares

\* The action RunCalls.
LEMMA RunCallsRuns ==
  ASSUME Types, RunCalls  PROVE Runs
<1>1. /\ pc = "execute" /\ at <= Len(batch) /\ at \in Nat /\ Len(batch) \in Nat
      /\ ~batch[at].rejected
  BY DEF RunCalls, Executing, Types
<1>2. Group \in SUBSET (at .. Len(batch))
  BY <1>1 DEF Group
<1>3. \A i \in Group : ~batch[i].rejected
  BY <1>1 DEF Group
<1>4. together \/ Group = {at}
  BY DEF Group
<1>5. UNCHANGED <<pc, outcome, transcript, step, reply, batch, together, at, facts, cancelled,
                  acked, sent>>
  BY DEF RunCalls, turnVars
<1>6. ran' = ran \cup {<<step, i>> : i \in Group}
  BY DEF RunCalls
<1> QED BY <1>1, <1>2, <1>3, <1>4, <1>5, <1>6 DEF Runs

\* The action ConcludeCall.
LEMMA ConcludeCallConcludes ==
  ASSUME Types, ConcludeCall  PROVE Concludes
<1>1. pc = "execute" /\ at <= Len(batch)
  BY DEF ConcludeCall, Executing
<1>2. UNCHANGED <<transcript, step, reply, batch, together, ran, acked, sent>>
  BY DEF ConcludeCall, turnVars
<1>3. CASE /\ Commit(<<CallFact("ToolCallCompleted", step, at)>>)
           /\ at' = at + 1
           /\ UNCHANGED <<pc, outcome, cancelled>>
  <2>1. facts' = facts \cup {CallFact("ToolCallCompleted", step, at)}
    BY <1>3, ToSetOfOne DEF Commit
  <2> QED BY <1>1, <1>2, <1>3, <2>1 DEF Concludes
<1>4. CASE CompletionFails
  <2>1. /\ at' = at /\ cancelled' /\ pc' = "ended"
        /\ \/ outcome' = "error" /\ facts' = facts \cup {CallFact("Uncertain", step, at)}
           \/ outcome' = "recovery_blocked" /\ facts' = facts
    BY <1>4 DEF CompletionFails, End
  <2> QED BY <1>1, <1>2, <2>1 DEF Concludes
<1> QED BY <1>3, <1>4 DEF ConcludeCall

\* The action CommitBatch.
LEMMA CommitBatchCommits ==
  ASSUME Types, WholeTranscript, CommitBatch  PROVE CommitsBatch
<1>1. transcript' = transcript \o BatchMessages
  BY CommittedBatchIsWhole
<1>2. /\ Appends(Closing)
      /\ \/ pc' = "steer" /\ outcome' = outcome /\ Closing \subseteq facts'
         \/ pc' = "ended" /\ outcome' = "error"
  BY CommitOfClosing DEF CommitBatch, Appends, End
<1>3. pc = "execute" /\ at > Len(batch) /\ UNCHANGED <<step, ran, acked, sent>>
  BY DEF CommitBatch, turnVars
<1> QED BY <1>1, <1>2, <1>3 DEF CommitsBatch

\* Nothing the invariants speak of has changed.
Stays == UNCHANGED <<pc, outcome, transcript, step, reply, batch, together, at, ran, facts,
                     cancelled, acked, sent>>

\* A step, as far as the invariants can tell.
Moves ==
  \/ Stays \/ AskedMoves \/ QuietMoves \/ CompactingMoves
  \/ Opens \/ Answers \/ Takes(FollowUps, "follow_up", "top")
  \/ Prepares \/ Runs \/ Concludes \/ CommitsBatch \/ Takes(Steering, "steer", "compact")

\* Every step is one of these.
LEMMA EveryStepMoves ==
  ASSUME Types, WholeTranscript, [Next]_vars
  PROVE  Moves
<1>1. CASE UNCHANGED vars
  <2>1. Stays
    BY <1>1 DEF Stays, vars, turnVars, toolVars
  <2> QED BY <2>1 DEF Moves
<1>2. CASE OtherSteps
  BY <1>2, BeginTurnOpens, AnswerAnswers, FollowUpTakes, PreparePrepares, RunCallsRuns,
     ConcludeCallConcludes, CommitBatchCommits, SteerTakes DEF OtherSteps, Moves
<1> QED BY <1>1, <1>2, StepCases, StepsWhileAsked, StepsThatAreQuiet, StepsThatCompact DEF Moves

--------------------------------------------------------------------------------
(* Turns are closed. *)

\* The outcomes a run has by its own account.
Own == {"completed", "failed", "cancelled"}

\* The turns that are over are closed, and the one that is on is closed where the engine stands
\* between two turns.
ClosedTurns ==
  /\ \A f \in facts : f[2] <= step
  /\ \A t \in 1 .. step :
       t < step \/ pc \in Closed \/ outcome \in Own => Fact("TurnCompleted", t) \in facts

\* The turns of the facts a step appends.
LEMMA FactsOfTheTurn ==
  ASSUME step \in Nat
  PROVE  /\ \A f \in Closing \cup Sending \cup Snapshot : f[2] = step
         /\ \A f \in Opening : f[2] = step + 1
         /\ \A n \in Nat : \A f \in Preparing(n) : f[2] = step
         /\ \A kind, i : CallFact(kind, step, i)[2] = step
         /\ Fact("TurnCompleted", step) \in Closing
         /\ Fact("MessageCompleted", step) \in Closing
BY DEF Closing, Sending, Snapshot, Opening, Preparing, Fact, CallFact

\* A step that stays in its turn and moves to no place between two turns, or closes it.
LEMMA SameTurnKeepsClosed ==
  ASSUME Types, ClosedTurns, step' = step, facts \subseteq facts',
         \A f \in facts' : f \in facts \/ f[2] = step,
         pc' \in Closed \/ outcome' \in Own => \/ pc \in Closed \/ outcome \in Own
                                               \/ Closing \subseteq facts'
                                               \/ step = 0
  PROVE  ClosedTurns'
<1>1. step \in Nat
  BY DEF Types
<1>2. \A f \in facts' : f[2] <= step'
  BY <1>1 DEF ClosedTurns
<1>3. ASSUME NEW t \in 1 .. step', t < step' \/ pc' \in Closed \/ outcome' \in Own
      PROVE  Fact("TurnCompleted", t) \in facts'
  <2>1. t \in 1 .. step /\ t \in Nat /\ step # 0
    BY <1>1, <1>3
  <2>2. CASE t < step \/ pc \in Closed \/ outcome \in Own
    BY <2>1, <2>2 DEF ClosedTurns
  <2>3. CASE Closing \subseteq facts' /\ t = step
    BY <1>1, <2>3, FactsOfTheTurn
  <2>4. t < step \/ t = step
    BY <1>1, <2>1
  <2> QED BY <1>3, <2>1, <2>2, <2>3, <2>4
<1> QED BY <1>2, <1>3 DEF ClosedTurns

\* Every step keeps the turns closed.
LEMMA ClosedTurnsKept ==
  ASSUME Types, ClosedTurns, Moves
  PROVE  ClosedTurns'
<1>0. /\ step \in Nat /\ MaxBatch \in Nat
      /\ pc # "ended" => outcome = "none"
      /\ "none" \notin Own /\ "error" \notin Own /\ "hook_refused" \notin Own
      /\ "recovery_blocked" \notin Own
  BY EngineAssumption DEF Types, Own
<1>1. CASE Stays
  BY <1>1 DEF Stays, ClosedTurns
<1>2. CASE AskedMoves
  <2>1. /\ facts \subseteq facts' /\ \A f \in facts' : f \in facts \/ f[2] = step
    BY <1>0, <1>2, FactsOfTheTurn DEF AskedMoves, Appends
  <2>2. pc' \notin Closed /\ pc # "ended" /\ step' = step
    BY <1>2 DEF AskedMoves, Asked, Closed
  <2>3. outcome' \in Own => Closing \subseteq facts'
    BY <1>0, <1>2, <2>2 DEF AskedMoves
  <2> QED BY <2>1, <2>2, <2>3, SameTurnKeepsClosed
<1>3. CASE QuietMoves
  <2>1. /\ facts \subseteq facts' /\ \A f \in facts' : f \in facts \/ f[2] = step
    BY <1>0, <1>3, FactsOfTheTurn DEF QuietMoves, Appends
  <2>2. step' = step /\ pc # "ended"
    BY <1>3 DEF QuietMoves
  <2>3. pc' \in Closed \/ outcome' \in Own => pc \in Closed \/ outcome \in Own \/ step = 0
    BY <1>0, <1>3, <2>2 DEF QuietMoves, Closed, Types
  <2> QED BY <2>1, <2>2, <2>3, SameTurnKeepsClosed
<1>4. CASE CompactingMoves
  <2>1. /\ facts \subseteq facts' /\ \A f \in facts' : f \in facts \/ f[2] = step
    BY <1>0, <1>4, FactsOfTheTurn DEF CompactingMoves, Appends
  <2>2. step' = step /\ pc \in {"compact", "overflow"}
    BY <1>4 DEF CompactingMoves, Compacting
  <2>3. pc' \in Closed \/ outcome' \in Own => pc \in Closed
    BY <1>0, <1>4, <2>2 DEF CompactingMoves, Closed
  <2> QED BY <2>1, <2>2, <2>3, SameTurnKeepsClosed
<1>5. CASE Opens
  <2>1. step' = step + 1 /\ pc \in Closed /\ pc' \notin Closed /\ outcome' \notin Own
    BY <1>0, <1>5 DEF Opens, Closed
  <2>2. \A f \in facts' : f[2] <= step'
    <3>1. \A f \in facts' : f \in facts \/ f[2] = step + 1
      BY <1>0, <1>5, FactsOfTheTurn DEF Opens, Appends
    <3>2. \A f \in facts : f[2] \in Nat
      BY DEF Types
    <3> QED BY <1>0, <2>1, <3>1, <3>2 DEF ClosedTurns
  <2>3. ASSUME NEW t \in 1 .. step', t < step'  PROVE Fact("TurnCompleted", t) \in facts'
    <3>1. t \in 1 .. step
      BY <1>0, <2>1, <2>3
    <3>2. Fact("TurnCompleted", t) \in facts
      BY <2>1, <3>1 DEF ClosedTurns
    <3> QED BY <1>5, <3>2 DEF Opens, Appends
  <2> QED BY <2>1, <2>2, <2>3 DEF ClosedTurns
<1>6. CASE Answers
  <2>1. /\ facts \subseteq facts' /\ \A f \in facts' : f \in facts \/ f[2] = step
    BY <1>0, <1>6, FactsOfTheTurn DEF Answers, Appends
  <2>2. pc' \in Closed \/ outcome' \in Own => Closing \subseteq facts'
    BY <1>0, <1>6 DEF Answers, Closed
  <2> QED BY <1>6, <2>1, <2>2, SameTurnKeepsClosed DEF Answers
<1>7. CASE Takes(FollowUps, "follow_up", "top") \/ Takes(Steering, "steer", "compact")
  <2>1. step' = step /\ facts' = facts /\ pc \in Closed
    BY <1>7 DEF Takes, Closed
  <2> QED BY <2>1, SameTurnKeepsClosed
<1>8. CASE Prepares
  <2>1. /\ facts \subseteq facts' /\ \A f \in facts' : f \in facts \/ f[2] = step
    <3>1. PICK n \in 1 .. MaxBatch : n = Len(batch')
      BY <1>8 DEF Prepares
    <3>2. n \in Nat /\ Appends(Preparing(n))
      BY <1>0, <1>8, <3>1 DEF Prepares
    <3> QED BY <1>0, <3>2, FactsOfTheTurn DEF Appends
  <2>2. step' = step /\ pc' \notin Closed /\ outcome' \notin Own
    BY <1>0, <1>8 DEF Prepares, Closed
  <2> QED BY <2>1, <2>2, SameTurnKeepsClosed
<1>9. CASE Runs
  BY <1>9 DEF Runs, ClosedTurns
<1>10. CASE Concludes
  <2>1. /\ facts \subseteq facts' /\ \A f \in facts' : f \in facts \/ f[2] = step
    <3>1. facts' \subseteq facts \cup {CallFact("ToolCallCompleted", step, at),
                                       CallFact("Uncertain", step, at)}
      BY <1>10 DEF Concludes
    <3>2. facts \subseteq facts'
      BY <1>10 DEF Concludes
    <3> QED BY <1>0, <3>1, <3>2, FactsOfTheTurn
  <2>2. step' = step /\ pc' \notin Closed /\ outcome' \notin Own
    BY <1>0, <1>10 DEF Concludes, Closed
  <2> QED BY <2>1, <2>2, SameTurnKeepsClosed
<1>11. CASE CommitsBatch
  <2>1. /\ facts \subseteq facts' /\ \A f \in facts' : f \in facts \/ f[2] = step
    BY <1>0, <1>11, FactsOfTheTurn DEF CommitsBatch, Appends
  <2>2. pc' \in Closed \/ outcome' \in Own => Closing \subseteq facts'
    BY <1>0, <1>11 DEF CommitsBatch, Closed
  <2> QED BY <1>11, <2>1, <2>2, SameTurnKeepsClosed DEF CommitsBatch
<1> QED BY <1>1, <1>2, <1>3, <1>4, <1>5, <1>6, <1>7, <1>8, <1>9, <1>10, <1>11 DEF Moves

\* The part of the invariant says what the run checks.
LEMMA ClosedTurnsClose ==
  Types /\ ClosedTurns => TurnsAreClosed
<1> SUFFICES ASSUME Types, ClosedTurns  PROVE TurnsAreClosed
  OBVIOUS
<1>1. step \in Nat
  BY DEF Types
<1>2. \A t \in 1 .. step - 1 : ~Open(t)
  <2> SUFFICES ASSUME NEW t \in 1 .. step - 1  PROVE Fact("TurnCompleted", t) \in facts
    BY DEF Open
  <2>1. t \in 1 .. step /\ t < step
    BY <1>1
  <2> QED BY <2>1 DEF ClosedTurns
<1>3. ASSUME outcome \in Own, NEW t \in Turns  PROVE ~Open(t)
  <2>1. SUFFICES ASSUME Fact("TurnStarted", t) \in facts
                 PROVE  Fact("TurnCompleted", t) \in facts
    BY DEF Open
  <2>2. Fact("TurnStarted", t)[2] = t /\ t \in Nat \ {0}
    BY EngineAssumption DEF Fact, Turns
  <2>3. t <= step
    BY <2>1, <2>2 DEF ClosedTurns
  <2>4. t \in 1 .. step
    BY <1>1, <2>2, <2>3
  <2> QED BY <1>3, <2>4 DEF ClosedTurns
<1> QED BY <1>2, <1>3 DEF TurnsAreClosed, Own

--------------------------------------------------------------------------------
\* What was run was prepared, and what runs in this turn is one of the calls of the batch the
\* provider stopped for and no hook rejected.
RanPrepared ==
  /\ \A c \in ran : /\ c[1] \in 1 .. step
                    /\ CallFact("ToolCallPrepared", c[1], c[2]) \in facts
  /\ pc \in Asked => \A c \in ran : c[1] < step
  /\ pc = "execute" =>
       /\ Len(batch) > 0
       /\ \A i \in 1 .. Len(batch) : /\ CallFact("ToolCallPrepared", step, i) \in facts
                                     /\ batch[i].rejected \/ reply.reason = "tool_use"
       /\ \A c \in ran : c[1] = step => c[2] \in 1 .. Len(batch) /\ ~batch[c[2]].rejected

\* A step that runs nothing, and does not come back to the place where calls are asked for.
LEMMA RunningNothingKeepsPrepared ==
  ASSUME Types, RanPrepared, ran' = ran, facts \subseteq facts', step' = step,
         pc' \in Asked => pc \in Asked,
         pc' = "execute" => pc = "execute" /\ batch' = batch /\ reply' = reply
  PROVE  RanPrepared'
<1>1. \A c \in ran : /\ c[1] \in 1 .. step
                     /\ CallFact("ToolCallPrepared", c[1], c[2]) \in facts
  BY DEF RanPrepared
<1>2. pc' \in Asked => \A c \in ran : c[1] < step
  BY DEF RanPrepared
<1>3. pc' = "execute" =>
        /\ Len(batch') > 0
        /\ \A i \in 1 .. Len(batch') : /\ CallFact("ToolCallPrepared", step', i) \in facts'
                                       /\ batch'[i].rejected \/ reply'.reason = "tool_use"
        /\ \A c \in ran' : c[1] = step' => c[2] \in 1 .. Len(batch') /\ ~batch'[c[2]].rejected
  <2> SUFFICES ASSUME pc' = "execute"
               PROVE  /\ Len(batch) > 0
                      /\ \A i \in 1 .. Len(batch) :
                           /\ CallFact("ToolCallPrepared", step, i) \in facts
                           /\ batch[i].rejected \/ reply.reason = "tool_use"
                      /\ \A c \in ran : c[1] = step => c[2] \in 1 .. Len(batch)
                                                       /\ ~batch[c[2]].rejected
    OBVIOUS
  <2> QED BY DEF RanPrepared
<1> QED BY <1>1, <1>2, <1>3 DEF RanPrepared

\* Every step keeps what was run prepared.
LEMMA RanPreparedKept ==
  ASSUME Types, RanPrepared, Moves
  PROVE  RanPrepared'
<1>0. step \in Nat /\ at \in Nat \ {0} /\ MaxBatch \in Nat /\ ran \subseteq Nat \X Nat
  BY EngineAssumption DEF Types
<1>1. CASE Stays
  BY <1>1, RunningNothingKeepsPrepared DEF Stays
<1>2. CASE AskedMoves
  <2>1. ran' = ran
    BY <1>2 DEF AskedMoves, toolVars
  <2>2. /\ facts \subseteq facts' /\ step' = step /\ pc \in Asked /\ pc' # "execute"
    BY <1>2 DEF AskedMoves, Appends, Asked
  <2> QED BY <2>1, <2>2, RunningNothingKeepsPrepared
<1>3. CASE QuietMoves
  <2>1. ran' = ran /\ batch' = batch
    BY <1>3 DEF QuietMoves, toolVars
  <2>2. /\ facts \subseteq facts' /\ step' = step /\ reply' = reply
        /\ pc' \in Asked => pc \in Asked
        /\ pc' = "execute" => pc = "execute"
    BY <1>3 DEF QuietMoves, Appends, Asked
  <2> QED BY <2>1, <2>2, RunningNothingKeepsPrepared
<1>4. CASE CompactingMoves
  <2>1. ran' = ran
    BY <1>4 DEF CompactingMoves, toolVars
  <2>2. /\ facts \subseteq facts' /\ step' = step
        /\ pc' \in Asked => pc \in Asked
        /\ pc' # "execute"
    BY <1>4 DEF CompactingMoves, Appends, Asked
  <2> QED BY <2>1, <2>2, RunningNothingKeepsPrepared
<1>5. CASE Opens
  <2>1. step' = step + 1 /\ ran' = ran /\ facts \subseteq facts' /\ pc' # "execute"
    BY <1>5 DEF Opens, Appends
  <2>2. \A c \in ran' : /\ c[1] \in 1 .. step' /\ c[1] < step'
                        /\ CallFact("ToolCallPrepared", c[1], c[2]) \in facts'
    <3>1. \A c \in ran : c[1] \in 1 .. step
                         /\ CallFact("ToolCallPrepared", c[1], c[2]) \in facts
      BY DEF RanPrepared
    <3> QED BY <1>0, <2>1, <3>1
  <2> QED BY <2>1, <2>2 DEF RanPrepared
<1>6. CASE Answers
  BY <1>6, RunningNothingKeepsPrepared DEF Answers, Appends, Asked
<1>7. CASE Takes(FollowUps, "follow_up", "top") \/ Takes(Steering, "steer", "compact")
  BY <1>7, RunningNothingKeepsPrepared DEF Takes, Asked
<1>8. CASE Prepares
  <2>1. \A c \in ran : c[1] < step
    BY <1>8 DEF RanPrepared, Prepares, Asked
  <2>2. ran' = ran /\ step' = step /\ facts \subseteq facts' /\ pc' \notin Asked
        /\ Len(batch') \in 1 .. MaxBatch
    BY <1>8 DEF Prepares, Appends, Asked
  <2>3. \A i \in 1 .. Len(batch') : batch'[i].rejected \/ reply'.reason = "tool_use"
    BY <1>8 DEF Prepares
  <2>4. ASSUME pc' = "execute", NEW i \in 1 .. Len(batch')
        PROVE  CallFact("ToolCallPrepared", step', i) \in facts'
    <3>1. CallFact("ToolCallPrepared", step, i) \in Preparing(Len(batch'))
      BY DEF Preparing
    <3> QED BY <1>8, <2>2, <2>4, <3>1 DEF Prepares
  <2>5. \A c \in ran' : /\ c[1] \in 1 .. step' /\ c[1] # step'
                        /\ CallFact("ToolCallPrepared", c[1], c[2]) \in facts'
    <3>1. \A c \in ran : c[1] \in 1 .. step
                         /\ CallFact("ToolCallPrepared", c[1], c[2]) \in facts
      BY DEF RanPrepared
    <3> QED BY <1>0, <2>1, <2>2, <3>1
  <2>6. Len(batch') > 0
    BY <2>2, <1>0
  <2> QED BY <2>2, <2>3, <2>4, <2>5, <2>6 DEF RanPrepared
<1>9. CASE Runs
  <2>1. PICK group \in SUBSET (at .. Len(batch)) :
          /\ ran' = ran \cup {<<step, i>> : i \in group}
          /\ \A i \in group : ~batch[i].rejected
    BY <1>9 DEF Runs
  <2>2. /\ pc = "execute" /\ UNCHANGED <<pc, step, batch, reply, facts>>
    BY <1>9 DEF Runs
  <2>3. Len(batch) \in Nat /\ step > 0 /\ pc \notin Asked
    BY <2>2 DEF Types, Asked
  <2>4. \A i \in group : i \in 1 .. Len(batch)
    BY <1>0, <2>3
  <2>5. /\ \A c \in ran : /\ c[1] \in 1 .. step
                          /\ CallFact("ToolCallPrepared", c[1], c[2]) \in facts
                          /\ c[1] = step => c[2] \in 1 .. Len(batch) /\ ~batch[c[2]].rejected
        /\ \A i \in 1 .. Len(batch) : /\ CallFact("ToolCallPrepared", step, i) \in facts
                                      /\ batch[i].rejected \/ reply.reason = "tool_use"
        /\ Len(batch) > 0
    BY <2>2 DEF RanPrepared
  <2>6. ASSUME NEW c \in ran'
        PROVE  /\ c[1] \in 1 .. step
               /\ CallFact("ToolCallPrepared", c[1], c[2]) \in facts
               /\ c[1] = step => c[2] \in 1 .. Len(batch) /\ ~batch[c[2]].rejected
    <3>1. CASE c \in ran
      BY <2>5, <3>1
    <3>2. CASE c \notin ran
      <4>1. PICK i \in group : c = <<step, i>>
        BY <2>1, <3>2
      <4>2. c[1] = step /\ c[2] = i /\ i \in 1 .. Len(batch)
        BY <2>4, <4>1
      <4>3. step \in 1 .. step
        BY <1>0, <2>3
      <4> QED BY <2>1, <2>5, <4>2, <4>3
    <3> QED BY <3>1, <3>2
  <2> QED BY <2>2, <2>3, <2>5, <2>6 DEF RanPrepared
<1>10. CASE Concludes
  BY <1>10, RunningNothingKeepsPrepared DEF Concludes, Asked
<1>11. CASE CommitsBatch
  BY <1>11, RunningNothingKeepsPrepared DEF CommitsBatch, Appends, Asked
<1> QED BY <1>1, <1>2, <1>3, <1>4, <1>5, <1>6, <1>7, <1>8, <1>9, <1>10, <1>11 DEF Moves

\* The part of the invariant says what the run checks.
LEMMA PreparedIsAuthorised ==
  Types /\ RanPrepared => RanWasAuthorised
<1> SUFFICES ASSUME Types, RanPrepared  PROVE RanWasAuthorised
  OBVIOUS
<1>1. \A c \in ran : CallFact("ToolCallPrepared", c[1], c[2]) \in facts
  BY DEF RanPrepared
<1>2. ASSUME pc = "execute", NEW i \in DOMAIN batch, <<step, i>> \in ran
      PROVE  reply.reason = "tool_use" /\ ~batch[i].rejected
  <2>1. i \in 1 .. Len(batch)
    BY DEF Types
  <2>2. <<step, i>>[1] = step /\ <<step, i>>[2] = i
    OBVIOUS
  <2>3. ~batch[i].rejected
    BY <1>2, <2>2 DEF RanPrepared
  <2>4. batch[i].rejected \/ reply.reason = "tool_use"
    BY <1>2, <2>1 DEF RanPrepared
  <2> QED BY <2>3, <2>4
<1> QED BY <1>1, <1>2 DEF RanWasAuthorised

--------------------------------------------------------------------------------
(* What was run is accounted for. *)

\* The fact of a completed call.
Done(t, i) == CallFact("ToolCallCompleted", t, i)

\* What was run is completed in the journal, up to the call the engine is at; and of a batch
\* whose calls do not run together nothing behind that call was run.
RanAccounted ==
  /\ \A c \in ran : c[1] < step \/ pc \notin {"execute", "ended"} => Done(c[1], c[2]) \in facts
  /\ pc = "execute" =>
       /\ \A i \in 1 .. at - 1 : Done(step, i) \in facts
       /\ at <= Len(batch) + 1
       /\ together \/ \A c \in ran : c[1] = step => c[2] <= at
  /\ EffectsAreAccountedFor

\* The run ends, or goes on, with all that was run completed.
LEMMA AllCompleted ==
  ASSUME pc' # "execute", \A c \in ran' : Done(c[1], c[2]) \in facts'
  PROVE  RanAccounted'
BY DEF RanAccounted, EffectsAreAccountedFor, Done

\* All that was run is completed where no batch is under way.
LEMMA BetweenBatches ==
  ASSUME RanAccounted, pc \notin {"execute", "ended"}, facts \subseteq facts', ran' = ran,
         pc' # "execute"
  PROVE  RanAccounted'
<1>1. \A c \in ran' : Done(c[1], c[2]) \in facts'
  BY DEF RanAccounted
<1> QED BY <1>1, AllCompleted

\* What was completed stays so while the batch is under way.
LEMMA WhileExecuting ==
  ASSUME Types, RanAccounted, pc = "execute", facts \subseteq facts', step' = step
  PROVE  /\ \A c \in ran : c[1] < step => Done(c[1], c[2]) \in facts'
         /\ \A i \in 1 .. at - 1 : Done(step, i) \in facts'
<1>1. \A c \in ran : c[1] < step => Done(c[1], c[2]) \in facts
  BY DEF RanAccounted
<1>2. \A i \in 1 .. at - 1 : Done(step, i) \in facts
  BY DEF RanAccounted
<1> QED BY <1>1, <1>2 DEF Done

\* Every step keeps what was run accounted for.
LEMMA RanAccountedKept ==
  ASSUME Types, RanPrepared, RanAccounted, Moves
  PROVE  RanAccounted'
<1>0. /\ step \in Nat /\ at \in Nat \ {0} /\ MaxBatch \in Nat /\ Len(batch) \in Nat
      /\ ran \subseteq Nat \X Nat
      /\ pc # "ended" => outcome = "none"
  BY EngineAssumption DEF Types
<1>1. CASE Stays
  BY <1>1 DEF Stays, RanAccounted, EffectsAreAccountedFor, Done
<1>2. CASE AskedMoves
  <2>1. ran' = ran
    BY <1>2 DEF AskedMoves, toolVars
  <2>2. /\ facts \subseteq facts' /\ pc \notin {"execute", "ended"} /\ pc' # "execute"
    BY <1>2 DEF AskedMoves, Appends, Asked
  <2> QED BY <2>1, <2>2, BetweenBatches
<1>3. CASE QuietMoves
  <2>1. ran' = ran /\ batch' = batch /\ at' = at /\ together' = together
    BY <1>3 DEF QuietMoves, toolVars
  <2>2. facts \subseteq facts' /\ step' = step /\ pc # "ended"
    BY <1>3 DEF QuietMoves, Appends
  <2>3. CASE pc # "execute"
    <3>1. pc' # "execute"
      BY <1>3, <2>3 DEF QuietMoves
    <3> QED BY <2>1, <2>2, <2>3, <3>1, BetweenBatches
  <2>4. CASE pc = "execute"
    <3>1. \/ pc' = pc /\ outcome' = "none"
          \/ pc' = "ended" /\ outcome' = "hook_refused"
      BY <1>0, <1>3, <2>4 DEF QuietMoves
    <3>2. EffectsAreAccountedFor'
      BY <3>1 DEF EffectsAreAccountedFor, Outcomes
    <3>3. /\ \A c \in ran : c[1] < step => Done(c[1], c[2]) \in facts'
          /\ \A i \in 1 .. at - 1 : Done(step, i) \in facts'
      BY <2>2, <2>4, WhileExecuting
    <3>4. /\ at <= Len(batch) + 1
          /\ together \/ \A c \in ran : c[1] = step => c[2] <= at
      BY <2>4 DEF RanAccounted
    <3>5. \A c \in ran' : c[1] < step' \/ pc' \notin {"execute", "ended"}
            => Done(c[1], c[2]) \in facts'
      BY <2>1, <2>2, <2>4, <3>1, <3>3
    <3>6. \A i \in 1 .. at' - 1 : Done(step, i) \in facts'
      BY <2>1, <3>3
    <3> QED BY <2>1, <2>2, <3>2, <3>4, <3>5, <3>6 DEF RanAccounted, Done
  <2> QED BY <2>3, <2>4
<1>4. CASE CompactingMoves
  <2>1. ran' = ran
    BY <1>4 DEF CompactingMoves, toolVars
  <2>2. /\ facts \subseteq facts' /\ pc \notin {"execute", "ended"} /\ pc' # "execute"
    BY <1>4 DEF CompactingMoves, Compacting, Appends
  <2> QED BY <2>1, <2>2, BetweenBatches
<1>5. CASE Opens \/ Answers
  BY <1>5, BetweenBatches DEF Opens, Answers, Appends
<1>6. CASE Takes(FollowUps, "follow_up", "top") \/ Takes(Steering, "steer", "compact")
  BY <1>6, BetweenBatches DEF Takes
<1>7. CASE Prepares
  <2>1. \A c \in ran : c[1] < step
    BY <1>7 DEF RanPrepared, Prepares, Asked
  <2>2. ran' = ran /\ step' = step /\ facts \subseteq facts' /\ at' = 1
        /\ Len(batch') \in Nat /\ pc = "received"
    BY <1>0, <1>7 DEF Prepares, Appends
  <2>3. \A c \in ran' : Done(c[1], c[2]) \in facts'
    BY <2>2 DEF RanAccounted
  <2>4. CASE pc' = "execute"
    <3>1. outcome' = "none"
      BY <1>0, <1>7, <2>2, <2>4 DEF Prepares
    <3>2. EffectsAreAccountedFor'
      BY <3>1 DEF EffectsAreAccountedFor, Outcomes
    <3>3. \A c \in ran' : c[1] # step'
      BY <1>0, <2>1, <2>2
    <3>4. at' <= Len(batch') + 1 /\ 1 .. at' - 1 = {}
      BY <2>2
    <3> QED BY <2>3, <3>2, <3>3, <3>4 DEF RanAccounted
  <2> QED BY <2>3, <2>4, AllCompleted
<1>8. CASE Runs
  <2>1. PICK group \in SUBSET (at .. Len(batch)) :
          /\ ran' = ran \cup {<<step, i>> : i \in group}
          /\ together \/ group = {at}
    BY <1>8 DEF Runs
  <2>2. /\ pc = "execute" /\ UNCHANGED <<pc, outcome, step, batch, together, at, facts>>
    BY <1>8 DEF Runs
  <2>3. EffectsAreAccountedFor'
    BY <1>0, <2>2 DEF EffectsAreAccountedFor, Outcomes
  <2>4. /\ \A c \in ran : c[1] < step => Done(c[1], c[2]) \in facts'
        /\ \A i \in 1 .. at - 1 : Done(step, i) \in facts'
    BY <2>2, WhileExecuting
  <2>5. /\ at <= Len(batch) + 1
        /\ together \/ \A c \in ran : c[1] = step => c[2] <= at
    BY <2>2 DEF RanAccounted
  <2>6. \A c \in ran' : c \in ran \/ (c[1] = step /\ c[2] \in group)
    <3>1. \A c \in ran' : c \in ran \/ \E i \in group : c = <<step, i>>
      BY <2>1
    <3> QED BY <3>1
  <2>7. \A c \in ran' : c[1] < step => Done(c[1], c[2]) \in facts'
    BY <1>0, <2>4, <2>6
  <2>8. together \/ \A c \in ran' : c[1] = step => c[2] <= at
    BY <1>0, <2>1, <2>5, <2>6
  <2>9. \A i \in 1 .. at' - 1 : Done(step, i) \in facts'
    BY <2>2, <2>4
  <2> QED BY <2>2, <2>3, <2>5, <2>7, <2>8, <2>9 DEF RanAccounted, Done
<1>9. CASE Concludes
  <2>1. /\ pc = "execute" /\ at <= Len(batch) /\ facts \subseteq facts'
        /\ UNCHANGED <<step, batch, together, ran>>
    BY <1>9 DEF Concludes
  <2>2. /\ \A c \in ran : c[1] < step => Done(c[1], c[2]) \in facts'
        /\ \A i \in 1 .. at - 1 : Done(step, i) \in facts'
    BY <2>1, WhileExecuting
  <2>3. together \/ \A c \in ran : c[1] = step => c[2] <= at
    BY <2>1 DEF RanAccounted
  <2>4. \A c \in ran : c[1] \in 1 .. step /\ (c[1] = step => c[2] \in 1 .. Len(batch))
    BY <2>1 DEF RanPrepared
  <2>5. CASE /\ facts' = facts \cup {CallFact("ToolCallCompleted", step, at)}
             /\ at' = at + 1
             /\ UNCHANGED <<pc, outcome>>
    <3>1. EffectsAreAccountedFor'
      BY <1>0, <2>1, <2>5 DEF EffectsAreAccountedFor, Outcomes
    <3>2. \A i \in 1 .. at' - 1 : Done(step, i) \in facts'
      <4> SUFFICES ASSUME NEW i \in 1 .. at' - 1  PROVE Done(step, i) \in facts'
        OBVIOUS
      <4>1. i \in 1 .. at - 1 \/ i = at
        BY <1>0, <2>5
      <4>2. Done(step, at) \in facts'
        BY <2>1, <2>5 DEF Done
      <4> QED BY <2>2, <4>1, <4>2
    <3>3. at' <= Len(batch') + 1
      BY <1>0, <2>1, <2>5
    <3>4. together \/ \A c \in ran : c[1] = step => c[2] <= at'
      BY <1>0, <2>3, <2>4, <2>5
    <3> QED BY <2>1, <2>2, <2>5, <3>1, <3>2, <3>3, <3>4 DEF RanAccounted, Done
  <2>6. CASE /\ pc' = "ended" /\ at' = at /\ cancelled'
             /\ \/ outcome' = "error" /\ facts' = facts \cup {CallFact("Uncertain", step, at)}
                \/ outcome' = "recovery_blocked" /\ facts' = facts
    <3>1. CASE outcome' = "recovery_blocked"
      <4>1. EffectsAreAccountedFor'
        BY <3>1 DEF EffectsAreAccountedFor
      <4> QED BY <2>1, <2>2, <2>6, <4>1 DEF RanAccounted
    <3>2. CASE outcome' = "error" /\ facts' = facts \cup {CallFact("Uncertain", step, at)}
      <4>1. ASSUME ~together, NEW c \in ran
            PROVE  Done(c[1], c[2]) \in facts' \/ CallFact("Uncertain", c[1], c[2]) \in facts'
        <5>1. CASE c[1] < step
          BY <2>2, <5>1
        <5>2. CASE c[1] = step /\ c[2] < at
          <6>1. c[2] \in 1 .. at - 1
            BY <1>0, <2>4, <5>2
          <6> QED BY <2>2, <5>2, <6>1 DEF Done
        <5>3. CASE c[1] = step /\ c[2] = at
          BY <3>2, <5>3
        <5>4. c[1] < step \/ (c[1] = step /\ c[2] < at) \/ (c[1] = step /\ c[2] = at)
          <6>1. c[1] \in 1 .. step /\ (c[1] = step => c[2] \in Nat /\ c[2] <= at)
            BY <1>0, <2>3, <2>4, <4>1
          <6> QED BY <1>0, <6>1
        <5> QED BY <5>1, <5>2, <5>3, <5>4
      <4>2. EffectsAreAccountedFor'
        BY <2>1, <2>6, <4>1 DEF EffectsAreAccountedFor, Done
      <4> QED BY <2>1, <2>2, <2>6, <4>2 DEF RanAccounted
    <3> QED BY <2>6, <3>1, <3>2
  <2> QED BY <1>9, <2>5, <2>6 DEF Concludes
<1>10. CASE CommitsBatch
  <2>1. /\ pc = "execute" /\ at > Len(batch) /\ facts \subseteq facts' /\ pc' # "execute"
        /\ step' = step /\ ran' = ran
    BY <1>10 DEF CommitsBatch, Appends
  <2>2. /\ \A c \in ran : c[1] < step => Done(c[1], c[2]) \in facts'
        /\ \A i \in 1 .. at - 1 : Done(step, i) \in facts'
    BY <2>1, WhileExecuting
  <2>3. \A c \in ran : c[1] \in 1 .. step /\ (c[1] = step => c[2] \in 1 .. Len(batch))
    BY <2>1 DEF RanPrepared
  <2>4. \A c \in ran' : Done(c[1], c[2]) \in facts'
    <3> SUFFICES ASSUME NEW c \in ran  PROVE Done(c[1], c[2]) \in facts'
      BY <2>1
    <3>1. CASE c[1] < step
      BY <2>2, <3>1
    <3>2. CASE c[1] = step
      <4>1. c[2] \in 1 .. at - 1
        BY <1>0, <2>1, <2>3, <3>2
      <4> QED BY <2>2, <3>2, <4>1 DEF Done
    <3> QED BY <1>0, <2>3, <3>1, <3>2
  <2> QED BY <2>1, <2>4, AllCompleted
<1> QED BY <1>1, <1>2, <1>3, <1>4, <1>5, <1>6, <1>7, <1>8, <1>9, <1>10 DEF Moves

--------------------------------------------------------------------------------
\* Every message of the run in the transcript is in the journal, while the run goes on.
TranscriptJournalled ==
  pc # "ended" => \A m \in ToSet(transcript) : m.turn > 0 => Journalled(m)

\* What is journalled stays so.
LEMMA JournalledStays ==
  ASSUME facts \subseteq facts', acked \subseteq acked', NEW m \in Messages, Journalled(m)
  PROVE  Journalled(m)'
BY DEF Journalled, Messages, Roles

\* The messages of a transcript.
LEMMA MessagesOf ==
  ASSUME NEW msgs \in Seq(Messages)
  PROVE  ToSet(msgs) \subseteq Messages /\ ToSet(msgs) = {msgs[i] : i \in 1 .. Len(msgs)}
BY DEF ToSet

\* A transcript that keeps some of the messages and has others that are journalled.
LEMMA NewIsJournalled ==
  ASSUME WholeTranscript, pc # "ended", TranscriptJournalled,
         facts \subseteq facts', acked \subseteq acked',
         \A m \in ToSet(transcript') :
           m \in ToSet(transcript) \/ pc' = "ended" \/ Journalled(m)'
  PROVE  TranscriptJournalled'
<1> SUFFICES ASSUME pc' # "ended", NEW m \in ToSet(transcript'), m.turn > 0
             PROVE  Journalled(m)'
  BY DEF TranscriptJournalled
<1>1. CASE m \in ToSet(transcript)
  <2>1. m \in Messages
    BY <1>1, MessagesOf DEF WholeTranscript
  <2>2. Journalled(m)
    BY <1>1 DEF TranscriptJournalled
  <2> QED BY <2>1, <2>2, JournalledStays
<1> QED BY <1>1

\* The messages a batch leaves are the answer of the turn and its results.
LEMMA BatchMessagesAre ==
  ASSUME Types
  PROVE  /\ BatchMessages \in Seq(Messages)
         /\ \A m \in ToSet(BatchMessages) : m.role \in {"assistant", "tool"} /\ m.turn = step
<1> DEFINE head == <<Message("assistant", [i \in DOMAIN batch |-> batch[i].id], step)>>
           results == ResultsOf(batch)
<1>1. /\ batch \in Seq(BatchCalls) /\ Len(batch) \in Nat /\ DOMAIN batch = 1 .. Len(batch)
      /\ step \in Nat
  BY DEF Types
<1>2. \A i \in 1 .. Len(batch) : batch[i].id \in CallIds
  <2>1. \A i \in 1 .. Len(batch) : batch[i] \in BatchCalls
    BY <1>1
  <2> QED BY <2>1 DEF BatchCalls
<1>3. [i \in DOMAIN batch |-> batch[i].id] \in Seq(CallIds)
  BY <1>1, <1>2
<1>4. head \in Seq(Messages)
  BY <1>1, <1>3 DEF Message, Messages, Roles
<1>5. ToSet(head) = {Message("assistant", [i \in DOMAIN batch |-> batch[i].id], step)}
  BY ToSetOfOne
<1>6. /\ results = [i \in 1 .. Len(batch) |-> Message("tool", <<batch[i].id>>, step)]
      /\ \A i \in 1 .. Len(batch) : Message("tool", <<batch[i].id>>, step) \in Messages
  BY <1>1, <1>2 DEF ResultsOf, Message, Messages, Roles
<1>7. results \in Seq(Messages) /\ \A m \in ToSet(results) : m.role = "tool" /\ m.turn = step
  <2>1. results \in Seq(Messages) /\ Len(results) = Len(batch)
    BY <1>1, <1>6
  <2>2. \A i \in 1 .. Len(batch) : results[i].role = "tool" /\ results[i].turn = step
    BY <1>6 DEF Message
  <2> HIDE DEF results
  <2> QED BY <2>1, <2>2, MessagesOf
<1>8. ToSet(BatchMessages) = ToSet(head) \cup ToSet(results)
  <2>1. BatchMessages = head \o results
    BY DEF BatchMessages
  <2> HIDE DEF head, results
  <2> QED BY <1>4, <1>7, <2>1, ToSetConcat
<1>9. BatchMessages \in Seq(Messages)
  BY <1>4, <1>7 DEF BatchMessages
<1> QED BY <1>5, <1>7, <1>8, <1>9 DEF Message

\* Every step keeps the transcript journalled.
LEMMA TranscriptJournalledKept ==
  ASSUME Types, WholeTranscript, RanPrepared, RanAccounted, TranscriptJournalled, Moves
  PROVE  TranscriptJournalled'
<1>0. transcript \in Seq(Messages) /\ step \in Nat
  BY DEF WholeTranscript, Types
<1>1. CASE Stays
  BY <1>1 DEF Stays, TranscriptJournalled, Journalled
<1>2. CASE AskedMoves \/ QuietMoves
  <2>1. /\ transcript' = transcript /\ acked' = acked /\ facts \subseteq facts'
        /\ pc # "ended"
    BY <1>2 DEF AskedMoves, QuietMoves, Appends, Asked
  <2> QED BY <2>1, NewIsJournalled
<1>3. CASE CompactingMoves
  <2>1. facts \subseteq facts' /\ acked' = acked /\ pc # "ended"
    BY <1>3 DEF CompactingMoves, Compacting, Appends
  <2>2. CASE transcript' = transcript
    BY <2>1, <2>2, NewIsJournalled
  <2>3. CASE transcript' = Summary /\ Snapshot \subseteq facts'
    <3> DEFINE tail == SubSeq(transcript, Split + 1, Len(transcript))
    <3>1. /\ Summary = <<Message("system", <<>>, step)>> \o tail
          /\ Split \in 0 .. Len(transcript)
      BY SummaryIsWhole
    <3>2. tail \in Seq(Messages) /\ ToSet(tail) \subseteq ToSet(transcript)
      <4>1. /\ tail \in Seq(Messages)
            /\ Len(tail) = Len(transcript) - Split
            /\ \A i \in 1 .. Len(transcript) - Split : tail[i] = transcript[Split + i]
        BY <1>0, <3>1, SubSeqOfMessages
      <4>2. \A i \in 1 .. Len(tail) : Split + i \in 1 .. Len(transcript)
        BY <1>0, <3>1, <4>1
      <4> HIDE DEF tail
      <4>3. \A i \in 1 .. Len(tail) : tail[i] \in ToSet(transcript)
        BY <1>0, <4>1, <4>2, MessagesOf
      <4> QED BY <4>1, <4>3, MessagesOf
    <3> HIDE DEF tail
    <3>3. ToSet(Summary) = ToSet(<<Message("system", <<>>, step)>>) \cup ToSet(tail)
      <4>1. <<Message("system", <<>>, step)>> \in Seq(Messages)
        BY <1>0 DEF Message, Messages, Roles
      <4> DEFINE head == <<Message("system", <<>>, step)>>
      <4>2. Summary = head \o tail /\ head \in Seq(Messages)
        BY <3>1, <4>1
      <4> HIDE DEF head
      <4>3. ToSet(Summary) = ToSet(head) \cup ToSet(tail)
        BY <3>2, <4>2, ToSetConcat
      <4> QED BY <4>3 DEF head
    <3>4. ToSet(<<Message("system", <<>>, step)>>) = {Message("system", <<>>, step)}
      BY ToSetOfOne
    <3>5. ASSUME NEW m, m = Message("system", <<>>, step)  PROVE Journalled(m)'
      <4>1. m.role = "system" /\ m.turn = step
        BY <3>5 DEF Message
      <4>2. Fact("ContextSnapshotCommitted", step) \in facts'
        BY <2>3 DEF Snapshot
      <4> QED BY <4>1, <4>2 DEF Journalled
    <3>6. \A m \in ToSet(transcript') : m \in ToSet(transcript) \/ Journalled(m)'
      BY <2>3, <3>2, <3>3, <3>4, <3>5
    <3> QED BY <2>1, <3>6, NewIsJournalled
  <2> QED BY <1>3, <2>2, <2>3 DEF CompactingMoves
<1>4. CASE Opens \/ Prepares \/ Runs \/ Concludes
  <2>1. /\ transcript' = transcript /\ acked' = acked /\ facts \subseteq facts'
        /\ pc # "ended"
    BY <1>4 DEF Opens, Prepares, Runs, Concludes, Appends
  <2> QED BY <2>1, NewIsJournalled
<1>5. CASE Answers
  <2>1. /\ facts \subseteq facts' /\ acked' = acked /\ pc # "ended"
        /\ pc' # "ended" => Closing \subseteq facts'
    BY <1>5 DEF Answers, Appends
  <2>2. ToSet(transcript') = ToSet(transcript) \cup {Message("assistant", <<>>, step)}
    <3>1. transcript' = transcript \o <<Message("assistant", <<>>, step)>>
      BY <1>0, <1>5 DEF Answers
    <3>2. <<Message("assistant", <<>>, step)>> \in Seq(Messages)
      BY <1>0 DEF Message, Messages, Roles
    <3>3. ToSet(<<Message("assistant", <<>>, step)>>) = {Message("assistant", <<>>, step)}
      BY ToSetOfOne
    <3>4. ToSet(transcript \o <<Message("assistant", <<>>, step)>>)
            = ToSet(transcript) \cup ToSet(<<Message("assistant", <<>>, step)>>)
      <4> DEFINE new == <<Message("assistant", <<>>, step)>>
      <4>1. new \in Seq(Messages)
        BY <3>2
      <4> HIDE DEF new
      <4>2. ToSet(transcript \o new) = ToSet(transcript) \cup ToSet(new)
        BY <1>0, <4>1, ToSetConcat
      <4> QED BY <4>2 DEF new
    <3> QED BY <3>1, <3>3, <3>4, Zenon
  <2>3. ASSUME pc' # "ended", NEW m, m = Message("assistant", <<>>, step)  PROVE Journalled(m)'
    <3>1. m.role = "assistant" /\ m.turn = step
      BY <2>3 DEF Message
    <3>2. Fact("MessageCompleted", step) \in facts'
      BY <1>0, <2>1, <2>3, FactsOfTheTurn
    <3> QED BY <3>1, <3>2 DEF Journalled
  <2> QED BY <2>1, <2>2, <2>3, NewIsJournalled
<1>6. CASE Takes(FollowUps, "follow_up", "top") \/ Takes(Steering, "steer", "compact")
  <2>1. facts' = facts /\ acked \subseteq acked' /\ pc # "ended"
    BY <1>6 DEF Takes
  <2>2. CASE pc' = "ended"
    BY <2>1, <2>2, NewIsJournalled
  <2>3. CASE pc' # "ended"
    <3>1. \E inputs : /\ acked' = acked \cup inputs
                      /\ \E users : Users(users, inputs) /\ transcript' = transcript \o users
      BY <1>6, <2>3 DEF Takes
    <3>2. PICK inputs : /\ acked' = acked \cup inputs
                        /\ \E users : Users(users, inputs) /\ transcript' = transcript \o users
      BY <3>1
    <3>3. PICK users : Users(users, inputs) /\ transcript' = transcript \o users
      BY <3>2
    <3>4. /\ users \in Seq(Messages)
          /\ \A i \in 1 .. Len(users) : \E x \in inputs : users[i] = AsUser(x)
      BY <3>3 DEF Users
    <3>5. ToSet(transcript') = ToSet(transcript) \cup ToSet(users)
      BY <1>0, <3>3, <3>4, ToSetConcat
    <3>6. ASSUME NEW m \in ToSet(users)  PROVE Journalled(m)'
      <4>1. PICK x \in inputs : m = AsUser(x)
        BY <3>4, MessagesOf
      <4>2. m.role = "user" /\ m.turn = x
        BY <4>1 DEF AsUser, Message
      <4> QED BY <3>2, <4>2 DEF Journalled
    <3> QED BY <2>1, <3>5, <3>6, NewIsJournalled
  <2> QED BY <2>2, <2>3
<1>7. CASE CommitsBatch
  <2>1. /\ facts \subseteq facts' /\ acked' = acked /\ pc = "execute"
        /\ pc' # "ended" => Closing \subseteq facts'
    BY <1>7 DEF CommitsBatch, Appends
  <2>2. BatchMessages \in Seq(Messages) /\ transcript' = transcript \o BatchMessages
    BY <1>0, <1>7, BatchMessagesAre DEF CommitsBatch
  <2>3. ToSet(transcript') = ToSet(transcript) \cup ToSet(BatchMessages)
    BY <1>0, <2>2, ToSetConcat
  <2>4. ASSUME pc' # "ended", NEW m \in ToSet(BatchMessages)  PROVE Journalled(m)'
    <3>1. m.role \in {"assistant", "tool"} /\ m.turn = step
      BY <2>4, BatchMessagesAre
    <3>2. Fact("MessageCompleted", step) \in facts'
      BY <1>0, <2>1, <2>4, FactsOfTheTurn
    <3>3. 1 \in 1 .. MaxBatch /\ Done(step, 1) \in facts
      <4>1. Len(batch) > 0 /\ Len(batch) \in Nat /\ Len(batch) <= MaxBatch /\ MaxBatch \in Nat
        BY <2>1, EngineAssumption DEF RanPrepared, Types
      <4>2. at \in Nat /\ at > Len(batch)
        BY <1>7 DEF CommitsBatch, Types
      <4>3. 1 \in 1 .. at - 1
        BY <4>1, <4>2
      <4>4. \A i \in 1 .. at - 1 : Done(step, i) \in facts
        BY <2>1 DEF RanAccounted
      <4> QED BY <4>1, <4>3, <4>4
    <3>4. CallFact("ToolCallCompleted", m.turn, 1) \in facts'
      BY <2>1, <3>1, <3>3 DEF Done
    <3> QED BY <3>1, <3>2, <3>3, <3>4 DEF Journalled
  <2> QED BY <2>1, <2>3, <2>4, NewIsJournalled
<1> QED BY <1>1, <1>2, <1>3, <1>4, <1>5, <1>6, <1>7 DEF Moves

\* The part of the invariant says what the run checks.
LEMMA JournalledIsSent ==
  WholeTranscript /\ TranscriptJournalled => SentIsJournalled
<1> SUFFICES ASSUME WholeTranscript, TranscriptJournalled, pc = "connect",
                    NEW i \in DOMAIN transcript, transcript[i].turn > 0
             PROVE  Journalled(transcript[i])
  BY DEF SentIsJournalled, InRequest
<1>1. transcript[i] \in ToSet(transcript)
  BY DEF ToSet
<1> QED BY <1>1 DEF TranscriptJournalled

--------------------------------------------------------------------------------
(* Acknowledged inputs are shown. *)

\* An input that was acknowledged is in the transcript, or a summary in it stands for it; and the
\* request of the turn that is on showed it.
AckedIsKept ==
  /\ pc \in {"steer", "compact"} => step > 0
  /\ pc # "ended" => acked \subseteq Shown(transcript, summary.replaced)
  /\ pc \in Asked \cup {"hooks", "execute", "follow_up", "steer"} \/ outcome = "completed"
       => acked \subseteq sent

\* An input that stands in a transcript is in it.
LEMMA InputAt ==
  ASSUME NEW msgs \in Seq(Messages), NEW p \in 1 .. Len(msgs), NEW x \in Inputs,
         msgs[p] = AsUser(x)
  PROVE  x \in InputsIn(msgs)
<1>1. AsUser(x) \in ToSet(msgs)
  BY MessagesOf
<1> QED BY <1>1 DEF InputsIn, AsUser

\* What is pushed hides nothing.
LEMMA MoreIsShown ==
  ASSUME NEW msgs \in Seq(Messages), NEW new \in Seq(Messages), NEW replaced
  PROVE  /\ Shown(msgs, replaced) \subseteq Shown(msgs \o new, replaced)
         /\ InputsIn(new) \subseteq Shown(msgs \o new, replaced)
<1>1. ToSet(msgs \o new) = ToSet(msgs) \cup ToSet(new)
  BY ToSetConcat
<1> QED BY <1>1 DEF Shown, InputsIn

\* A summary stands for the inputs it cuts: those in front of the split are replaced, the others are
\* in its tail.
LEMMA SummaryShows ==
  ASSUME Types, WholeTranscript, step > 0
  PROVE  Shown(transcript, summary.replaced) \subseteq Shown(Summary, Replacing)
<1> DEFINE head == <<Message("system", <<>>, step)>>
           tail == SubSeq(transcript, Split + 1, Len(transcript))
<1>0. transcript \in Seq(Messages) /\ Len(transcript) \in Nat /\ step \in Nat
  BY DEF WholeTranscript, Types
<1>1. Summary = head \o tail /\ Split \in 0 .. Len(transcript)
  BY SummaryIsWhole
<1>2. /\ tail \in Seq(Messages)
      /\ Len(tail) = Len(transcript) - Split
      /\ \A i \in 1 .. Len(transcript) - Split : tail[i] = transcript[Split + i]
  BY <1>0, <1>1, SubSeqOfMessages
<1>3. head \in Seq(Messages) /\ ToSet(head) = {Message("system", <<>>, step)}
  <2>1. head \in Seq(Messages)
    BY <1>0 DEF Message, Messages, Roles
  <2> QED BY <2>1, ToSetOfOne
<1> HIDE DEF head, tail
<1>4. ToSet(Summary) = {Message("system", <<>>, step)} \cup ToSet(tail)
  BY <1>1, <1>2, <1>3, ToSetConcat
<1>5. \E m \in ToSet(Summary) : m.role = "system" /\ m.turn > 0
  <2>1. Message("system", <<>>, step).role = "system" /\ Message("system", <<>>, step).turn > 0
    BY DEF Message
  <2> QED BY <1>4, <2>1
<1>6. Replacing \subseteq Shown(Summary, Replacing)
  BY <1>5 DEF Shown
<1>7. InputsIn(tail) \subseteq Shown(Summary, Replacing)
  BY <1>4 DEF Shown, InputsIn
<1>8. ASSUME NEW x \in InputsIn(transcript)
      PROVE  x \in Replacing \/ x \in InputsIn(tail)
  <2>1. PICK p \in 1 .. Len(transcript) : transcript[p] = AsUser(x)
    <3>1. AsUser(x) \in ToSet(transcript)
      BY DEF InputsIn, AsUser
    <3> QED BY <1>0, <3>1, MessagesOf
  <2>2. x \in Inputs
    BY DEF InputsIn
  <2>3. PICK k \in Nat : k = Split /\ k <= Len(transcript)
    BY <1>0, <1>1
  <2>4. CASE p <= k
    <3>1. /\ SubSeq(transcript, 1, k) \in Seq(Messages)
          /\ Len(SubSeq(transcript, 1, k)) = k
          /\ SubSeq(transcript, 1, k)[p] = transcript[p]
      <4>1. \A i \in 1 .. k : transcript[i] \in Messages
        BY <1>0, <2>3
      <4>2. /\ SubSeq(transcript, 1, k) \in Seq(Messages)
            /\ Len(SubSeq(transcript, 1, k)) = IF 1 <= k THEN k - 1 + 1 ELSE 0
            /\ \A i \in 1 .. k - 1 + 1 : SubSeq(transcript, 1, k)[i] = transcript[1 + i - 1]
        <5>1. 1 \in Int /\ k \in Int
          BY <2>3
        <5> QED BY <4>1, <5>1, SubSeqProperties
      <4> QED BY <2>1, <2>3, <2>4, <4>2
    <3>2. x \in InputsIn(SubSeq(transcript, 1, k))
      <4> DEFINE prefix == SubSeq(transcript, 1, k)
      <4>1. prefix \in Seq(Messages) /\ prefix[p] = AsUser(x) /\ p \in 1 .. Len(prefix)
        BY <2>1, <2>3, <2>4, <3>1
      <4> HIDE DEF prefix
      <4>2. x \in InputsIn(prefix)
        BY <2>2, <4>1, InputAt
      <4> QED BY <4>2 DEF prefix
    <3> QED BY <2>3, <3>2 DEF Replacing
  <2>5. CASE p > k
    <3>1. p - k \in 1 .. Len(tail) /\ k + (p - k) = p
      BY <1>0, <1>2, <2>1, <2>3, <2>5
    <3>2. tail[p - k] = AsUser(x)
      BY <1>2, <2>1, <2>3, <3>1
    <3> QED BY <1>2, <2>2, <3>1, <3>2, InputAt
  <2> QED BY <2>1, <2>3, <2>4, <2>5
<1>9. summary.replaced \subseteq Replacing
  BY DEF Replacing
<1>10. Shown(transcript, summary.replaced) \subseteq summary.replaced \cup InputsIn(transcript)
  BY DEF Shown
<1> QED BY <1>6, <1>7, <1>8, <1>9, <1>10

\* Only a compaction changes what summaries stand for.
LEMMA OtherStepsKeepSummaries ==
  ASSUME [Next]_vars, ~CompactingSteps  PROVE summary' = summary
<1>1. CASE UNCHANGED vars
  BY <1>1 DEF vars
<1>2. CASE AskingSteps
  <2>1. CASE Connected \/ ConnectFails \/ Backoff
    BY <2>1 DEF Connected, ConnectFails, Backoff, CloseTurn, WillRetry
  <2>2. CASE TextDelta \/ ToolCallDelta \/ CompletedWithReason
    BY <2>2 DEF TextDelta, ToolCallDelta, CompletedWithReason, Receive
  <2>3. ASSUME NEW reason, Settle(reason)  PROVE summary' = summary
    BY <2>3 DEF Settle, CloseTurn, WillRetry
  <2>4. CASE StreamError \/ StreamCancelled \/ StreamEnds
    BY <2>3, <2>4 DEF StreamError, StreamCancelled, StreamEnds, CloseTurn, WillRetry
  <2> QED BY <1>2, <2>1, <2>2, <2>4 DEF AskingSteps, Streaming
<1>3. CASE QuietSteps
  BY <1>3 DEF QuietSteps, StartHooks, EndBetweenTurns, DoomedByText, DoomedByCalls, Finish,
              PostHookRefuses, PostCompactRefuses, Boundary, Cancel, CloseTurn
<1>4. CASE OtherSteps
  BY <1>4 DEF OtherSteps, BeginTurn, Answer, FollowUp, Prepare, RunCalls, ConcludeCall,
              CommitBatch, Steer
<1> QED BY <1>1, <1>2, <1>3, <1>4, StepCases

\* Every step keeps what was acknowledged shown.
LEMMA AckedIsKeptKept ==
  ASSUME Types, WholeTranscript, AckedIsKept, Moves, CompactingMoves \/ summary' = summary
  PROVE  AckedIsKept'
<1>0. /\ transcript \in Seq(Messages) /\ Len(transcript) \in Nat
      /\ pc # "ended" => outcome = "none"
      /\ acked \subseteq Inputs
      /\ pc \in Asked \cup {"execute"} => step > 0
  BY DEF WholeTranscript, Types
<1>1. CASE CompactingMoves
  <2>1. acked' = acked /\ pc # "ended" /\ outcome' # "completed"
    BY <1>0, <1>1 DEF CompactingMoves, Compacting
  <2>2. CASE pc' = "ended"
    BY <2>1, <2>2 DEF AckedIsKept, Asked
  <2>3. CASE pc' # "ended"
    <3>1. /\ pc' = IF pc = "overflow" THEN "connect" ELSE "boundary"
          /\ sent' = IF pc = "overflow" THEN Shown(transcript', summary'.replaced) ELSE sent
          /\ Replaces(transcript', summary'.replaced)
      BY <1>1, <2>3 DEF CompactingMoves
    <3>2. step > 0
      BY <1>0, <1>1 DEF CompactingMoves, Compacting, AckedIsKept, Asked
    <3>3. acked \subseteq Shown(transcript, summary.replaced)
      BY <2>1 DEF AckedIsKept
    <3>4. acked' \subseteq Shown(transcript', summary'.replaced)
      BY <2>1, <3>1, <3>2, <3>3, SummaryShows DEF Replaces
    <3>5. pc' = "connect" => acked' \subseteq sent'
      BY <3>1, <3>4
    <3>6. (acked \subseteq Shown(transcript, summary.replaced))'
      BY <3>4
    <3>7. pc' \in {"connect", "boundary"}
      BY <3>1
    <3> QED BY <2>1, <3>5, <3>6, <3>7 DEF AckedIsKept, Asked
  <2> QED BY <2>2, <2>3
<1> SUFFICES ASSUME summary' = summary, Moves, ~CompactingMoves
             PROVE  AckedIsKept'
  BY <1>1
<1>2. ASSUME pc' # "ended" => acked' \subseteq Shown(transcript', summary.replaced)
      PROVE  (pc # "ended" => acked \subseteq Shown(transcript, summary.replaced))'
  BY <1>2
<1>3. CASE Stays
  <2>1. UNCHANGED <<pc, outcome, transcript, step, acked, sent>>
    BY <1>3 DEF Stays
  <2> QED BY <1>2, <2>1 DEF AckedIsKept
<1>4. CASE AskedMoves
  <2>1. /\ UNCHANGED <<transcript, step, acked>> /\ pc \in Asked /\ pc' \in Asked \cup {"ended"}
        /\ acked \subseteq Shown(transcript, summary.replaced) /\ acked \subseteq sent
    BY <1>4 DEF AskedMoves, AckedIsKept, Asked
  <2>2. acked' \subseteq sent'
    BY <1>4, <2>1 DEF AskedMoves
  <2> QED BY <1>2, <2>1, <2>2 DEF AckedIsKept, Asked
<1>5. CASE QuietMoves
  <2>1. UNCHANGED <<transcript, step, acked, sent>> /\ pc # "ended"
        /\ acked \subseteq Shown(transcript, summary.replaced)
    BY <1>5 DEF QuietMoves, AckedIsKept
  <2>2. CASE pc' = pc /\ outcome' = outcome
    BY <1>2, <2>1, <2>2 DEF AckedIsKept
  <2>3. CASE pc \in {"hooks", "boundary"} /\ pc' = "top" /\ outcome' = outcome
    BY <1>0, <1>2, <2>1, <2>3 DEF AckedIsKept, Asked
  <2>4. CASE pc' = "ended" /\ (outcome' # "completed" \/ pc = "follow_up")
    BY <2>1, <2>4 DEF AckedIsKept, Asked
  <2> QED BY <1>5, <2>2, <2>3, <2>4 DEF QuietMoves
<1>6. CASE Opens
  <2>1. /\ pc # "ended" /\ acked' = acked /\ transcript' = transcript /\ outcome' # "completed"
        /\ acked \subseteq Shown(transcript, summary.replaced)
    BY <1>0, <1>6 DEF Opens, AckedIsKept
  <2>2. pc' = "connect" => acked' \subseteq sent'
    BY <1>6, <2>1 DEF Opens
  <2>3. pc' \in {"connect", "ended"}
    BY <1>6 DEF Opens
  <2> QED BY <1>2, <2>1, <2>2, <2>3 DEF AckedIsKept, Asked
<1>7. CASE Answers \/ Prepares \/ Runs \/ Concludes \/ CommitsBatch
  <2>1. /\ acked' = acked /\ sent' = sent /\ step' = step /\ pc \in {"received", "execute"}
        /\ pc' \notin {"top", "boundary", "compact"}
    BY <1>7 DEF Answers, Prepares, Runs, Concludes, CommitsBatch
  <2>2. /\ acked \subseteq sent /\ acked \subseteq Shown(transcript, summary.replaced)
        /\ step > 0
    BY <1>0, <2>1 DEF AckedIsKept, Asked
  <2>3. transcript' = transcript \/ \E new \in Seq(Messages) : transcript' = transcript \o new
    <3>1. CASE Answers
      <4> DEFINE m == Message("assistant", <<>>, step)
      <4>1. m \in Messages
        <5>1. step \in Nat
          BY DEF Types
        <5> QED BY <5>1 DEF Message, Messages, Roles
      <4>2. transcript' = Append(transcript, m)
        BY <3>1 DEF Answers
      <4> HIDE DEF m
      <4>3. transcript' = transcript \o <<m>> /\ <<m>> \in Seq(Messages)
        BY <1>0, <4>1, <4>2, AppendIsConcat
      <4> QED BY <4>3
    <3>2. CASE CommitsBatch
      BY <3>2, BatchMessagesAre DEF CommitsBatch
    <3>3. CASE Prepares \/ Runs \/ Concludes
      BY <3>3 DEF Prepares, Runs, Concludes
    <3> QED BY <1>7, <3>1, <3>2, <3>3
  <2>4. acked' \subseteq Shown(transcript', summary.replaced)
    BY <1>0, <2>1, <2>2, <2>3, MoreIsShown
  <2> QED BY <1>2, <2>1, <2>2, <2>4 DEF AckedIsKept
<1>8. CASE Takes(FollowUps, "follow_up", "top") \/ Takes(Steering, "steer", "compact")
  <2>1. acked \subseteq sent /\ sent' = sent /\ step' = step /\ pc \in {"follow_up", "steer"}
        /\ acked \subseteq Shown(transcript, summary.replaced)
    BY <1>8 DEF Takes, AckedIsKept
  <2>2. CASE pc' = "ended" /\ outcome' = "error"
    BY <2>2 DEF AckedIsKept, Asked
  <2>3. CASE pc' # "ended"
    <3>1. PICK waiting \in {FollowUps, Steering} :
            \E from, to : /\ Takes(waiting, from, to)
                          /\ \/ waiting = FollowUps /\ from = "follow_up" /\ to = "top"
                             \/ waiting = Steering /\ from = "steer" /\ to = "compact"
      BY <1>8
    <3>2. /\ outcome' = "none"
          /\ pc' = "top" \/ (pc' = "compact" /\ pc = "steer")
          /\ \E inputs \in SUBSET waiting :
               /\ acked' = acked \cup inputs
               /\ \E users : Users(users, inputs) /\ transcript' = transcript \o users
      BY <1>0, <2>3, <3>1 DEF Takes
    <3>3. PICK inputs \in SUBSET waiting :
               /\ acked' = acked \cup inputs
               /\ \E users : Users(users, inputs) /\ transcript' = transcript \o users
      BY <3>2
    <3>4. PICK users : Users(users, inputs) /\ transcript' = transcript \o users
      BY <3>3
    <3>5. /\ users \in Seq(Messages)
          /\ \A x \in inputs : \E i \in 1 .. Len(users) : users[i] = AsUser(x)
      BY <3>4 DEF Users
    <3>6. inputs \subseteq InputsIn(users)
      <4>1. inputs \subseteq Inputs
        BY <3>1, <3>3 DEF Inputs
      <4> QED BY <3>5, <4>1, InputAt
    <3>7. acked' \subseteq Shown(transcript', summary.replaced)
      BY <1>0, <2>1, <3>3, <3>4, <3>5, <3>6, MoreIsShown
    <3>8. pc' = "compact" => step' > 0
      BY <2>1, <3>2 DEF AckedIsKept
    <3> QED BY <1>2, <3>2, <3>7, <3>8 DEF AckedIsKept, Asked
  <2> QED BY <1>8, <2>2, <2>3 DEF Takes
<1> QED BY <1>3, <1>4, <1>5, <1>6, <1>7, <1>8 DEF Moves

--------------------------------------------------------------------------------
\* The inductive invariant.
IInv ==
  Types /\ WholeTranscript /\ ClosedTurns /\ RanPrepared /\ RanAccounted /\ TranscriptJournalled

\* The invariant holds first.
LEMMA InitIInv ==
  Init => IInv /\ AckedIsKept
<1> SUFFICES ASSUME Init  PROVE IInv /\ AckedIsKept
  OBVIOUS
<1>1. Types /\ WholeTranscript
  BY InitTypes
<1>2. /\ pc = "hooks" /\ outcome = "none" /\ step = 0 /\ facts = {} /\ ran = {} /\ acked = {}
  BY DEF Init
<1>3. ClosedTurns
  BY <1>2 DEF ClosedTurns, Closed, Own
<1>4. RanPrepared
  BY <1>2 DEF RanPrepared
<1>5. RanAccounted
  BY <1>2 DEF RanAccounted, EffectsAreAccountedFor
<1>6. TranscriptJournalled
  <2>1. PICK h \in Histories : transcript = Append(h, Message("user", <<>>, 0))
    BY DEF Init
  <2>2. \A i \in DOMAIN transcript : transcript[i].turn = 0
    BY <2>1, InitialTranscript
  <2>3. \A m \in ToSet(transcript) : m.turn = 0
    BY <2>2 DEF ToSet
  <2> QED BY <2>3 DEF TranscriptJournalled
<1>7. AckedIsKept
  BY <1>2 DEF AckedIsKept
<1> QED BY <1>1, <1>3, <1>4, <1>5, <1>6, <1>7 DEF IInv

\* Every step keeps it.
LEMMA NextIInv ==
  IInv /\ [Next]_vars => IInv'
<1> SUFFICES ASSUME IInv, [Next]_vars  PROVE IInv'
  OBVIOUS
<1>1. Types /\ WholeTranscript /\ ClosedTurns /\ RanPrepared /\ RanAccounted
      /\ TranscriptJournalled
  BY DEF IInv
<1>2. Moves
  BY <1>1, EveryStepMoves
<1>3. Types' /\ WholeTranscript'
  BY <1>1, TypesAreKept
<1>4. ClosedTurns'
  BY <1>1, <1>2, ClosedTurnsKept
<1>5. RanPrepared'
  BY <1>1, <1>2, RanPreparedKept
<1>6. RanAccounted'
  BY <1>1, <1>2, RanAccountedKept
<1>7. TranscriptJournalled'
  BY <1>1, <1>2, TranscriptJournalledKept
<1> QED BY <1>3, <1>4, <1>5, <1>6, <1>7 DEF IInv

\* The invariant holds of every run of the loop (engine_core.rs, run_inner).
THEOREM InvariantOfTheEngine == Spec => []IInv
<1>1. Init => IInv
  BY InitIInv
<1> QED BY <1>1, NextIInv, PTL DEF Spec

\* A turn never starts while an earlier one is open, and a run that completes, fails or is
\* cancelled by its own account leaves none open (engine_core.rs, close_failed_turn and the two
\* ends of a turn), whatever write fails and however often an answer is asked for again.
THEOREM TurnsOfARunAreClosed == Spec => []TurnsAreClosed
<1>1. IInv => TurnsAreClosed
  BY ClosedTurnsClose DEF IInv
<1> QED BY <1>1, InvariantOfTheEngine, PTL

\* A handler runs only for a call of an answer that stopped for tool use, that no hook denied and
\* whose ToolCallPrepared is durable (engine_core.rs, run_inner before
\* execute_prepared_tools), for batches of any size and whatever part of them runs together.
THEOREM HandlersRunWhenAuthorised == Spec => []RanWasAuthorised
<1>1. IInv => RanWasAuthorised
  BY PreparedIsAuthorised DEF IInv
<1> QED BY <1>1, InvariantOfTheEngine, PTL

\* When the engine has returned, every call of an exclusive batch whose handler ran is completed in
\* the journal or marked uncertain, whichever appends fail (engine_core.rs,
\* execute_prepared_tools), unless the run is blocked for recovery or a hook was refused.
THEOREM EffectsOfARunAreAccountedFor == Spec => []EffectsAreAccountedFor
<1>1. IInv => EffectsAreAccountedFor
  BY DEF IInv, RanAccounted
<1> QED BY <1>1, InvariantOfTheEngine, PTL

\* Every message of this run in a request was durable before it was sent: the answer and its results
\* with their turn, an input with its acknowledgement, a summary with its snapshot
\* (engine_core.rs, append_critical before the push or before the next request).
THEOREM WhatIsSentIsJournalled == Spec => []SentIsJournalled
<1>1. IInv => SentIsJournalled
  BY JournalledIsSent DEF IInv
<1> QED BY <1>1, InvariantOfTheEngine, PTL

\* In every request each call has the results of its own turn behind it and each result its call,
\* for any history that is paired, any ids a provider repeats, any batch, any compaction and any
\* length of the tail (compaction.rs, its guarantees for tool-call integrity).
THEOREM EveryRequestIsPaired == Spec => []RequestsArePaired
<1>1. IInv => RequestsArePaired
  BY DEF IInv, WholeTranscript, Whole, PairsOfTurns, RequestsArePaired
<1> QED BY <1>1, InvariantOfTheEngine, PTL

\* A run that completes has shown the model every input it acknowledged: the last request held it, or
\* a summary whose prefix held it (engine_core.rs, drain_inputs and try_model_summary), for any number
\* of inputs taken at one safe point, any tail a summary leaves and any compaction in between.
THEOREM AcknowledgedInputsAreShown == Spec => []AckedWasSent
<1>1. Init => IInv /\ AckedIsKept
  BY InitIInv
<1>2. IInv /\ AckedIsKept /\ [Next]_vars => (IInv /\ AckedIsKept)'
  <2> SUFFICES ASSUME IInv, AckedIsKept, [Next]_vars  PROVE IInv' /\ AckedIsKept'
    OBVIOUS
  <2>1. Types /\ WholeTranscript
    BY DEF IInv
  <2>2. Moves
    BY <2>1, EveryStepMoves
  <2>3. CompactingMoves \/ summary' = summary
    BY <2>1, StepsThatCompact, OtherStepsKeepSummaries
  <2> QED BY <2>1, <2>2, <2>3, NextIInv, AckedIsKeptKept
<1>3. IInv /\ AckedIsKept => AckedWasSent
  BY DEF AckedIsKept, AckedWasSent
<1> QED BY <1>1, <1>2, <1>3, PTL DEF Spec

================================================================================
