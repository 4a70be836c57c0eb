------------------------------ MODULE SeqLemmas ------------------------------
(***************************************************************************)
(* Facts about sequences that the proofs of several components rest on:    *)
(* what is in a sequence after an operation, when it holds nothing twice,  *)
(* what Kept selects and what FlattenSeq joins.  These two are recursive   *)
(* functions: their equations are proved first, then what they compute.    *)
(***************************************************************************)
EXTENDS Integers, Sequences, FiniteSets, SequencesExt, Kept, SequenceTheorems,
        FiniteSetTheorems, TLAPS

-----------------------------------------------------------------------------
(* What is in a sequence. *)

LEMMA RangeEmpty == Range(<<>>) = {}
  BY DEF Range

LEMMA RangeHas ==
  ASSUME NEW S, NEW s \in Seq(S), NEW x
  PROVE  x \in Range(s) <=> \E i \in 1..Len(s) : s[i] = x
  BY DEF Range

LEMMA RangeAppend ==
  ASSUME NEW S, NEW s \in Seq(S), NEW x \in S
  PROVE  Range(Append(s, x)) = Range(s) \cup {x}
<1>1. Append(s, x) = s \o <<x>> /\ <<x>> \in Seq(S)
  BY AppendIsConcat
<1>2. Range(<<x>>) = {x}
  BY DEF Range
<1>3. Range(s \o <<x>>) = Range(s) \cup Range(<<x>>)
  BY ONLY <1>1, s \in Seq(S), RangeConcatenation
<1> QED
  BY <1>1, <1>2, <1>3

LEMMA RangeHeadTail ==
  ASSUME NEW S, NEW s \in Seq(S), s # <<>>
  PROVE  /\ Head(s) \in S /\ Tail(s) \in Seq(S)
         /\ Range(s) = {Head(s)} \cup Range(Tail(s))
<1>1. Head(s) \in S /\ Tail(s) \in Seq(S)
  BY HeadTailProperties
<1>2. s = <<Head(s)>> \o Tail(s) /\ <<Head(s)>> \in Seq(S)
  OBVIOUS
<1>3. Range(<<Head(s)>>) = {Head(s)}
  BY DEF Range
<1>4. Range(<<Head(s)>> \o Tail(s)) = Range(<<Head(s)>>) \cup Range(Tail(s))
  BY ONLY <1>1, <1>2, RangeConcatenation
<1> QED
  BY <1>1, <1>2, <1>3, <1>4, Zenon

-----------------------------------------------------------------------------
(* Sequences that hold nothing twice. *)

LEMMA InjectiveEmpty == IsInjective(<<>>)
  BY DEF IsInjective

LEMMA InjectiveConcat ==
  ASSUME NEW S, NEW s \in Seq(S), NEW r \in Seq(S), IsInjective(s), IsInjective(r),
         Range(s) \cap Range(r) = {}
  PROVE  IsInjective(s \o r)
<1>1. ASSUME NEW i \in DOMAIN s, NEW j \in DOMAIN r PROVE s[i] # r[j]
  BY DEF Range
<1> QED
  BY <1>1, ConcatProperties DEF IsInjective

LEMMA InjectiveAppend ==
  ASSUME NEW S, NEW s \in Seq(S), NEW x \in S, IsInjective(s), x \notin Range(s)
  PROVE  IsInjective(Append(s, x))
  BY AppendProperties DEF Range, IsInjective

LEMMA InjectiveTail ==
  ASSUME NEW S, NEW s \in Seq(S), s # <<>>, IsInjective(s)
  PROVE  IsInjective(Tail(s)) /\ Head(s) \notin Range(Tail(s))
  BY HeadTailProperties DEF Range, IsInjective

(* A sequence that holds nothing twice is as long as what it holds is big. *)
LEMMA InjectiveLength ==
  ASSUME NEW S, NEW s \in Seq(S), IsInjective(s)
  PROVE  IsFiniteSet(Range(s)) /\ Cardinality(Range(s)) = Len(s)
<1>1. s \in Bijection(1..Len(s), Range(s))
  BY DEF Bijection, Injection, Surjection, Range, IsInjective
<1>2. ExistsBijection(1..Len(s), Range(s))
  BY <1>1 DEF ExistsBijection
<1> QED
  BY <1>2, FS_CountingElements, FS_NatBijection

LEMMA InjectivePart ==
  ASSUME NEW S, NEW s \in Seq(S), NEW r \in Seq(S), IsInjective(s), IsInjective(r),
         Range(s) \subseteq Range(r)
  PROVE  Len(s) <= Len(r)
<1>1. IsFiniteSet(Range(r)) /\ Cardinality(Range(r)) = Len(r)
  BY InjectiveLength
<1>2. Cardinality(Range(s)) = Len(s)
  BY InjectiveLength
<1>3. Cardinality(Range(s)) <= Cardinality(Range(r))
  BY <1>1, FS_Subset
<1> QED
  BY <1>1, <1>2, <1>3

-----------------------------------------------------------------------------
(* Induction: a set of numbers has a least one. *)

LEMMA LeastNumber ==
  ASSUME NEW T \in SUBSET Nat, NEW n \in T
  PROVE  \E m \in T : \A k \in T : m <= k
<1> DEFINE Below(m) == {i \in 1..n : i <= m}
           Sets == {Below(m) : m \in {k \in T : k <= n}}
<1>1. IsFiniteSet(1..n)
  BY FS_Interval
<1>2. IsWellFoundedOn(StrictSubsetOrdering(1..n), FiniteSubsetsOf(1..n))
  BY FS_StrictSubsetOrderingWellFounded
<1>3. Sets \subseteq FiniteSubsetsOf(1..n)
  <2>1. \A m : Below(m) \in SUBSET (1..n)
    OBVIOUS
  <2> QED
    BY <1>1, <2>1, FS_FiniteSubsetsOfFinite
<1>4. Sets # {}
  <2>1. Below(n) \in Sets
    OBVIOUS
  <2> QED BY <2>1
<1>5. PICK B \in Sets : \A C \in Sets : ~(<<C, B>> \in StrictSubsetOrdering(1..n))
  <2> HIDE DEF Sets
  <2> QED BY <1>2, <1>3, <1>4, WFMin
<1>6. PICK m \in T : m <= n /\ B = Below(m)
  BY <1>5
<1>7. ASSUME NEW k \in T, k < m PROVE FALSE
  <2>1. Below(k) \subseteq Below(m) /\ m \in Below(m) /\ m \notin Below(k)
    BY <1>6, <1>7
  <2>2. Below(k) \in Sets
    BY <1>6, <1>7
  <2>3. <<Below(k), B>> \in StrictSubsetOrdering(1..n)
    BY <1>6, <2>1 DEF StrictSubsetOrdering
  <2> QED
    BY <1>5, <2>2, <2>3
<1> QED
  BY <1>7

-----------------------------------------------------------------------------
(* Induction over sequences: a set of them that has the empty one, and     *)
(* each longer one with the one before it, has them all.                   *)

LEMMA AllSequences ==
  ASSUME NEW S, NEW G, <<>> \in G,
         ASSUME NEW s \in Seq(S), NEW x \in S, s \in G PROVE Append(s, x) \in G
  PROVE  Seq(S) \subseteq G
<1> DEFINE Bad == {Len(s) : s \in Seq(S) \ G}
<1> SUFFICES ASSUME NEW r \in Seq(S), r \notin G PROVE FALSE
  OBVIOUS
<1>1. Bad \in SUBSET Nat /\ Len(r) \in Bad
  OBVIOUS
<1>2. PICK m \in Bad : \A k \in Bad : m <= k
  <2> HIDE DEF Bad
  <2> QED BY <1>1, LeastNumber
<1>3. PICK s \in Seq(S) \ G : Len(s) = m
  BY <1>2
<1>4. s # <<>>
  BY <1>3
<1> DEFINE q == SubSeq(s, 1, Len(s) - 1)
<1>5. q \in Seq(S) /\ Len(q) = Len(s) - 1 /\ s = Append(q, s[Len(s)]) /\ s[Len(s)] \in S
  BY <1>3, <1>4
<1> HIDE DEF q
<1>6. Len(q) \notin Bad
  <2>1. Len(s) \in Nat /\ ~(m <= Len(q))
    BY <1>3, <1>5
  <2> HIDE DEF Bad
  <2> QED BY <1>2, <2>1
<1>7. q \in G
  BY <1>5, <1>6
<1> QED
  BY <1>3, <1>5, <1>7

-----------------------------------------------------------------------------
(* Recursion: a function on 0..n whose values follow one from another.     *)
(* (For the SMT solver every function of a step in which sequences occur   *)
(* is one: a step about a function on 0..n is about no sequence.)          *)

Recurs(g, n, e, d) == g = [i \in 0..n |-> IF i = 0 THEN e ELSE d[i][g[i - 1]]]

LEMMA Recursion ==
  ASSUME NEW n \in Nat, NEW V, NEW e \in V, NEW d \in [1..n -> [V -> V]]
  PROVE  \E g : Recurs(g, n, e, d) /\ \A i \in 0..n : g[i] \in V
<1> DEFINE Upto(m, g) == g[0] = e /\ \A i \in 1..m : g[i] = d[i][g[i - 1]]
           Has(m) == \E g \in [0..m -> V] : Upto(m, g)
           Bad == {m \in 0..n : ~Has(m)}
<1>1. Has(n)
  <2> SUFFICES ASSUME n \in Bad PROVE FALSE
    OBVIOUS
  <2>1. PICK m \in Bad : \A k \in Bad : m <= k
    <3>1. Bad \in SUBSET Nat
      OBVIOUS
    <3> HIDE DEF Bad
    <3> QED BY <3>1, LeastNumber
  <2>2. m \in 0..n /\ ~Has(m)
    BY <2>1
  <2>3. CASE m = 0
    <3>1. [i \in 0..m |-> e] \in [0..m -> V] /\ Upto(m, [i \in 0..m |-> e])
      BY <2>3
    <3> QED BY <2>2, <3>1
  <2>4. CASE m # 0
    <3>1. m - 1 \in 0..n /\ m \in 1..n /\ ~(m <= m - 1)
      BY <2>2, <2>4
    <3>2. Has(m - 1)
      <4>1. m - 1 \notin Bad
        <5> HIDE DEF Bad
        <5> QED BY <2>1, <3>1
      <4> QED BY <3>1, <4>1
    <3>3. PICK f \in [0..(m - 1) -> V] : Upto(m - 1, f)
      BY <3>2
    <3> DEFINE next == d[m][f[m - 1]]
               g == [i \in 0..m |-> IF i = m THEN next ELSE f[i]]
    <3>4. next \in V
      BY <2>2, <2>4, <3>1, <3>3
    <3> HIDE DEF next
    <3>5. g \in [0..m -> V]
      <4>1. \A i \in 0..m : i # m => i \in 0..(m - 1)
        BY <2>2
      <4> QED BY <3>3, <3>4, <4>1
    <3>6. Upto(m, g)
      <4>1. g[0] = e
        BY <2>2, <2>4, <3>3
      <4>2. ASSUME NEW i \in 1..m PROVE g[i] = d[i][g[i - 1]]
        <5>1. i \in 0..m /\ i - 1 \in 0..m /\ i - 1 # m
          BY <2>2
        <5>2. CASE i = m
          BY <5>1, <5>2 DEF next
        <5>3. CASE i # m
          <6>1. i \in 1..(m - 1)
            BY <2>2, <5>3
          <6> QED BY <3>3, <5>1, <5>3, <6>1
        <5> QED BY <5>2, <5>3
      <4> QED BY <4>1, <4>2
    <3> HIDE DEF g, Upto
    <3>7. Has(m)
      BY <3>5, <3>6
    <3> QED BY <2>2, <3>7
  <2> QED BY <2>3, <2>4
<1>2. PICK h \in [0..n -> V] : Upto(n, h)
  BY <1>1
<1>3. Recurs(h, n, e, d)
  <2>1. ASSUME NEW i \in 0..n
        PROVE  h[i] = IF i = 0 THEN e ELSE d[i][h[i - 1]]
    <3>1. CASE i = 0
      BY <1>2, <3>1
    <3>2. CASE i # 0
      <4>1. i \in 1..n
        BY <3>2
      <4> QED BY <1>2, <3>2, <4>1
    <3> QED BY <3>1, <3>2
  <2> QED BY <1>2, <2>1 DEF Recurs
<1> QED
  BY <1>2, <1>3

-----------------------------------------------------------------------------
(* What Kept selects. *)

(* The equations of the recursive function in Kept. *)
KeptBy(f, s, T) ==
  /\ f[0] = <<>>
  /\ \A i \in 1..Len(s) :
       f[i] = IF s[i] \in T THEN Append(f[i - 1], s[i]) ELSE f[i - 1]
  /\ Kept(s, T) = f[Len(s)]

LEMMA KeptSteps ==
  ASSUME NEW S, NEW s, s \in Seq(S), NEW T
  PROVE  \E f : KeptBy(f, s, T) /\ \A i \in 0..Len(s) : f[i] \in Seq(S)
<1> DEFINE n == Len(s)
           V == Seq(S)
           e == <<>>
           next(i, v) == IF s[i] \in T THEN Append(v, s[i]) ELSE v
           d == [i \in 1..n |-> [v \in V |-> next(i, v)]]
           In(g) == \A i \in 0..n : g[i] \in V
           Eq(g) == g = [i \in 0..n |-> IF i = 0 THEN e ELSE next(i, g[i - 1])]
           c == CHOOSE g : Eq(g)
<1>1. n \in Nat /\ e \in V
  OBVIOUS
<1>2. \A i \in 1..n : \A v \in V : next(i, v) \in V
  OBVIOUS
<1>3. Kept(s, T) = c[n]
  BY DEF Kept
<1> HIDE DEF n, V, e, next, d, In, Eq, c
<1>4. d \in [1..n -> [V -> V]]
  BY ONLY <1>2 DEF d
<1>5. PICK g : Recurs(g, n, e, d) /\ In(g)
  BY ONLY <1>1, <1>4, Recursion DEF In
<1>6. \A i \in 1..n : d[i][g[i - 1]] = next(i, g[i - 1])
  BY ONLY <1>1, <1>5 DEF In, d
<1>7. Eq(g)
  BY ONLY <1>1, <1>5, <1>6 DEF Recurs, Eq
<1>8. Eq(c)
  BY ONLY <1>7 DEF c
<1>9. c[0] = e /\ \A i \in 1..n : c[i] = next(i, c[i - 1])
  BY ONLY <1>1, <1>8 DEF Eq
<1>10. In(c)
  <2> DEFINE Out == {i \in 0..n : c[i] \notin V}
  <2> SUFFICES ASSUME NEW k \in Out PROVE FALSE
    BY DEF In
  <2>1. PICK m \in Out : \A i \in Out : m <= i
    <3>1. Out \in SUBSET Nat
      BY <1>1
    <3> HIDE DEF Out
    <3> QED BY <3>1, LeastNumber
  <2>2. m \in 0..n /\ c[m] \notin V
    OBVIOUS
  <2>3. m \in 1..n /\ m - 1 \in 0..n /\ ~(m <= m - 1)
    BY <1>1, <1>9, <2>2
  <2>4. c[m - 1] \in V
    <3>1. m - 1 \notin Out
      <4> HIDE DEF Out
      <4> QED BY <2>1, <2>3
    <3> QED BY <2>3, <3>1
  <2> QED BY <1>2, <1>9, <2>2, <2>3, <2>4
<1> QED
  BY <1>3, <1>9, <1>10 DEF n, V, e, next, In, KeptBy

LEMMA KeptEmpty == ASSUME NEW T PROVE Kept(<<>>, T) = <<>>
<1>1. <<>> \in Seq({}) /\ Len(<<>>) = 0
  OBVIOUS
<1>2. PICK f : KeptBy(f, <<>>, T)
  BY <1>1, KeptSteps
<1> QED
  BY <1>1, <1>2 DEF KeptBy

LEMMA KeptInSeq ==
  ASSUME NEW S, NEW s \in Seq(S), NEW T
  PROVE  Kept(s, T) \in Seq(S)
<1>1. PICK f : KeptBy(f, s, T) /\ \A i \in 0..Len(s) : f[i] \in Seq(S)
  BY KeptSteps
<1>2. Len(s) \in 0..Len(s)
  OBVIOUS
<1> QED
  BY <1>1, <1>2 DEF KeptBy

LEMMA KeptAppend ==
  ASSUME NEW S, NEW s \in Seq(S), NEW x \in S, NEW T
  PROVE  Kept(Append(s, x), T)
              = IF x \in T THEN Append(Kept(s, T), x) ELSE Kept(s, T)
<1> DEFINE r == Append(s, x)
           n == Len(s)
<1>1. r \in Seq(S) /\ Len(r) = n + 1 /\ r[n + 1] = x /\ n \in Nat
        /\ \A i \in 1..n : r[i] = s[i]
  OBVIOUS
<1>2. PICK f : KeptBy(f, s, T)
  BY KeptSteps
<1>3. PICK g : KeptBy(g, r, T)
  <2> HIDE DEF r
  <2> QED BY <1>1, KeptSteps
<1> HIDE DEF r
<1>4. g[n] = f[n]
  <2> DEFINE Off == {i \in 0..n : g[i] # f[i]}
  <2> SUFFICES ASSUME n \in Off PROVE FALSE
    BY <1>1
  <2>2. PICK m \in Off : \A j \in Off : m <= j
    <3>1. Off \in SUBSET Nat
      BY <1>1
    <3> HIDE DEF Off
    <3> QED BY <3>1, LeastNumber
  <2>3. m \in 0..n /\ g[m] # f[m]
    BY <2>2
  <2>4. m # 0
    BY <1>2, <1>3, <2>3 DEF KeptBy
  <2>5. m \in 1..n /\ m - 1 \in 0..n /\ ~(m <= m - 1) /\ m \in 1..Len(r)
    BY <1>1, <2>3, <2>4
  <2>6. g[m - 1] = f[m - 1]
    <3>1. m - 1 \notin Off
      <4> HIDE DEF Off
      <4> QED BY <2>2, <2>5
    <3> QED BY <2>5, <3>1
  <2> QED BY <1>1, <1>2, <1>3, <2>3, <2>5, <2>6 DEF KeptBy
<1>5. n + 1 \in 1..Len(r) /\ (n + 1) - 1 = n
  BY <1>1
<1>6. g[n + 1] = IF x \in T THEN Append(g[n], x) ELSE g[n]
  BY <1>1, <1>3, <1>5 DEF KeptBy
<1> QED
  BY <1>1, <1>2, <1>3, <1>4, <1>6 DEF r, KeptBy

LEMMA KeptConcat ==
  ASSUME NEW S, NEW s \in Seq(S), NEW r \in Seq(S), NEW T
  PROVE  Kept(s \o r, T) = Kept(s, T) \o Kept(r, T)
<1> DEFINE G == {q \in Seq(S) : Kept(s \o q, T) = Kept(s, T) \o Kept(q, T)}
<1>1. <<>> \in G
  <2>1. s \o <<>> = s /\ <<>> \in Seq(S) /\ Kept(s, T) \in Seq(S)
    BY KeptInSeq
  <2>2. Kept(s, T) \o <<>> = Kept(s, T)
    BY <2>1
  <2> QED BY <2>1, <2>2, KeptEmpty
<1>2. ASSUME NEW q \in Seq(S), NEW x \in S, q \in G PROVE Append(q, x) \in G
  <2>1. s \o Append(q, x) = Append(s \o q, x) /\ s \o q \in Seq(S)
    OBVIOUS
  <2>2. Kept(s, T) \in Seq(S) /\ Kept(q, T) \in Seq(S)
    BY KeptInSeq
  <2>3. Kept(Append(s \o q, x), T)
          = IF x \in T THEN Append(Kept(s \o q, T), x) ELSE Kept(s \o q, T)
    BY <2>1, KeptAppend
  <2>4. Kept(Append(q, x), T) = IF x \in T THEN Append(Kept(q, T), x) ELSE Kept(q, T)
    BY KeptAppend
  <2>5. Kept(s \o q, T) = Kept(s, T) \o Kept(q, T)
    BY <1>2
  <2>6. Append(Kept(s, T) \o Kept(q, T), x) = Kept(s, T) \o Append(Kept(q, T), x)
    <3>1. \A a, b \in Seq(S) : Append(a \o b, x) = a \o Append(b, x)
      OBVIOUS
    <3> QED BY <2>2, <3>1, Zenon
  <2>7. Kept(s \o Append(q, x), T) = Kept(s, T) \o Kept(Append(q, x), T)
    BY <2>1, <2>3, <2>4, <2>5, <2>6
  <2> QED BY <2>7
<1>3. Seq(S) \subseteq G
  <2> HIDE DEF G
  <2> QED BY <1>1, <1>2, AllSequences
<1> QED
  BY <1>3

(* Kept has the elements of s that are in T, in their order. *)
LEMMA KeptIs ==
  ASSUME NEW S, NEW s \in Seq(S), NEW T
  PROVE  /\ Kept(s, T) \in Seq(S)
         /\ Range(Kept(s, T)) = Range(s) \cap T
         /\ IsInjective(s) => IsInjective(Kept(s, T))
         /\ \A k, l \in DOMAIN Kept(s, T) : k < l =>
              \E i, j \in DOMAIN s : i < j /\ s[i] = Kept(s, T)[k] /\ s[j] = Kept(s, T)[l]
<1> DEFINE Has(q) == Range(Kept(q, T)) = Range(q) \cap T
           Once(q) == IsInjective(q) => IsInjective(Kept(q, T))
           Ordered(q) ==
             \A k, l \in DOMAIN Kept(q, T) : k < l =>
               \E i, j \in DOMAIN q : i < j /\ q[i] = Kept(q, T)[k] /\ q[j] = Kept(q, T)[l]
           G == {q \in Seq(S) : Has(q) /\ Once(q) /\ Ordered(q)}
<1>1. <<>> \in G
  <2>1. Kept(<<>>, T) = <<>>
    BY KeptEmpty
  <2>2. Has(<<>>) /\ Once(<<>>)
    BY <2>1, RangeEmpty
  <2>3. Ordered(<<>>)
    BY <2>1
  <2>4. <<>> \in Seq(S)
    OBVIOUS
  <2> HIDE DEF Has, Once, Ordered
  <2> QED BY <2>2, <2>3, <2>4
<1>2. ASSUME NEW q \in Seq(S), NEW x \in S, q \in G PROVE Append(q, x) \in G
  <2> DEFINE r == Append(q, x)
             k == Kept(q, T)
  <2>1. r \in Seq(S) /\ Len(r) = Len(q) + 1 /\ r[Len(q) + 1] = x /\ Len(q) \in Nat
          /\ \A i \in 1..Len(q) : r[i] = q[i]
    OBVIOUS
  <2>2. k \in Seq(S) /\ Kept(r, T) = IF x \in T THEN Append(k, x) ELSE k
    BY KeptInSeq, KeptAppend
  <2>3. Range(r) = Range(q) \cup {x}
    BY RangeAppend
  <2>4. Range(Append(k, x)) = Range(k) \cup {x}
    BY <2>2, RangeAppend
  <2>5. Has(q) /\ Once(q) /\ Ordered(q)
    BY <1>2
  <2>6. Has(r)
    <3> HIDE DEF r, k
    <3>1. Range(k) = Range(q) \cap T
      BY <2>5 DEF k
    <3> QED BY <2>2, <2>3, <2>4, <3>1 DEF r
  <2>7. Once(r)
    <3> SUFFICES ASSUME IsInjective(r) PROVE IsInjective(Kept(r, T))
      OBVIOUS
    <3>1. IsInjective(q) /\ x \notin Range(q)
      <4> HIDE DEF r
      <4>1. \A i, j \in 1..(Len(q) + 1) : r[i] = r[j] => i = j
        BY <2>1 DEF IsInjective
      <4>2. \A i \in 1..Len(q) : i \in 1..(Len(q) + 1) /\ i # Len(q) + 1
        BY <2>1
      <4>3. \A i \in 1..Len(q) : q[i] # x
        BY <2>1, <4>1, <4>2
      <4>4. \A i, j \in 1..Len(q) : q[i] = q[j] => i = j
        BY <2>1, <4>1, <4>2
      <4> QED BY <4>3, <4>4, RangeHas DEF IsInjective
    <3>2. IsInjective(k) /\ Range(k) \subseteq Range(q)
      BY <2>5, <3>1
    <3> HIDE DEF r, k
    <3>3. IsInjective(Append(k, x))
      BY <2>2, <3>1, <3>2, InjectiveAppend
    <3> QED BY <2>2, <3>2, <3>3
  <2>8. Ordered(r)
    <3> SUFFICES ASSUME NEW a \in DOMAIN Kept(r, T), NEW b \in DOMAIN Kept(r, T), a < b
                 PROVE  \E i, j \in DOMAIN r :
                          i < j /\ r[i] = Kept(r, T)[a] /\ r[j] = Kept(r, T)[b]
      OBVIOUS
    <3> HIDE DEF r, k
    <3>1. CASE b \in DOMAIN k
      <4>1. a \in DOMAIN k /\ Kept(r, T)[a] = k[a] /\ Kept(r, T)[b] = k[b]
        BY <2>2, <3>1
      <4>2. PICK i \in DOMAIN q, j \in DOMAIN q : i < j /\ q[i] = k[a] /\ q[j] = k[b]
        BY <2>5, <3>1, <4>1 DEF k
      <4> QED BY <2>1, <4>1, <4>2
    <3>2. CASE b \notin DOMAIN k
      <4>1. x \in T /\ Kept(r, T) = Append(k, x) /\ b = Len(k) + 1 /\ a \in DOMAIN k
        BY <2>2, <3>2
      <4>2. Kept(r, T)[b] = x /\ Kept(r, T)[a] = k[a]
        BY <2>2, <4>1
      <4>3. k[a] \in Range(q)
        BY <2>5, <4>1 DEF k, Range
      <4>4. PICK i \in 1..Len(q) : q[i] = k[a]
        BY <4>3, RangeHas
      <4> QED BY <2>1, <4>2, <4>4
    <3> QED BY <3>1, <3>2
  <2> HIDE DEF Has, Once, Ordered
  <2> QED BY <2>1, <2>6, <2>7, <2>8
<1>3. Seq(S) \subseteq G
  <2> HIDE DEF G
  <2> QED BY <1>1, <1>2, AllSequences
<1> QED
  BY <1>3, KeptInSeq

(* It is as long as there are places with an element of T. *)
LEMMA KeptLength ==
  ASSUME NEW S, NEW s \in Seq(S), NEW T
  PROVE  /\ IsFiniteSet({i \in DOMAIN s : s[i] \in T})
         /\ Len(Kept(s, T)) = Cardinality({i \in DOMAIN s : s[i] \in T})
<1> DEFINE P(q) == {i \in DOMAIN q : q[i] \in T}
           G == {q \in Seq(S) : IsFiniteSet(P(q)) /\ Len(Kept(q, T)) = Cardinality(P(q))}
<1>1. <<>> \in G
  <2>1. P(<<>>) = {} /\ <<>> \in Seq(S)
    OBVIOUS
  <2> HIDE DEF P
  <2> QED BY <2>1, KeptEmpty, FS_EmptySet
<1>2. ASSUME NEW q \in Seq(S), NEW x \in S, q \in G PROVE Append(q, x) \in G
  <2> DEFINE r == Append(q, x)
             n == Len(q) + 1
  <2>1. r \in Seq(S) /\ DOMAIN r = DOMAIN q \cup {n} /\ n \notin DOMAIN q
          /\ r[n] = x /\ \A i \in DOMAIN q : r[i] = q[i]
    OBVIOUS
  <2>2. Kept(r, T) = IF x \in T THEN Append(Kept(q, T), x) ELSE Kept(q, T)
    BY KeptAppend
  <2>3. Kept(q, T) \in Seq(S)
    BY KeptInSeq
  <2> HIDE DEF r, n
  <2>4. P(r) = (IF x \in T THEN P(q) \cup {n} ELSE P(q)) /\ n \notin P(q)
    BY <2>1
  <2> HIDE DEF P
  <2>5. IsFiniteSet(P(q)) /\ Len(Kept(q, T)) = Cardinality(P(q))
    BY <1>2
  <2>6. IsFiniteSet(P(q) \cup {n}) /\ Cardinality(P(q) \cup {n}) = Cardinality(P(q)) + 1
    BY <2>4, <2>5, FS_AddElement
  <2>7. CASE x \in T
    <3>1. Len(Append(Kept(q, T), x)) = Len(Kept(q, T)) + 1
      BY <2>3
    <3> QED BY <2>1, <2>2, <2>4, <2>5, <2>6, <2>7, <3>1 DEF r
  <2>8. CASE x \notin T
    BY <2>1, <2>2, <2>4, <2>5, <2>8 DEF r
  <2> QED BY <2>7, <2>8
<1>3. Seq(S) \subseteq G
  <2> HIDE DEF G
  <2> QED BY <1>1, <1>2, AllSequences
<1> QED
  BY <1>3

(* Nothing is left out when all is in T. *)
LEMMA KeptAll ==
  ASSUME NEW S, NEW s \in Seq(S), NEW T, S \subseteq T
  PROVE  Kept(s, T) = s
<1> DEFINE G == {q \in Seq(S) : Kept(q, T) = q}
<1>1. <<>> \in G
  BY KeptEmpty
<1>2. ASSUME NEW q \in Seq(S), NEW x \in S, q \in G PROVE Append(q, x) \in G
  <2>1. Kept(Append(q, x), T) = Append(Kept(q, T), x)
    BY KeptAppend
  <2> QED BY <1>2, <2>1
<1>3. Seq(S) \subseteq G
  <2> HIDE DEF G
  <2> QED BY <1>1, <1>2, AllSequences
<1> QED
  BY <1>3

LEMMA KeptNone ==
  ASSUME NEW S, NEW s \in Seq(S), NEW T, S \cap T = {}
  PROVE  Kept(s, T) = <<>>
<1> DEFINE G == {q \in Seq(S) : Kept(q, T) = <<>>}
<1>1. <<>> \in G
  BY KeptEmpty
<1>2. ASSUME NEW q \in Seq(S), NEW x \in S, q \in G PROVE Append(q, x) \in G
  BY <1>2, KeptAppend
<1>3. Seq(S) \subseteq G
  <2> HIDE DEF G
  <2> QED BY <1>1, <1>2, AllSequences
<1> QED
  BY <1>3

-----------------------------------------------------------------------------
(* What FlattenSeq joins. *)

(* The equations of the recursive function in FlattenSeq. *)
FlatBy(f, ss) ==
  /\ f[1] = ss[1]
  /\ \A i \in 2..Len(ss) : f[i] = f[i - 1] \o ss[i]
  /\ FlattenSeq(ss) = f[Len(ss)]

LEMMA FlatSteps ==
  ASSUME NEW S, NEW ss \in Seq(Seq(S)), ss # <<>>
  PROVE  \E f \in [1..Len(ss) -> Seq(S)] : FlatBy(f, ss)
<1> DEFINE n == Len(ss)
           Upto(m, f) == f[1] = ss[1] /\ \A i \in 2..m : f[i] = f[i - 1] \o ss[i]
           Has(m) == \E f \in [1..m -> Seq(S)] : Upto(m, f)
           Bad == {m \in 1..n : ~Has(m)}
<1>0. n \in Nat \ {0} /\ \A i \in 1..n : ss[i] \in Seq(S)
  OBVIOUS
<1>1. Has(n)
  <2> SUFFICES ASSUME n \in Bad PROVE FALSE
    <3> HIDE DEF Has, n
    <3> QED BY <1>0
  <2>1. PICK m \in Bad : \A k \in Bad : m <= k
    <3>1. Bad \in SUBSET Nat
      <4> HIDE DEF Has, n
      <4> QED BY <1>0
    <3> HIDE DEF Bad
    <3> QED BY <3>1, LeastNumber
  <2>2. m \in 1..n /\ ~Has(m)
    BY <2>1
  <2>3. CASE m = 1
    <3>1. [i \in 1..m |-> ss[1]] \in [1..m -> Seq(S)] /\ Upto(m, [i \in 1..m |-> ss[1]])
      BY <1>0, <2>2, <2>3
    <3> QED BY <2>2, <3>1
  <2>4. CASE m # 1
    <3>1. m - 1 \in 1..n /\ ~(m <= m - 1)
      BY <1>0, <2>2, <2>4
    <3>2. Has(m - 1)
      <4>1. m - 1 \notin Bad
        <5> HIDE DEF Bad
        <5> QED BY <2>1, <3>1
      <4> QED BY <3>1, <4>1
    <3>3. PICK f \in [1..(m-1) -> Seq(S)] : Upto(m - 1, f)
      BY <3>2
    <3> DEFINE next == f[m - 1] \o ss[m]
               g == [i \in 1..m |-> IF i = m THEN next ELSE f[i]]
    <3>4. f[m - 1] \in Seq(S) /\ ss[m] \in Seq(S)
      BY <1>0, <2>2, <2>4, <3>3
    <3>5. next \in Seq(S)
      BY <3>4
    <3> HIDE DEF next
    <3>6. g \in [1..m -> Seq(S)]
      <4>1. \A i \in 1..m : i # m => i \in 1..(m-1)
        BY <2>2
      <4> QED BY <3>3, <3>5, <4>1
    <3>7. Upto(m, g)
      <4>1. g[1] = ss[1]
        BY <2>2, <2>4, <3>3
      <4>2. ASSUME NEW i \in 2..m PROVE g[i] = g[i - 1] \o ss[i]
        <5>1. i \in 1..m /\ i - 1 \in 1..m /\ i - 1 # m
          BY <2>2
        <5>2. CASE i = m
          BY <5>1, <5>2 DEF next
        <5>3. CASE i # m
          <6>1. i \in 2..(m-1)
            BY <2>2, <5>3
          <6> QED BY <3>3, <5>1, <5>3, <6>1
        <5> QED BY <5>2, <5>3
      <4> QED BY <4>1, <4>2
    <3> HIDE DEF g, Upto
    <3>8. Has(m)
      BY <3>6, <3>7
    <3> QED BY <2>2, <3>8
  <2> QED BY <2>3, <2>4
<1>2. PICK h \in [1..n -> Seq(S)] : Upto(n, h)
  BY <1>1
<1> DEFINE Eq(f) == f = [i \in 1..n |-> IF i = 1 THEN ss[i] ELSE f[i - 1] \o ss[i]]
           c == CHOOSE f : Eq(f)
<1>3. Eq(h)
  <2>1. ASSUME NEW i \in 1..n PROVE h[i] = IF i = 1 THEN ss[i] ELSE h[i - 1] \o ss[i]
    <3>1. CASE i = 1
      BY <1>2, <3>1
    <3>2. CASE i # 1
      <4>1. i \in 2..n
        BY <1>0, <3>2
      <4> QED BY <1>2, <3>2, <4>1
    <3> QED BY <3>1, <3>2
  <2> QED BY <1>2, <2>1
<1>4. Eq(c)
  <2> HIDE DEF Eq
  <2> QED BY <1>3
<1>5. FlattenSeq(ss) = c[n]
  BY DEF FlattenSeq
<1>6. \A i \in 1..n : c[i] = IF i = 1 THEN ss[i] ELSE c[i - 1] \o ss[i]
  <2> HIDE DEF c
  <2> QED BY <1>4
<1> HIDE DEF c, Eq
<1>7. c = h
  <2> DEFINE Off == {i \in 1..n : c[i] # h[i]}
  <2> SUFFICES ASSUME Off # {} PROVE FALSE
    <3> HIDE DEF n
    <3>1. DOMAIN c = 1..n /\ c = [i \in 1..n |-> c[i]]
      BY <1>4 DEF Eq
    <3>2. h = [i \in 1..n |-> h[i]]
      OBVIOUS
    <3> QED BY <3>1, <3>2
  <2>1. PICK k \in Off : TRUE
    OBVIOUS
  <2>2. PICK m \in Off : \A j \in Off : m <= j
    <3>1. Off \in SUBSET Nat
      <4> HIDE DEF n
      <4> QED BY <1>0
    <3> HIDE DEF Off
    <3> QED BY <2>1, <3>1, LeastNumber
  <2>3. m \in 1..n /\ c[m] # h[m]
    BY <2>2
  <2>4. m # 1
    BY <1>2, <1>6, <2>3
  <2>5. m \in 2..n /\ m - 1 \in 1..n /\ ~(m <= m - 1)
    BY <1>0, <2>3, <2>4
  <2>6. c[m - 1] = h[m - 1]
    <3>1. m - 1 \notin Off
      <4> HIDE DEF Off
      <4> QED BY <2>2, <2>5
    <3> QED BY <2>5, <3>1
  <2> QED BY <1>2, <1>6, <2>3, <2>4, <2>5, <2>6
<1> QED
  BY <1>2, <1>5, <1>7 DEF FlatBy

LEMMA FlatEmpty == FlattenSeq(<<>>) = <<>>
  BY DEF FlattenSeq

LEMMA FlatInSeq ==
  ASSUME NEW S, NEW ss \in Seq(Seq(S))
  PROVE  FlattenSeq(ss) \in Seq(S)
<1>1. CASE ss = <<>>
  <2>1. <<>> \in Seq(S)
    OBVIOUS
  <2> QED BY <1>1, <2>1, FlatEmpty, Zenon
<1>2. CASE ss # <<>>
  <2>1. PICK f \in [1..Len(ss) -> Seq(S)] : FlatBy(f, ss)
    BY <1>2, FlatSteps
  <2> QED BY <1>2, <2>1 DEF FlatBy
<1> QED
  BY <1>1, <1>2

LEMMA FlatAppend ==
  ASSUME NEW S, NEW ss \in Seq(Seq(S)), NEW s \in Seq(S)
  PROVE  FlattenSeq(Append(ss, s)) = FlattenSeq(ss) \o s
<1> DEFINE r == Append(ss, s)
           n == Len(ss)
<1>1. r \in Seq(Seq(S)) /\ Len(r) = n + 1 /\ r[n + 1] = s /\ n \in Nat /\ r # <<>>
        /\ \A i \in 1..n : r[i] = ss[i]
  <2> DEFINE A == Seq(S)
  <2>1. ss \in Seq(A) /\ s \in A
    OBVIOUS
  <2> HIDE DEF A
  <2>2. r \in Seq(A) /\ Len(r) = n + 1 /\ r[n + 1] = s /\ n \in Nat /\ r # <<>>
        /\ \A i \in 1..n : r[i] = ss[i]
    BY ONLY <2>1
  <2> QED BY <2>2 DEF A
<1>2. PICK g \in [1..Len(r) -> Seq(S)] : FlatBy(g, r)
  <2> HIDE DEF r
  <2> QED BY <1>1, FlatSteps
<1> HIDE DEF r
<1>3. CASE ss = <<>>
  <2>1. n = 0 /\ FlattenSeq(r) = s
    BY <1>1, <1>2, <1>3 DEF FlatBy
  <2>2. <<>> \o s = s
    OBVIOUS
  <2> QED BY <1>3, <2>1, <2>2, FlatEmpty DEF r
<1>4. CASE ss # <<>>
  <2>1. PICK f \in [1..n -> Seq(S)] : FlatBy(f, ss)
    BY <1>4, FlatSteps
  <2>2. n # 0
    BY <1>4
  <2>3. g[n] = f[n]
    <3> DEFINE Off == {i \in 1..n : g[i] # f[i]}
    <3> SUFFICES ASSUME n \in Off PROVE FALSE
      BY <1>1, <2>2
    <3>1. PICK m \in Off : \A j \in Off : m <= j
      <4>1. Off \in SUBSET Nat
        BY <1>1
      <4> HIDE DEF Off
      <4> QED BY <4>1, LeastNumber
    <3>2. m \in 1..n /\ g[m] # f[m]
      BY <3>1
    <3>3. m # 1
      BY <1>1, <1>2, <2>1, <3>2 DEF FlatBy
    <3>4. m \in 2..n /\ m - 1 \in 1..n /\ ~(m <= m - 1) /\ m \in 2..Len(r)
      BY <1>1, <3>2, <3>3
    <3>5. g[m - 1] = f[m - 1]
      <4>1. m - 1 \notin Off
        <5> HIDE DEF Off
        <5> QED BY <3>1, <3>4
      <4> QED BY <3>4, <4>1
    <3> QED BY <1>1, <1>2, <2>1, <3>2, <3>4, <3>5 DEF FlatBy
  <2>4. n + 1 \in 2..Len(r) /\ (n + 1) - 1 = n
    BY <1>1, <2>2
  <2>5. g[n + 1] = g[n] \o s
    BY <1>1, <1>2, <2>4 DEF FlatBy
  <2> QED BY <1>1, <1>2, <2>1, <2>3, <2>5 DEF FlatBy, r
<1> QED
  BY <1>3, <1>4

LEMMA FlatConcat ==
  ASSUME NEW S, NEW ss \in Seq(Seq(S)), NEW rs \in Seq(Seq(S))
  PROVE  FlattenSeq(ss \o rs) = FlattenSeq(ss) \o FlattenSeq(rs)
<1> DEFINE G == {q \in Seq(Seq(S)) : FlattenSeq(ss \o q) = FlattenSeq(ss) \o FlattenSeq(q)}
<1>1. <<>> \in G
  <2>1. ss \o <<>> = ss /\ <<>> \in Seq(Seq(S)) /\ FlattenSeq(ss) \in Seq(S)
    BY FlatInSeq
  <2>2. FlattenSeq(ss) \o <<>> = FlattenSeq(ss)
    BY <2>1
  <2> QED BY <2>1, <2>2, FlatEmpty
<1>2. ASSUME NEW q \in Seq(Seq(S)), NEW x \in Seq(S), q \in G PROVE Append(q, x) \in G
  <2>1. ss \o Append(q, x) = Append(ss \o q, x) /\ ss \o q \in Seq(Seq(S))
          /\ Append(q, x) \in Seq(Seq(S))
    OBVIOUS
  <2>2. FlattenSeq(ss) \in Seq(S) /\ FlattenSeq(q) \in Seq(S)
    BY FlatInSeq
  <2>3. FlattenSeq(Append(ss \o q, x)) = FlattenSeq(ss \o q) \o x
    BY <2>1, FlatAppend
  <2>4. FlattenSeq(Append(q, x)) = FlattenSeq(q) \o x
    BY FlatAppend
  <2>5. FlattenSeq(ss \o q) = FlattenSeq(ss) \o FlattenSeq(q)
    BY <1>2
  <2>6. (FlattenSeq(ss) \o FlattenSeq(q)) \o x = FlattenSeq(ss) \o (FlattenSeq(q) \o x)
    <3>1. \A a, b \in Seq(S) : (a \o b) \o x = a \o (b \o x)
      OBVIOUS
    <3> QED BY <2>2, <3>1, Zenon
  <2>7. FlattenSeq(ss \o Append(q, x)) = FlattenSeq(ss) \o FlattenSeq(Append(q, x))
    BY <2>1, <2>3, <2>4, <2>5, <2>6, Zenon
  <2> QED BY <2>1, <2>7
<1>3. Seq(Seq(S)) \subseteq G
  <2> HIDE DEF G
  <2> QED BY <1>1, <1>2, AllSequences
<1> QED
  BY <1>3

(* A piece of one element each gives the sequence back. *)
LEMMA FlatSingles ==
  ASSUME NEW S, NEW s \in Seq(S)
  PROVE  FlattenSeq([i \in DOMAIN s |-> <<s[i]>>]) = s
<1> DEFINE Singles(q) == [i \in DOMAIN q |-> <<q[i]>>]
           G == {q \in Seq(S) : FlattenSeq(Singles(q)) = q}
<1>1. <<>> \in G
  <2>1. Singles(<<>>) = <<>>
    OBVIOUS
  <2> QED BY <2>1, FlatEmpty
<1>2. ASSUME NEW q \in Seq(S), NEW x \in S, q \in G PROVE Append(q, x) \in G
  <2>1. Singles(q) \in Seq(Seq(S)) /\ <<x>> \in Seq(S)
    <3>1. \A i \in DOMAIN q : <<q[i]>> \in Seq(S)
      OBVIOUS
    <3> DEFINE A == Seq(S)
    <3>2. \A i \in 1..Len(q) : <<q[i]>> \in A
      BY <3>1
    <3> HIDE DEF A
    <3>3. Singles(q) \in Seq(A)
      BY <3>2
    <3> QED BY <3>3 DEF A
  <2>2. Singles(Append(q, x)) = Append(Singles(q), <<x>>)
    OBVIOUS
  <2> HIDE DEF Singles
  <2>3. FlattenSeq(Append(Singles(q), <<x>>)) = FlattenSeq(Singles(q)) \o <<x>>
    BY <2>1, FlatAppend
  <2>4. q \o <<x>> = Append(q, x) /\ Append(q, x) \in Seq(S)
    OBVIOUS
  <2>5. FlattenSeq(Singles(q)) = q
    BY <1>2
  <2> QED BY <2>2, <2>3, <2>4, <2>5, Zenon
<1>3. Seq(S) \subseteq G
  <2> HIDE DEF G
  <2> QED BY <1>1, <1>2, AllSequences
<1> QED
  BY <1>3

(* The places of the pieces: what comes before the i-th is this long. *)
Offset(ss, i) == Len(FlattenSeq(SubSeq(ss, 1, i - 1)))

LEMMA SeqSplit ==
  ASSUME NEW S, NEW s \in Seq(S), NEW b \in 0..Len(s)
  PROVE  /\ SubSeq(s, 1, b) \in Seq(S) /\ Len(SubSeq(s, 1, b)) = b
         /\ SubSeq(s, b + 1, Len(s)) \in Seq(S)
         /\ s = SubSeq(s, 1, b) \o SubSeq(s, b + 1, Len(s))
<1>1. Len(s) \in Nat /\ 1 \in 1..(Len(s)+1) /\ b \in (1-1)..Len(s) /\ Len(s) \in b..Len(s)
  OBVIOUS
<1>2. SubSeq(s, 1, b) \o SubSeq(s, b + 1, Len(s)) = SubSeq(s, 1, Len(s))
  BY <1>1, ConcatAdjacentSubSeq
<1>3. SubSeq(s, 1, Len(s)) = s
  BY SubSeqFull
<1>4. \A i \in 1..b : s[i] \in S
  BY <1>1
<1>5. SubSeq(s, 1, b) \in Seq(S) /\ Len(SubSeq(s, 1, b)) = b
  BY <1>1
<1>6. SubSeq(s, b + 1, Len(s)) \in Seq(S)
  BY <1>1
<1> QED
  BY <1>2, <1>3, <1>5, <1>6

LEMMA SubSeqIs ==
  ASSUME NEW S, NEW s \in Seq(S), NEW a \in 0..Len(s), NEW b \in a..Len(s)
  PROVE  /\ SubSeq(s, a + 1, b) \in Seq(S)
         /\ Len(SubSeq(s, a + 1, b)) = b - a
         /\ \A i \in 1..(b - a) : SubSeq(s, a + 1, b)[i] = s[a + i]
<1>1. Len(s) \in Nat /\ a \in Nat /\ b \in Nat /\ a <= b /\ b <= Len(s)
  OBVIOUS
<1>2. a + 1 \in Int /\ b \in Int /\ \A i \in (a + 1)..b : s[i] \in S
  BY <1>1
<1>3. /\ SubSeq(s, a + 1, b) \in Seq(S)
      /\ Len(SubSeq(s, a + 1, b)) = IF a + 1 <= b THEN b - (a + 1) + 1 ELSE 0
      /\ \A i \in 1..(b - (a + 1) + 1) : SubSeq(s, a + 1, b)[i] = s[(a + 1) + i - 1]
  BY <1>2, SubSeqProperties
<1> QED
  BY <1>1, <1>3

LEMMA FlatSplit ==
  ASSUME NEW S, NEW ss \in Seq(Seq(S)), NEW b \in 0..Len(ss)
  PROVE  /\ SubSeq(ss, 1, b) \in Seq(Seq(S)) /\ SubSeq(ss, b + 1, Len(ss)) \in Seq(Seq(S))
         /\ FlattenSeq(ss) = FlattenSeq(SubSeq(ss, 1, b))
                               \o FlattenSeq(SubSeq(ss, b + 1, Len(ss)))
<1> DEFINE A == Seq(S)
<1>1. ss \in Seq(A)
  OBVIOUS
<1> HIDE DEF A
<1>2. SubSeq(ss, 1, b) \in Seq(A) /\ SubSeq(ss, b + 1, Len(ss)) \in Seq(A)
        /\ ss = SubSeq(ss, 1, b) \o SubSeq(ss, b + 1, Len(ss))
  BY ONLY <1>1, SeqSplit
<1>3. SubSeq(ss, 1, b) \in Seq(Seq(S)) /\ SubSeq(ss, b + 1, Len(ss)) \in Seq(Seq(S))
  BY <1>2 DEF A
<1>4. FlattenSeq(SubSeq(ss, 1, b) \o SubSeq(ss, b + 1, Len(ss)))
        = FlattenSeq(SubSeq(ss, 1, b)) \o FlattenSeq(SubSeq(ss, b + 1, Len(ss)))
  BY ONLY <1>3, FlatConcat
<1> QED
  BY <1>2, <1>3, <1>4, Zenon

LEMMA FlatPlaces ==
  ASSUME NEW S, NEW ss \in Seq(Seq(S))
  PROVE  /\ \A i \in DOMAIN ss :
              /\ Offset(ss, i) \in Nat
              /\ Offset(ss, i + 1) = Offset(ss, i) + Len(ss[i])
              /\ \A j \in DOMAIN ss[i] :
                   /\ Offset(ss, i) + j \in DOMAIN FlattenSeq(ss)
                   /\ FlattenSeq(ss)[Offset(ss, i) + j] = ss[i][j]
         /\ Offset(ss, 1) = 0
         /\ Len(FlattenSeq(ss)) = Offset(ss, Len(ss) + 1)
         /\ \A p \in DOMAIN FlattenSeq(ss) :
              \E i \in DOMAIN ss : \E j \in DOMAIN ss[i] : p = Offset(ss, i) + j
<1> DEFINE A == Seq(S)
           n == Len(ss)
           F(i) == FlattenSeq(SubSeq(ss, 1, i))
<1>1. ss \in Seq(A) /\ n \in Nat /\ DOMAIN ss = 1..n /\ \A i \in 1..n : ss[i] \in Seq(S)
  OBVIOUS
<1>2. ASSUME NEW i \in 0..n PROVE SubSeq(ss, 1, i) \in Seq(A) /\ F(i) \in Seq(S)
  <2>1. SubSeq(ss, 1, i) \in Seq(Seq(S))
    BY FlatSplit
  <2> QED BY <2>1, FlatInSeq
<1>3. ASSUME NEW i \in 1..n
      PROVE  F(i) = F(i - 1) \o ss[i]
  <2>1. i - 1 \in 0..n
    BY <1>1
  <2> HIDE DEF A
  <2>2. SubSeq(ss, 1, i) = Append(SubSeq(ss, 1, i - 1), ss[i])
    BY ONLY <1>1, i \in 1..n DEF n
  <2>3. SubSeq(ss, 1, i - 1) \in Seq(Seq(S)) /\ ss[i] \in Seq(S)
    BY <1>1, <1>2, <2>1 DEF A
  <2>4. FlattenSeq(Append(SubSeq(ss, 1, i - 1), ss[i])) = F(i - 1) \o ss[i]
    BY <2>3, FlatAppend
  <2> QED BY <2>2, <2>4
<1>4. F(n) = FlattenSeq(ss)
  <2> HIDE DEF A
  <2>1. SubSeq(ss, 1, n) = ss
    BY ONLY <1>1 DEF n
  <2> QED BY <2>1
<1>5. F(0) = <<>>
  <2> HIDE DEF A
  <2>1. SubSeq(ss, 1, 0) = <<>>
    BY ONLY <1>1
  <2> QED BY <2>1, FlatEmpty
<1> DEFINE Rest(i) == FlattenSeq(SubSeq(ss, i + 1, n))
<1>6. ASSUME NEW i \in 0..n
      PROVE  Rest(i) \in Seq(S) /\ FlattenSeq(ss) = F(i) \o Rest(i)
  <2>1. SubSeq(ss, i + 1, n) \in Seq(Seq(S)) /\ FlattenSeq(ss) = F(i) \o Rest(i)
    BY FlatSplit
  <2> QED BY <2>1, FlatInSeq
<1>7. \A i \in 1..(n+1) : Offset(ss, i) = Len(F(i - 1))
  BY DEF Offset
<1> HIDE DEF F, Rest, A, n
<1>8. ASSUME NEW i \in 1..n
      PROVE  /\ Offset(ss, i) \in Nat
             /\ Offset(ss, i + 1) = Offset(ss, i) + Len(ss[i])
             /\ \A j \in DOMAIN ss[i] :
                  /\ Offset(ss, i) + j \in DOMAIN FlattenSeq(ss)
                  /\ FlattenSeq(ss)[Offset(ss, i) + j] = ss[i][j]
  <2>1. i - 1 \in 0..n /\ i \in 0..n /\ i \in 1..(n+1) /\ i + 1 \in 1..(n+1) /\ (i + 1) - 1 = i
    BY <1>1
  <2>2. F(i - 1) \in Seq(S) /\ F(i) \in Seq(S) /\ Rest(i) \in Seq(S) /\ ss[i] \in Seq(S)
    BY <1>1, <1>2, <1>6, <2>1
  <2>3. F(i) = F(i - 1) \o ss[i] /\ FlattenSeq(ss) = F(i) \o Rest(i)
    BY <1>3, <1>6, <2>1
  <2>4. Offset(ss, i) = Len(F(i - 1)) /\ Offset(ss, i + 1) = Len(F(i))
    BY <1>7, <2>1
  <2> DEFINE a == F(i - 1)
             b == ss[i]
             c == Rest(i)
  <2>5. a \in Seq(S) /\ b \in Seq(S) /\ c \in Seq(S)
          /\ Offset(ss, i) = Len(a) /\ Offset(ss, i + 1) = Len(a \o b)
          /\ FlattenSeq(ss) = (a \o b) \o c
    BY <2>2, <2>3, <2>4
  <2> HIDE DEF a, b, c
  <2>6. Len(a) \in Nat /\ Len(a \o b) = Len(a) + Len(b)
          /\ \A j \in DOMAIN b : Len(a) + j \in DOMAIN ((a \o b) \o c)
                                 /\ ((a \o b) \o c)[Len(a) + j] = b[j]
    BY ONLY <2>5
  <2>7. b = ss[i]
    BY DEF b
  <2> QED BY ONLY <2>5, <2>6, <2>7, Zenon
<1>9. Offset(ss, 1) = 0 /\ Len(FlattenSeq(ss)) = Offset(ss, n + 1)
  <2>1. 1 \in 1..(n+1) /\ n + 1 \in 1..(n+1) /\ (n + 1) - 1 = n /\ 1 - 1 = 0
    BY <1>1
  <2> QED BY <1>4, <1>5, <1>7, <2>1
<1>10. ASSUME NEW p \in DOMAIN FlattenSeq(ss)
       PROVE  \E i \in DOMAIN ss : \E j \in DOMAIN ss[i] : p = Offset(ss, i) + j
  <2> DEFINE Past == {i \in 1..(n+1) : p <= Offset(ss, i)}
  <2>0. FlattenSeq(ss) \in Seq(S)
    BY FlatInSeq
  <2>1. p \in 1..Len(FlattenSeq(ss))
    BY <2>0
  <2>2. n + 1 \in Past
    BY <1>1, <1>9, <2>0, <2>1
  <2>3. PICK m \in Past : \A k \in Past : m <= k
    <3>1. Past \in SUBSET Nat
      BY <1>1
    <3> HIDE DEF Past
    <3> QED BY <2>2, <3>1, LeastNumber
  <2>4. m \in 1..(n+1) /\ p <= Offset(ss, m)
    BY <2>3
  <2>5. m # 1
    BY <1>9, <2>1, <2>4
  <2>6. m - 1 \in 1..n /\ m - 1 \in 1..(n+1) /\ (m - 1) + 1 = m /\ ~(m <= m - 1)
    BY <1>1, <2>4, <2>5
  <2>7. ~(p <= Offset(ss, m - 1))
    <3>1. m - 1 \notin Past
      <4> HIDE DEF Past
      <4> QED BY <2>3, <2>6
    <3> QED BY <2>6, <3>1
  <2>8. Offset(ss, m - 1) \in Nat /\ Offset(ss, m) = Offset(ss, m - 1) + Len(ss[m - 1])
    BY <1>8, <2>6
  <2>9. ss[m - 1] \in Seq(S) /\ Len(ss[m - 1]) \in Nat /\ DOMAIN ss[m - 1] = 1..Len(ss[m - 1])
    BY <1>1, <2>6
  <2> DEFINE o == Offset(ss, m - 1)
             l == Len(ss[m - 1])
  <2>10. o \in Nat /\ l \in Nat /\ p \in Nat /\ p <= o + l /\ ~(p <= o)
    BY <2>1, <2>4, <2>7, <2>8, <2>9
  <2> HIDE DEF o, l
  <2>11. p - o \in 1..l /\ p = o + (p - o)
    BY <2>10
  <2>12. p - o \in DOMAIN ss[m - 1] /\ p = Offset(ss, m - 1) + (p - o)
    BY <2>9, <2>11 DEF o, l
  <2> QED BY <1>1, <2>6, <2>12
<1> QED
  BY <1>1, <1>8, <1>9, <1>10 DEF n

(* Empty sequences make an empty one. *)
LEMMA FlatNone ==
  ASSUME NEW S, NEW ss \in Seq(Seq(S)), \A i \in DOMAIN ss : ss[i] = <<>>
  PROVE  FlattenSeq(ss) = <<>>
<1>1. FlattenSeq(ss) \in Seq(S)
  BY FlatInSeq
<1>2. \A p \in DOMAIN FlattenSeq(ss) :
        \E i \in DOMAIN ss : \E j \in DOMAIN ss[i] : p = Offset(ss, i) + j
  BY FlatPlaces
<1>3. \A i \in DOMAIN ss : DOMAIN ss[i] = {}
  OBVIOUS
<1>4. DOMAIN FlattenSeq(ss) = {}
  BY <1>2, <1>3, Zenon
<1> QED
  BY ONLY <1>1, <1>4

(* Filtering what was joined joins what was filtered. *)
LEMMA KeptFlat ==
  ASSUME NEW S, NEW ss \in Seq(Seq(S)), NEW T
  PROVE  Kept(FlattenSeq(ss), T) = FlattenSeq([i \in DOMAIN ss |-> Kept(ss[i], T)])
<1> DEFINE Each(q) == [i \in DOMAIN q |-> Kept(q[i], T)]
           G == {q \in Seq(Seq(S)) : Kept(FlattenSeq(q), T) = FlattenSeq(Each(q))}
<1>1. <<>> \in G
  <2>1. Each(<<>>) = <<>> /\ <<>> \in Seq(Seq(S))
    OBVIOUS
  <2> QED BY <2>1, FlatEmpty, KeptEmpty
<1>2. ASSUME NEW q \in Seq(Seq(S)), NEW x \in Seq(S), q \in G
      PROVE  Append(q, x) \in G
  <2> DEFINE A == Seq(S)
  <2>1. q \in Seq(A) /\ x \in A /\ \A y \in A : Kept(y, T) \in A
    BY KeptInSeq
  <2> DEFINE n == Len(q)
             r == Append(q, x)
  <2> HIDE DEF A
  <2>a. /\ n \in Nat /\ DOMAIN q = 1..n /\ \A i \in 1..n : q[i] \in A
        /\ r \in Seq(A) /\ DOMAIN r = 1..(n+1) /\ r[n+1] = x /\ \A i \in 1..n : r[i] = q[i]
    BY ONLY <2>1
  <2> HIDE DEF n, r
  <2>b. Each(q) \in Seq(A) /\ Len(Each(q)) = n /\ \A i \in 1..n : Each(q)[i] = Kept(q[i], T)
    BY <2>1, <2>a
  <2>c. Each(r) = [i \in 1..(n+1) |-> IF i = n + 1 THEN Kept(x, T) ELSE Kept(q[i], T)]
    BY <2>a
  <2> HIDE DEF Each
  <2>d. Append(Each(q), Kept(x, T))
          = [i \in 1..(n+1) |-> IF i = n + 1 THEN Kept(x, T) ELSE Kept(q[i], T)]
    <3> DEFINE e == Each(q)
               y == Kept(x, T)
               z == [i \in 1..(n+1) |-> IF i = n + 1 THEN y ELSE e[i]]
    <3>1. e \in Seq(A) /\ Len(e) = n /\ y \in A
      BY <2>1, <2>b
    <3>2. z = [i \in 1..(n+1) |-> IF i = n + 1 THEN y ELSE Kept(q[i], T)]
      BY <2>a, <2>b
    <3> HIDE DEF e, y
    <3>3. Append(e, y) \in Seq(A) /\ z \in Seq(A) /\ Len(Append(e, y)) = n + 1 /\ Len(z) = n + 1
            /\ \A i \in 1..(n+1) : Append(e, y)[i] = z[i]
      BY ONLY <2>a, <3>1
    <3> HIDE DEF z
    <3>4. Append(e, y) = z
      BY ONLY <3>3, SeqEqual
    <3> QED BY <3>2, <3>4 DEF e, y
  <2>2. Each(q) \in Seq(A) /\ Each(Append(q, x)) = Append(Each(q), Kept(x, T))
          /\ Append(q, x) \in Seq(A)
    BY <2>a, <2>b, <2>c, <2>d DEF r
  <2>3. Each(q) \in Seq(Seq(S)) /\ Kept(x, T) \in Seq(S) /\ Append(q, x) \in Seq(Seq(S))
    BY <2>1, <2>2 DEF A
  <2>4. FlattenSeq(Append(Each(q), Kept(x, T))) = FlattenSeq(Each(q)) \o Kept(x, T)
    BY <2>3, FlatAppend
  <2>5. FlattenSeq(Append(q, x)) = FlattenSeq(q) \o x /\ FlattenSeq(q) \in Seq(S)
    BY FlatAppend, FlatInSeq
  <2>6. Kept(FlattenSeq(q) \o x, T) = Kept(FlattenSeq(q), T) \o Kept(x, T)
    BY <2>5, KeptConcat
  <2> QED BY <1>2, <2>2, <2>3, <2>4, <2>5, <2>6
<1>3. Seq(Seq(S)) \subseteq G
  <2> HIDE DEF G
  <2> QED BY <1>1, <1>2, AllSequences
<1> QED
  BY <1>3

(* Elements replaced by sequences that keep the same. *)
LEMMA KeptPieces ==
  ASSUME NEW S, NEW s \in Seq(S), NEW ss \in Seq(Seq(S)), NEW T,
         DOMAIN ss = DOMAIN s,
         \A i \in DOMAIN s : Kept(ss[i], T) = Kept(<<s[i]>>, T)
  PROVE  Kept(FlattenSeq(ss), T) = Kept(s, T)
<1> DEFINE rs == [i \in DOMAIN s |-> <<s[i]>>]
           A == Seq(S)
<1>1. \A i \in DOMAIN s : <<s[i]>> \in A
  OBVIOUS
<1>2. rs \in Seq(Seq(S)) /\ DOMAIN rs = DOMAIN s /\ \A i \in DOMAIN s : rs[i] = <<s[i]>>
  <2> HIDE DEF A
  <2>1. rs \in Seq(A)
    BY <1>1
  <2> QED BY <2>1 DEF A
<1>3. FlattenSeq(rs) = s
  BY FlatSingles
<1> HIDE DEF rs
<1>4. [i \in DOMAIN ss |-> Kept(ss[i], T)] = [i \in DOMAIN rs |-> Kept(rs[i], T)]
  BY <1>2
<1>5. Kept(FlattenSeq(ss), T) = FlattenSeq([i \in DOMAIN ss |-> Kept(ss[i], T)])
  BY KeptFlat
<1>6. Kept(FlattenSeq(rs), T) = FlattenSeq([i \in DOMAIN rs |-> Kept(rs[i], T)])
  BY <1>2, KeptFlat
<1> QED
  BY <1>3, <1>4, <1>5, <1>6

=============================================================================
