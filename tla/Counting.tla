------------------------------- MODULE Counting -------------------------------
(***************************************************************************)
(* Lemmas the proofs share: least numbers, lists that are joined, places   *)
(* in an order, sums over sets.                                            *)
(***************************************************************************)
EXTENDS SequencesExt, FunctionTheorems, FiniteSetTheorems, SequenceTheorems,
        WellFoundedInduction, NaturalsInduction, TLAPS

\* In place of induction: what is to hold of every number is shown of the least one that
\* would be a counterexample.
LEMMA LeastNumber ==
  ASSUME NEW S \in SUBSET Nat, S # {}
  PROVE  \E n \in S : \A m \in S : n <= m
<1> DEFINE R == OpToRel(<, Nat)
<1>1. IsWellFoundedOn(R, Nat)
  BY NatLessThanWellFounded
<1>2. \A x, y \in Nat : <<x, y>> \in R <=> x < y
  BY DEF OpToRel
<1> HIDE DEF R
<1>3. PICK n \in S : \A m \in S : <<m, n>> \notin R
  BY <1>1, WFMin
<1>4. ASSUME NEW m \in S
      PROVE  n <= m
  <2>1. m \in Nat /\ n \in Nat
    OBVIOUS
  <2>2. ~(m < n)
    BY <2>1, <1>2, <1>3
  <2> QED
    BY <2>1, <2>2
<1> QED
  BY <1>4

\* f joins the first m of the sequences, one after the other.
Joins(f, s, m) == f = [i \in 1..m |-> IF i = 1 THEN s[i] ELSE f[i-1] \o s[i]]

LEMMA SomeFunctionJoins ==
  ASSUME NEW s
  PROVE  \A m \in Nat : \E f : Joins(f, s, m)
<1> DEFINE Bad == {m \in Nat : ~ \E f : Joins(f, s, m)}
<1> SUFFICES ASSUME Bad # {}
             PROVE  FALSE
  OBVIOUS
<1>1. PICK m \in Bad : \A k \in Bad : m <= k
  <2>1. Bad \in SUBSET Nat
    OBVIOUS
  <2> HIDE DEF Bad
  <2> QED
    BY <2>1, LeastNumber
<1>2. m # 0
  <2> DEFINE f == [i \in 1..0 |-> 0]
  <2>1. 1..0 = {}
    OBVIOUS
  <2>2. Joins(f, s, 0)
    BY <2>1 DEF Joins
  <2> QED
    BY <2>2
<1>3. m - 1 \in Nat /\ m - 1 \notin Bad /\ m \in Nat
  BY <1>1, <1>2
<1>4. PICK g : Joins(g, s, m - 1)
  BY <1>3
<1> DEFINE f == [i \in 1..m |-> IF i < m THEN g[i]
                                ELSE IF i = 1 THEN s[i] ELSE g[i-1] \o s[i]]
<1>5. ASSUME NEW i \in 1..m
      PROVE  f[i] = IF i = 1 THEN s[i] ELSE f[i-1] \o s[i]
  <2>1. CASE i < m
    <3>1. i \in 1..(m-1) /\ f[i] = g[i]
      BY <2>1, <1>3
    <3>2. g[i] = IF i = 1 THEN s[i] ELSE g[i-1] \o s[i]
      BY <3>1, <1>4 DEF Joins
    <3>3. i # 1 => f[i-1] = g[i-1]
      BY <2>1, <1>3
    <3> QED
      BY <3>1, <3>2, <3>3
  <2>2. CASE ~(i < m)
    <3>1. i # 1 => f[i-1] = g[i-1]
      BY <2>2, <1>3
    <3>2. f[i] = IF i = 1 THEN s[i] ELSE g[i-1] \o s[i]
      BY <2>2
    <3> QED
      BY <3>1, <3>2
  <2> QED
    BY <2>1, <2>2
<1>6. f = [i \in 1..m |-> f[i]]
  OBVIOUS
<1> HIDE DEF f
<1>7. Joins(f, s, m)
  BY <1>5, <1>6 DEF Joins
<1> QED
  BY <1>7, <1>1

LEMMA FlattenIsJoined ==
  ASSUME NEW W, NEW s \in Seq(Seq(W)), Len(s) # 0
  PROVE  \E f : Joins(f, s, Len(s)) /\ FlattenSeq(s) = f[Len(s)]
<1> DEFINE f == CHOOSE f : f = [i \in 1..Len(s) |-> IF i = 1 THEN s[i] ELSE f[i-1] \o s[i]]
<1>1. Joins(f, s, Len(s))
  <2>1. \E g : g = [i \in 1..Len(s) |-> IF i = 1 THEN s[i] ELSE g[i-1] \o s[i]]
    <3>1. Len(s) \in Nat
      OBVIOUS
    <3>2. \E g : Joins(g, s, Len(s))
      BY <3>1, SomeFunctionJoins
    <3> QED
      BY <3>2 DEF Joins
  <2> QED
    BY <2>1 DEF Joins
<1>2. FlattenSeq(s) = f[Len(s)]
  BY DEF FlattenSeq
<1> QED
  BY <1>1, <1>2

\* Flattening neither loses a word nor adds one.
LEMMA FlattenKeepsWords ==
  ASSUME NEW W, NEW s \in Seq(Seq(W))
  PROVE  ToSet(FlattenSeq(s)) = UNION {ToSet(s[n]) : n \in DOMAIN s}
<1>1. CASE Len(s) = 0
  <2>1. FlattenSeq(s) = s /\ DOMAIN s = {}
    BY <1>1 DEF FlattenSeq
  <2> QED
    BY <2>1 DEF ToSet
<1>2. CASE Len(s) # 0
  <2>1. PICK f : Joins(f, s, Len(s)) /\ FlattenSeq(s) = f[Len(s)]
    BY <1>2, FlattenIsJoined
  <2> DEFINE Right(i) == f[i] \in Seq(W) /\ ToSet(f[i]) = UNION {ToSet(s[n]) : n \in 1..i}
             Bad == {i \in 1..Len(s) : ~Right(i)}
  <2>2. Bad = {}
    <3> SUFFICES ASSUME Bad # {}
                 PROVE  FALSE
      OBVIOUS
    <3>1. PICK i \in Bad : \A k \in Bad : i <= k
      <4>1. Bad \in SUBSET Nat
        OBVIOUS
      <4> HIDE DEF Bad
      <4> QED
        BY <4>1, LeastNumber
    <3>2. i \in 1..Len(s) /\ s[i] \in Seq(W) /\ ~Right(i)
      BY <3>1
    <3>3. i = 1
      <4> SUFFICES ASSUME i # 1
                   PROVE  FALSE
        OBVIOUS
      <4>1. i - 1 \in 1..Len(s) /\ ~(i <= i - 1)
        BY <3>2
      <4>2. Right(i - 1)
        <5>1. i - 1 \notin Bad
          BY <4>1, <3>1 DEF Bad
        <5> QED
          BY <5>1, <4>1
      <4>3. f[i] = f[i-1] \o s[i]
        BY <2>1, <3>2 DEF Joins
      <4> DEFINE g == f[i-1]
                 h == s[i]
      <4>4. /\ g \in Seq(W) /\ h \in Seq(W) /\ g \o h \in Seq(W)
            /\ ToSet(g \o h) = ToSet(g) \cup ToSet(h)
        <5>1. g \in Seq(W) /\ h \in Seq(W)
          BY <4>2, <3>2
        <5> HIDE DEF g, h
        <5>2. /\ g \o h \in Seq(W) /\ Len(g \o h) = Len(g) + Len(h)
              /\ \A n \in 1..Len(g) + Len(h) :
                   (g \o h)[n] = IF n <= Len(g) THEN g[n] ELSE h[n - Len(g)]
          BY <5>1, ConcatProperties
        <5>3. ToSet(g \o h) \subseteq ToSet(g) \cup ToSet(h)
          BY <5>1, <5>2, SMTT(30) DEF ToSet
        <5>4. ASSUME NEW n \in DOMAIN g
              PROVE  g[n] \in ToSet(g \o h)
          <6>1. n \in 1..Len(g) + Len(h) /\ n <= Len(g)
            BY <5>1, SMTT(30)
          <6>2. (g \o h)[n] = g[n]
            BY <6>1, <5>2, SMTT(30)
          <6> QED
            BY <6>1, <6>2, <5>2 DEF ToSet
        <5>5. ASSUME NEW n \in DOMAIN h
              PROVE  h[n] \in ToSet(g \o h)
          <6>1. /\ n + Len(g) \in 1..Len(g) + Len(h) /\ n + Len(g) - Len(g) = n
                /\ ~(n + Len(g) <= Len(g))
            BY <5>1, SMTT(30)
          <6>2. (g \o h)[n + Len(g)] = h[n]
            BY <6>1, <5>2, SMTT(30)
          <6> QED
            BY <6>1, <6>2, <5>2, SMTT(30) DEF ToSet
        <5>6. ToSet(g) \subseteq ToSet(g \o h) /\ ToSet(h) \subseteq ToSet(g \o h)
          BY <5>4, <5>5 DEF ToSet
        <5> QED
          BY <5>1, <5>2, <5>3, <5>6
      <4>5. UNION {ToSet(s[n]) : n \in 1..i}
              = (UNION {ToSet(s[n]) : n \in 1..(i - 1)}) \cup ToSet(s[i])
        <5>1. 1..i = 1..(i - 1) \cup {i}
          BY <3>2
        <5> QED
          BY <5>1
      <4>6. Right(i)
        BY <4>2, <4>3, <4>4, <4>5
      <4> QED
        BY <4>6, <3>2
    <3>4. f[1] = s[1] /\ 1..1 = {1}
      BY <2>1, <3>2, <3>3 DEF Joins
    <3>5. Right(1)
      BY <3>2, <3>3, <3>4
    <3> QED
      BY <3>2, <3>3, <3>5
  <2>3. Len(s) \in 1..Len(s) /\ DOMAIN s = 1..Len(s)
    BY <1>2
  <2>4. Right(Len(s))
    BY <2>2, <2>3
  <2> QED
    BY <2>1, <2>3, <2>4
<1> QED
  BY <1>1, <1>2

\* Where a list is cut does not show once the pieces are joined.
LEMMA PiecesJoin ==
  ASSUME NEW W, NEW whole \in Seq(W), NEW size \in Nat \ {0},
         NEW pieces \in Seq(Seq(W)), Len(pieces) # 0,
         Len(whole) <= Len(pieces) * size, (Len(pieces) - 1) * size <= Len(whole),
         \A k \in 1..Len(pieces) :
           pieces[k] = SubSeq(whole, (k - 1) * size + 1,
                              IF k * size <= Len(whole) THEN k * size ELSE Len(whole))
  PROVE  FlattenSeq(pieces) = whole
<1> DEFINE p == Len(pieces)
           len == Len(whole)
           End(i) == IF i * size <= len THEN i * size ELSE len
<1>1. p \in Nat \ {0} /\ len \in Nat
  OBVIOUS
<1>2. PICK f : Joins(f, pieces, p) /\ FlattenSeq(pieces) = f[p]
  BY FlattenIsJoined
<1>3. \A k \in 1..p : pieces[k] = SubSeq(whole, (k - 1) * size + 1, End(k))
  OBVIOUS
<1>4. len <= p * size /\ (p - 1) * size <= len
  OBVIOUS
<1> HIDE DEF p, len
<1> DEFINE Right(i) == f[i] = SubSeq(whole, 1, End(i))
           Bad == {i \in 1..p : ~Right(i)}
<1>5. ASSUME NEW i \in 1..p
      PROVE  i # 1 => /\ (i - 1) * size \in 0..len /\ End(i - 1) = (i - 1) * size
                      /\ End(i) \in (i - 1) * size..len
  <2> DEFINE low == (i - 1) * size
             high == i * size
             most == (p - 1) * size
  <2>1. low <= most /\ low \in Nat /\ high = low + size /\ most \in Nat /\ most <= len
    BY <1>1, <1>4
  <2>2. End(i - 1) = IF low <= len THEN low ELSE len
    OBVIOUS
  <2>3. End(i) = IF high <= len THEN high ELSE len
    OBVIOUS
  <2> HIDE DEF low, high, most, End
  <2>4. low \in 0..len /\ End(i - 1) = low /\ End(i) \in low..len
    BY <1>1, <2>1, <2>2, <2>3
  <2> QED
    BY <2>4 DEF low
<1>6. Bad = {}
  <2> SUFFICES ASSUME Bad # {}
               PROVE  FALSE
    OBVIOUS
  <2>1. PICK i \in Bad : \A k \in Bad : i <= k
    <3>1. Bad \in SUBSET Nat
      BY <1>1
    <3> HIDE DEF Bad
    <3> QED
      BY <3>1, LeastNumber
  <2>2. i \in 1..p /\ ~Right(i)
    BY <2>1
  <2>3. CASE i = 1
    <3>1. f[1] = pieces[1]
      BY <1>2, <2>2, <2>3 DEF Joins
    <3>2. (1 - 1) * size + 1 = 1
      BY <1>1
    <3> HIDE DEF End
    <3>3. pieces[1] = SubSeq(whole, 1, End(1))
      BY <1>3, <2>2, <2>3, <3>2
    <3> QED
      BY <2>2, <2>3, <3>1, <3>3
  <2>4. CASE i # 1
    <3> DEFINE cut == (i - 1) * size
    <3>1. i - 1 \in 1..p /\ ~(i <= i - 1)
      BY <1>1, <2>2, <2>4
    <3>2. Right(i - 1)
      <4>1. i - 1 \notin Bad
        BY <2>1, <3>1
      <4> HIDE DEF Right
      <4> QED
        BY <3>1, <4>1
    <3>3. f[i] = f[i-1] \o pieces[i]
      BY <1>2, <2>2, <2>4 DEF Joins
    <3>4. cut \in 0..len /\ End(i - 1) = cut /\ End(i) \in cut..len
      BY <1>5, <2>2, <2>4
    <3>5. f[i-1] = SubSeq(whole, 1, cut)
      BY <3>2, <3>4
    <3>6. pieces[i] = SubSeq(whole, cut + 1, End(i))
      BY <1>3, <2>2
    <3> HIDE DEF End, cut
    <3>7. SubSeq(whole, 1, cut) \o SubSeq(whole, cut + 1, End(i)) = SubSeq(whole, 1, End(i))
      <4>1. /\ 1 \in 1..Len(whole) + 1 /\ cut \in 1 - 1..Len(whole)
            /\ End(i) \in cut..Len(whole)
        BY <1>1, <3>4 DEF len
      <4> QED
        BY <4>1, ConcatAdjacentSubSeq
    <3> QED
      BY <2>2, <3>3, <3>5, <3>6, <3>7
  <2> QED
    BY <2>3, <2>4
<1>7. p \in 1..p /\ End(p) = len
  <2>1. p * size \in Nat
    BY <1>1
  <2> QED
    BY <1>1, <1>4, <2>1
<1>8. f[p] = SubSeq(whole, 1, len)
  <2>1. Right(p)
    BY <1>6, <1>7
  <2> QED
    BY <1>7, <2>1
<1> QED
  BY <1>2, <1>8, SubSeqFull DEF len

-----------------------------------------------------------------------------
(* Places in a strict order of a finite set.                               *)

StrictlyOrders(R, S) ==
  /\ \A j \in S : <<j, j>> \notin R
  /\ \A i, j, k \in S : <<i, j>> \in R /\ <<j, k>> \in R => <<i, k>> \in R
  /\ \A j, k \in S : j # k => <<j, k>> \in R \/ <<k, j>> \in R

Before(R, S, k) == {j \in S : <<j, k>> \in R}
PlaceIn(R, S) == [k \in S |-> Cardinality(Before(R, S, k))]

\* Less is before what has a greater place.
LEMMA PlacesAgree ==
  ASSUME NEW S, IsFiniteSet(S), NEW R, StrictlyOrders(R, S), NEW j \in S, NEW k \in S
  PROVE  <<j, k>> \in R <=> PlaceIn(R, S)[j] < PlaceIn(R, S)[k]
<1>1. ASSUME NEW a \in S, NEW b \in S, <<a, b>> \in R
      PROVE  PlaceIn(R, S)[a] < PlaceIn(R, S)[b]
  <2> DEFINE A == Before(R, S, a)
             B == Before(R, S, b)
  <2>1. A \subseteq B /\ a \in B /\ a \notin A /\ B \subseteq S
    BY <1>1 DEF StrictlyOrders, Before
  <2>2. PlaceIn(R, S)[a] = Cardinality(A) /\ PlaceIn(R, S)[b] = Cardinality(B)
    BY DEF PlaceIn
  <2> HIDE DEF A, B
  <2>3. IsFiniteSet(B)
    BY <2>1, FS_Subset
  <2>4. /\ IsFiniteSet(A) /\ Cardinality(A) <= Cardinality(B)
        /\ Cardinality(B) = Cardinality(A) => B = A
    BY <2>1, <2>3, FS_Subset
  <2>5. Cardinality(A) \in Nat /\ Cardinality(B) \in Nat
    BY <2>3, <2>4, FS_CardinalityType
  <2> QED
    BY <2>1, <2>2, <2>4, <2>5
<1>2. ASSUME NEW a \in S
      PROVE  PlaceIn(R, S)[a] \in Nat
  <2>1. IsFiniteSet(Before(R, S, a))
    BY FS_Subset DEF Before
  <2> QED
    BY <2>1, FS_CardinalityType DEF PlaceIn
<1>3. j # k => <<j, k>> \in R \/ <<k, j>> \in R
  BY DEF StrictlyOrders
<1>4. <<j, j>> \notin R
  BY DEF StrictlyOrders
<1> QED
  BY <1>1, <1>2, <1>3, <1>4

\* The places are all the numbers up to the size of the set, each of them once.
LEMMA PlacesCount ==
  ASSUME NEW S, IsFiniteSet(S), NEW R, StrictlyOrders(R, S)
  PROVE  PlaceIn(R, S) \in Bijection(S, 0..Cardinality(S) - 1)
<1> DEFINE n == Cardinality(S)
           T == 0..n - 1
           f == PlaceIn(R, S)
<1>1. n \in Nat
  BY FS_CardinalityType
<1>2. IsFiniteSet(T) /\ Cardinality(T) = n
  <2>1. IsFiniteSet(0..n - 1) /\ Cardinality(0..n - 1) = IF 0 > n - 1 THEN 0 ELSE n - 1 - 0 + 1
    BY <1>1, FS_Interval, SMTT(30)
  <2> QED
    BY <1>1, <2>1
<1>3. ASSUME NEW k \in S
      PROVE  f[k] \in T
  <2> DEFINE B == Before(R, S, k)
  <2>1. B \subseteq S /\ k \notin B /\ f[k] = Cardinality(B)
    BY DEF StrictlyOrders, Before, PlaceIn
  <2> HIDE DEF B
  <2>2. IsFiniteSet(B) /\ Cardinality(B) <= n /\ (n = Cardinality(B) => S = B)
    BY <2>1, FS_Subset
  <2>3. Cardinality(B) \in Nat
    BY <2>2, FS_CardinalityType
  <2> QED
    BY <1>1, <2>1, <2>2, <2>3
<1>4. f \in [S -> T]
  BY <1>3 DEF PlaceIn
<1>5. f \in Injection(S, T)
  <2>1. ASSUME NEW a \in S, NEW b \in S, f[a] = f[b]
        PROVE  a = b
    <3>1. ~(f[a] < f[b]) /\ ~(f[b] < f[a])
      BY <1>3, <1>1, <2>1
    <3>2. <<a, b>> \notin R /\ <<b, a>> \notin R
      BY <3>1, PlacesAgree
    <3> QED
      BY <3>2 DEF StrictlyOrders
  <2> HIDE DEF f
  <2> QED
    BY <1>4, <2>1, Fun_IsInj
<1>6. f \in Surjection(S, T)
  <2> HIDE DEF f, T
  <2> QED
    BY <1>2, <1>5, FS_Injection
<1> QED
  BY <1>5, <1>6 DEF Bijection

\* The same of numbers in their own order.
LEMMA NumbersInOrder ==
  ASSUME NEW S \in SUBSET Nat, IsFiniteSet(S)
  PROVE  LET place == [k \in S |-> Cardinality({j \in S : j < k})]
         IN /\ place \in Bijection(S, 0..Cardinality(S) - 1)
            /\ \A j, k \in S : j < k <=> place[j] < place[k]
<1> DEFINE R == {pair \in Nat \X Nat : pair[1] < pair[2]}
           place == [k \in S |-> Cardinality({j \in S : j < k})]
<1>1. \A j, k \in Nat : <<j, k>> \in R <=> j < k
  OBVIOUS
<1>2. StrictlyOrders(R, S)
  <2> HIDE DEF R
  <2> QED
    BY <1>1 DEF StrictlyOrders
<1>3. \A k \in S : {j \in S : j < k} = Before(R, S, k)
  <2> HIDE DEF R
  <2> QED
    BY <1>1 DEF Before
<1>4. place = PlaceIn(R, S)
  BY <1>3 DEF PlaceIn
<1> HIDE DEF R, place
<1>5. place \in Bijection(S, 0..Cardinality(S) - 1)
  BY <1>2, <1>4, PlacesCount
<1>6. \A j, k \in S : j < k <=> place[j] < place[k]
  BY <1>1, <1>2, <1>4, PlacesAgree
<1> QED
  BY <1>5, <1>6 DEF place

-----------------------------------------------------------------------------
(* Sums.                                                                   *)

\* Of some subsets of a finite set, one is the smallest.
LEMMA SmallestSubset ==
  ASSUME NEW S, IsFiniteSet(S), NEW Some \in SUBSET SUBSET S, Some # {}
  PROVE  \E s \in Some : IsFiniteSet(s) /\ \A t \in Some : Cardinality(s) <= Cardinality(t)
<1> DEFINE sizes == {Cardinality(s) : s \in Some}
<1>1. \A s \in SUBSET S : IsFiniteSet(s) /\ Cardinality(s) \in Nat
  BY FS_Subset, FS_CardinalityType
<1>2. sizes \in SUBSET Nat /\ sizes # {}
  BY <1>1
<1> HIDE DEF sizes
<1>3. PICK n \in sizes : \A m \in sizes : n <= m
  BY <1>2, LeastNumber
<1>4. PICK s \in Some : n = Cardinality(s)
  BY DEF sizes
<1>5. \A t \in Some : Cardinality(t) \in sizes
  BY DEF sizes
<1> QED
  BY <1>1, <1>3, <1>4, <1>5

LEMMA OneFewer ==
  ASSUME NEW S, IsFiniteSet(S), NEW s \in SUBSET S, NEW x \in s
  PROVE  /\ s \ {x} \in SUBSET S /\ Cardinality(s) \in Nat
         /\ Cardinality(s \ {x}) \in Nat /\ Cardinality(s \ {x}) < Cardinality(s)
<1>1. IsFiniteSet(s) /\ IsFiniteSet(s \ {x}) /\ Cardinality(s \ {x}) = Cardinality(s) - 1
  BY FS_Subset, FS_RemoveElement
<1>2. Cardinality(s) \in Nat /\ Cardinality(s \ {x}) \in Nat
  BY <1>1, FS_CardinalityType
<1> QED
  BY <1>1, <1>2

AnyOf(s) == CHOOSE x \in s : TRUE

\* g adds up f over each subset of S, taking its elements as MapThenSumSet takes them.
Sums(g, f, S) ==
  g = [s \in SUBSET S |-> IF s = {} THEN 0 ELSE f[AnyOf(s)] + g[s \ {AnyOf(s)}]]

LEMMA SomeFunctionSums ==
  ASSUME NEW S, IsFiniteSet(S), NEW f
  PROVE  \E g : Sums(g, f, S)
<1> DEFINE Upto(n) == {s \in SUBSET S : Cardinality(s) <= n}
           Part(g, n) == g = [s \in Upto(n) |-> IF s = {} THEN 0
                                                ELSE f[AnyOf(s)] + g[s \ {AnyOf(s)}]]
           Bad == {n \in Nat : ~ \E g : Part(g, n)}
<1>1. \A s \in SUBSET S : /\ s = {} => Cardinality(s) = 0
                          /\ s # {} => /\ AnyOf(s) \in s
                                       /\ s \ {AnyOf(s)} \in SUBSET S
                                       /\ Cardinality(s) \in Nat
                                       /\ Cardinality(s \ {AnyOf(s)}) \in Nat
                                       /\ Cardinality(s \ {AnyOf(s)}) < Cardinality(s)
  <2>1. ASSUME NEW s \in SUBSET S, s # {}
        PROVE  AnyOf(s) \in s
    BY <2>1 DEF AnyOf
  <2> QED
    BY <2>1, OneFewer, FS_EmptySet
<1>2. Bad = {}
  <2> SUFFICES ASSUME Bad # {}
               PROVE  FALSE
    OBVIOUS
  <2>1. PICK n \in Bad : \A m \in Bad : n <= m
    <3>1. Bad \in SUBSET Nat
      OBVIOUS
    <3> HIDE DEF Bad
    <3> QED
      BY <3>1, LeastNumber
  <2>2. n \in Nat /\ ~ \E g : Part(g, n)
    BY <2>1
  <2>3. PICK g : n = 0 \/ Part(g, n - 1)
    <3>1. n # 0 => n - 1 \in Nat /\ ~(n <= n - 1)
      BY <2>2
    <3>2. n # 0 => n - 1 \notin Bad
      BY <2>1, <3>1
    <3> QED
      BY <3>1, <3>2
  <2> DEFINE h == [s \in Upto(n) |-> IF s = {} THEN 0
                                     ELSE f[AnyOf(s)] + g[s \ {AnyOf(s)}]]
  <2>4. ASSUME NEW s \in Upto(n), s # {}
        PROVE  h[s \ {AnyOf(s)}] = g[s \ {AnyOf(s)}]
    <3> DEFINE t == s \ {AnyOf(s)}
    <3>1. t \in SUBSET S /\ Cardinality(t) <= n - 1 /\ Cardinality(t) \in Nat /\ n # 0
      BY <1>1, <2>2, <2>4
    <3> HIDE DEF t
    <3>2. t \in Upto(n) /\ t \in Upto(n - 1)
      BY <2>2, <3>1
    <3>3. g[t] = IF t = {} THEN 0 ELSE f[AnyOf(t)] + g[t \ {AnyOf(t)}]
      BY <2>3, <3>1, <3>2
    <3>4. h[t] = IF t = {} THEN 0 ELSE f[AnyOf(t)] + g[t \ {AnyOf(t)}]
      BY <3>2
    <3> QED
      BY <3>3, <3>4 DEF t
  <2>5. h = [s \in Upto(n) |-> IF s = {} THEN 0 ELSE f[AnyOf(s)] + h[s \ {AnyOf(s)}]]
    <3>1. \A s \in Upto(n) : (IF s = {} THEN 0 ELSE f[AnyOf(s)] + g[s \ {AnyOf(s)}])
                              = (IF s = {} THEN 0 ELSE f[AnyOf(s)] + h[s \ {AnyOf(s)}])
      <4> HIDE DEF h, Upto
      <4> QED
        BY <2>4
    <3> HIDE DEF Upto
    <3> DEFINE k == h
    <3>2. k = [s \in Upto(n) |-> IF s = {} THEN 0 ELSE f[AnyOf(s)] + g[s \ {AnyOf(s)}]]
      OBVIOUS
    <3>3. \A s \in Upto(n) : (IF s = {} THEN 0 ELSE f[AnyOf(s)] + g[s \ {AnyOf(s)}])
                              = (IF s = {} THEN 0 ELSE f[AnyOf(s)] + k[s \ {AnyOf(s)}])
      BY <3>1
    <3> HIDE DEF k
    <3>4. k = [s \in Upto(n) |-> IF s = {} THEN 0 ELSE f[AnyOf(s)] + k[s \ {AnyOf(s)}]]
      BY <3>2, <3>3
    <3> QED
      BY <3>4 DEF k
  <2> QED
    BY <2>2, <2>5
<1>3. Cardinality(S) \in Nat /\ Upto(Cardinality(S)) = SUBSET S
  <2>1. Cardinality(S) \in Nat /\ \A s \in SUBSET S : Cardinality(s) <= Cardinality(S)
    BY FS_Subset, FS_CardinalityType
  <2> QED
    BY <2>1
<1>4. PICK g : Part(g, Cardinality(S))
  BY <1>2, <1>3
<1> QED
  BY <1>3, <1>4 DEF Sums

\* Over the same elements, sums agree.
LEMMA SumsAgree ==
  ASSUME NEW S, IsFiniteSet(S), NEW T, S \subseteq T, NEW f, NEW e, NEW g, NEW h,
         Sums(g, f, S), Sums(h, e, T), \A x \in S : f[x] = e[x]
  PROVE  \A s \in SUBSET S : g[s] = h[s]
<1> DEFINE Bad == {s \in SUBSET S : g[s] # h[s]}
<1> SUFFICES ASSUME Bad # {}
             PROVE  FALSE
  OBVIOUS
<1>1. PICK s \in Bad : \A t \in Bad : Cardinality(s) <= Cardinality(t)
  <2>1. Bad \in SUBSET SUBSET S
    OBVIOUS
  <2> HIDE DEF Bad
  <2> QED
    BY <2>1, SmallestSubset
<1>2. s \in SUBSET S /\ s \in SUBSET T /\ g[s] # h[s]
  BY <1>1
<1>3. /\ g[s] = IF s = {} THEN 0 ELSE f[AnyOf(s)] + g[s \ {AnyOf(s)}]
      /\ h[s] = IF s = {} THEN 0 ELSE e[AnyOf(s)] + h[s \ {AnyOf(s)}]
  BY <1>2 DEF Sums
<1>4. CASE s # {}
  <2>1. AnyOf(s) \in s
    BY <1>4 DEF AnyOf
  <2>2. /\ s \ {AnyOf(s)} \in SUBSET S /\ Cardinality(s) \in Nat
        /\ Cardinality(s \ {AnyOf(s)}) \in Nat
        /\ Cardinality(s \ {AnyOf(s)}) < Cardinality(s)
    BY <1>2, <2>1, OneFewer
  <2>3. s \ {AnyOf(s)} \notin Bad
    <3> HIDE DEF Bad
    <3> QED
      BY <1>1, <2>2
  <2>4. g[s \ {AnyOf(s)}] = h[s \ {AnyOf(s)}] /\ f[AnyOf(s)] = e[AnyOf(s)]
    BY <1>2, <2>1, <2>2, <2>3
  <2> QED
    BY <1>2, <1>3, <1>4, <2>4
<1> QED
  BY <1>2, <1>3, <1>4

\* In whatever order the elements are taken.
LEMMA SumsWithout ==
  ASSUME NEW S, IsFiniteSet(S), NEW f, NEW g, Sums(g, f, S), \A x \in S : f[x] \in Nat
  PROVE  \A s \in SUBSET S : g[s] \in Nat /\ \A x \in s : g[s] = f[x] + g[s \ {x}]
<1> DEFINE Right(s) == g[s] \in Nat /\ \A x \in s : g[s] = f[x] + g[s \ {x}]
           Bad == {s \in SUBSET S : ~Right(s)}
<1> SUFFICES ASSUME Bad # {}
             PROVE  FALSE
  OBVIOUS
<1>1. PICK s \in Bad : \A t \in Bad : Cardinality(s) <= Cardinality(t)
  <2>1. Bad \in SUBSET SUBSET S
    OBVIOUS
  <2> HIDE DEF Bad
  <2> QED
    BY <2>1, SmallestSubset
<1>2. s \in SUBSET S /\ ~Right(s)
  BY <1>1
<1>3. \A x \in s : s \ {x} \in SUBSET S /\ Right(s \ {x})
  <2>1. ASSUME NEW x \in s
        PROVE  s \ {x} \in SUBSET S /\ Right(s \ {x})
    <3>1. /\ s \ {x} \in SUBSET S /\ Cardinality(s) \in Nat
          /\ Cardinality(s \ {x}) \in Nat /\ Cardinality(s \ {x}) < Cardinality(s)
      BY <1>2, OneFewer
    <3>2. s \ {x} \notin Bad
      <4> HIDE DEF Bad
      <4> QED
        BY <1>1, <3>1
    <3> HIDE DEF Right
    <3> QED
      BY <3>1, <3>2
  <2> QED
    BY <2>1
<1>4. g[s] = IF s = {} THEN 0 ELSE f[AnyOf(s)] + g[s \ {AnyOf(s)}]
  BY <1>2 DEF Sums
<1> HIDE DEF Bad
<1>5. CASE s = {}
  BY <1>2, <1>4, <1>5
<1>6. CASE s # {}
  <2> DEFINE y == AnyOf(s)
  <2>1. y \in s
    BY <1>6 DEF AnyOf
  <2>2. g[s] = f[y] + g[s \ {y}]
    BY <1>4, <1>6
  <2> HIDE DEF y
  <2>3. g[s \ {y}] \in Nat /\ f[y] \in Nat
    BY <1>2, <1>3, <2>1
  <2>4. ASSUME NEW x \in s
        PROVE  g[s] = f[x] + g[s \ {x}]
    <3>1. CASE x = y
      BY <2>2, <3>1
    <3>2. CASE x # y
      <4>1. x \in s \ {y} /\ y \in s \ {x} /\ (s \ {y}) \ {x} = (s \ {x}) \ {y}
        BY <2>1, <3>2
      <4>2. g[s \ {y}] = f[x] + g[(s \ {y}) \ {x}]
        BY <1>3, <2>1, <4>1
      <4>3. g[s \ {x}] = f[y] + g[(s \ {x}) \ {y}]
        BY <1>3, <4>1
      <4>4. g[(s \ {x}) \ {y}] \in Nat
        <5>1. (s \ {x}) \ {y} \in SUBSET S /\ Cardinality((s \ {x}) \ {y}) < Cardinality(s)
              /\ Cardinality((s \ {x}) \ {y}) \in Nat /\ Cardinality(s) \in Nat
          <6>1. /\ s \ {x} \in SUBSET S /\ Cardinality(s) \in Nat
                /\ Cardinality(s \ {x}) \in Nat /\ Cardinality(s \ {x}) < Cardinality(s)
            BY <1>2, OneFewer
          <6>2. /\ (s \ {x}) \ {y} \in SUBSET S
                /\ Cardinality((s \ {x}) \ {y}) \in Nat
                /\ Cardinality((s \ {x}) \ {y}) < Cardinality(s \ {x})
            BY <4>1, <6>1, OneFewer
          <6> QED
            BY <6>1, <6>2
        <5>2. (s \ {x}) \ {y} \notin Bad
          BY <1>1, <5>1
        <5> QED
          BY <5>1, <5>2 DEF Bad
      <4>5. f[x] \in Nat
        BY <1>2
      <4> DEFINE rest == g[(s \ {x}) \ {y}]
                 fewer == g[s \ {x}]
                 others == g[s \ {y}]
      <4>6. others = f[x] + rest /\ fewer = f[y] + rest /\ g[s] = f[y] + others /\ rest \in Nat
        BY <2>2, <4>1, <4>2, <4>3, <4>4
      <4> HIDE DEF rest, fewer, others
      <4>7. g[s] = f[x] + fewer
        BY <2>3, <4>5, <4>6
      <4> QED
        BY <4>7 DEF fewer
    <3> QED
      BY <3>1, <3>2
  <2>5. g[s] \in Nat
    BY <2>2, <2>3
  <2> QED
    BY <1>2, <2>4, <2>5
<1> QED
  BY <1>5, <1>6

\* One element more.
LEMMA SumOfOneMore ==
  ASSUME NEW S, IsFiniteSet(S), NEW r, r \notin S, NEW T, T = S \cup {r},
         NEW f, NEW e, NEW g, NEW h, Sums(g, f, S), Sums(h, e, T),
         \A x \in S : f[x] = e[x], \A x \in T : e[x] \in Nat
  PROVE  h[T] = e[r] + g[S] /\ g[S] \in Nat
<1>1. IsFiniteSet(T)
  BY FS_AddElement
<1>2. h[T] = e[r] + h[T \ {r}]
  BY <1>1, SumsWithout
<1>3. T \ {r} = S
  OBVIOUS
<1>4. g[S] = h[S]
  <2>1. S \subseteq T
    OBVIOUS
  <2>2. \A s \in SUBSET S : g[s] = h[s]
    BY <2>1, SumsAgree
  <2> QED
    BY <2>2
<1>5. g[S] \in Nat
  BY SumsWithout
<1> QED
  BY <1>2, <1>3, <1>4, <1>5
=============================================================================
