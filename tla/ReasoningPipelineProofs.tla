---------------------- MODULE ReasoningPipelineProofs ----------------------
(***************************************************************************)
(* Proofs about ReasoningPipeline for any assets, types and reports, and   *)
(* about Investigation, the operators' moves on what the runs recommend,   *)
(* for any requests and recommendations.                                   *)
(*                                                                         *)
(* Lists are described by the positions they keep: Enumerates(e, n, I)     *)
(* says that e lists the n positions I in increasing order, and Lists(q,   *)
(* seq, I) that q is seq at those positions. There is one such list, which *)
(* is how the window of everything stored, the readings of one type and a  *)
(* bounded history are compared without induction over their length.       *)
(***************************************************************************)
EXTENDS ReasoningPipeline, Investigation, FiniteSetTheorems, WellFoundedInduction, SequenceTheorems,
        TLAPS

(* A nonempty set of natural numbers has a least and, if bounded, a        *)
(* greatest element.                                                       *)
LEMMA LeastOf ==
    ASSUME NEW S, S \subseteq Nat, S # {}
    PROVE  \E x \in S : \A y \in S : x <= y
<1> DEFINE R == OpToRel(<, Nat)
<1>1. IsWellFoundedOn(R, Nat)  BY NatLessThanWellFounded
<1>2. PICK x \in S : \A y \in S : <<y, x>> \notin R  BY <1>1, WFMin
<1>3. ASSUME NEW y \in S PROVE x <= y
  <2>1. x \in Nat /\ y \in Nat /\ <<y, x>> \in Nat \X Nat  OBVIOUS
  <2>2. ~ (y < x)  BY <1>2, <2>1 DEF OpToRel
  <2>3. QED  BY <2>1, <2>2
<1>4. QED  BY <1>3

LEMMA GreatestOf ==
    ASSUME NEW n \in Nat, NEW S, S \subseteq 0 .. n, S # {}
    PROVE  /\ Max(S) \in S
           /\ \A y \in S : y <= Max(S)
           /\ \A x \in S : (\A y \in S : y <= x) => x = Max(S)
<1> DEFINE T == {n - y : y \in S}
<1>1. T \subseteq Nat /\ T # {}
  <2>1. \A y \in S : n - y \in Nat  OBVIOUS
  <2>2. PICK y : y \in S  OBVIOUS
  <2>3. n - y \in T  BY <2>2
  <2>4. QED  BY <2>1, <2>3
<1>2. PICK t \in T : \A u \in T : t <= u  BY <1>1, LeastOf
<1>3. PICK x \in S : t = n - x  BY <1>2
<1>4. \A y \in S : x >= y
  <2> TAKE y \in S
  <2>1. n - y \in T /\ x \in 0 .. n /\ y \in 0 .. n  OBVIOUS
  <2>2. n - x <= n - y  BY <1>2, <1>3, <2>1
  <2>3. QED  BY <2>1, <2>2
<1>5. Max(S) \in S /\ \A y \in S : Max(S) >= y  BY <1>4 DEF Max
<1>6. ASSUME NEW z \in S, \A y \in S : y <= z PROVE z = Max(S)
  <2>1. z \in 0 .. n /\ Max(S) \in 0 .. n /\ Max(S) >= z /\ Max(S) <= z  BY <1>5, <1>6
  <2>2. QED  BY <2>1
<1>7. ASSUME NEW y \in S PROVE y <= Max(S)
  <2>1. y \in 0 .. n /\ Max(S) \in 0 .. n /\ Max(S) >= y  BY <1>5
  <2>2. QED  BY <2>1
<1>8. QED  BY <1>5, <1>6, <1>7

(* The larger, and the smaller, of two numbers. *)
LEMMA MaxOfTwo ==
    ASSUME NEW a \in Int, NEW b \in Int
    PROVE  Max({a, b}) = IF a >= b THEN a ELSE b
  BY DEF Max

LEMMA MinOfTwo ==
    ASSUME NEW a \in Int, NEW b \in Int
    PROVE  Min({a, b}) = IF a <= b THEN a ELSE b
  BY DEF Min

LEMMA ClampFacts ==
    ASSUME NEW n \in Int, NEW lo \in Int, NEW hi \in Int, lo <= hi
    PROVE  Clamp(n, lo, hi) = IF n < lo THEN lo ELSE IF n > hi THEN hi ELSE n
  BY MaxOfTwo, MinOfTwo DEF Clamp

LEMMA ClampIsPercent ==
    ASSUME NEW n \in Int
    PROVE  /\ Clamp(n, 0, 100) \in 0 .. 100
           /\ n \in 0 .. 100 => Clamp(n, 0, 100) = n
<1>1. Clamp(n, 0, 100) = IF n < 0 THEN 0 ELSE IF n > 100 THEN 100 ELSE n  BY ClampFacts
<1>2. QED  BY <1>1

----------------------------------------------------------------------------
(* Lists of positions.                                                     *)

(* e lists I in increasing order; seq at the positions I is q. *)
Enumerates(e, n, I) ==
    /\ e \in [1 .. n -> I]
    /\ \A j, k \in 1 .. n : j < k => e[j] < e[k]
    /\ \A i \in I : \E k \in 1 .. n : e[k] = i

Lists(q, seq, I) ==
    /\ Len(q) \in Nat
    /\ \E e : Enumerates(e, Len(q), I) /\ q = [k \in 1 .. Len(q) |-> seq[e[k]]]

(* There is one increasing enumeration of a set. *)
LEMMA EnumerationIsUnique ==
    ASSUME NEW I, I \subseteq Nat, NEW m \in Nat, NEW n \in Nat,
           NEW d, NEW e, Enumerates(d, m, I), Enumerates(e, n, I)
    PROVE  m = n /\ d = e
<1> DEFINE Bad == {k \in 1 .. m : k \notin 1 .. n \/ d[k] # e[k]}
<1>1. ASSUME NEW j \in 1 .. m, NEW k \in 1 .. m, d[j] < d[k] PROVE j < k
  <2>1. d[j] \in Nat /\ d[k] \in Nat  BY DEF Enumerates
  <2>2. j = k => d[j] = d[k]  OBVIOUS
  <2>3. k < j => d[k] < d[j]  BY DEF Enumerates
  <2>4. QED  BY <1>1, <2>1, <2>2, <2>3
<1>2. ASSUME NEW j \in 1 .. n, NEW k \in 1 .. n, e[j] < e[k] PROVE j < k
  <2>1. e[j] \in Nat /\ e[k] \in Nat  BY DEF Enumerates
  <2>2. j = k => e[j] = e[k]  OBVIOUS
  <2>3. k < j => e[k] < e[j]  BY DEF Enumerates
  <2>4. QED  BY <1>2, <2>1, <2>2, <2>3
<1>3. Bad = {}
  <2> SUFFICES ASSUME Bad # {} PROVE FALSE  OBVIOUS
  <2>1. PICK k \in Bad : \A l \in Bad : k <= l
    <3>1. Bad \subseteq Nat  OBVIOUS
    <3>2. QED  BY <3>1, LeastOf
  <2>2. k \in 1 .. m /\ d[k] \in I  BY DEF Enumerates
  <2>3. ASSUME NEW l \in 1 .. m, l < k PROVE l \in 1 .. n /\ d[l] = e[l]
    <3>1. ~ (k <= l)  BY <2>2, <2>3
    <3> HIDE DEF Bad
    <3>2. l \notin Bad  BY <2>1, <3>1
    <3>3. QED  BY <3>2 DEF Bad
  <2>4. PICK j \in 1 .. n : e[j] = d[k]  BY <2>2 DEF Enumerates
  <2>5. ~ (j < k)
    <3> SUFFICES ASSUME j < k PROVE FALSE  OBVIOUS
    <3>1. j \in 1 .. m  BY <2>2
    <3>2. d[j] = e[j] /\ d[j] < d[k] /\ d[j] \in Nat  BY <2>2, <2>3, <3>1 DEF Enumerates
    <3>3. QED  BY <2>4, <3>2
  <2>6. k \in 1 .. n  BY <2>2, <2>5
  <2>7. d[k] # e[k]  BY <2>1, <2>6
  <2>8. j # k /\ k < j  BY <2>2, <2>4, <2>5, <2>7
  <2>9. e[k] < e[j] /\ e[k] \in I /\ e[k] \in Nat  BY <2>6, <2>8 DEF Enumerates
  <2>10. PICK l \in 1 .. m : d[l] = e[k]  BY <2>9 DEF Enumerates
  <2>11. l < k  BY <1>1, <2>2, <2>4, <2>9, <2>10
  <2>12. l \in 1 .. n /\ e[l] = e[k]  BY <2>3, <2>10, <2>11
  <2>13. e[l] < e[k]  BY <2>6, <2>11, <2>12 DEF Enumerates
  <2>14. QED  BY <2>9, <2>12, <2>13
<1>4. \A k \in 1 .. m : k \in 1 .. n /\ d[k] = e[k]  BY <1>3
<1>5. m <= n
  <2>1. m = 0 \/ m \in 1 .. m  OBVIOUS
  <2>2. QED  BY <1>4, <2>1
<1>6. n <= m
  <2> SUFFICES ASSUME m < n PROVE FALSE  OBVIOUS
  <2>1. m + 1 \in 1 .. n  OBVIOUS
  <2>2. e[m + 1] \in I  BY <2>1 DEF Enumerates
  <2>3. PICK k \in 1 .. m : d[k] = e[m + 1]  BY <2>2 DEF Enumerates
  <2>4. k \in 1 .. n /\ k < m + 1 /\ e[k] = e[m + 1]  BY <1>4, <2>3
  <2>5. e[k] < e[m + 1]  BY <2>1, <2>4 DEF Enumerates
  <2>6. e[k] \in Nat  BY <2>4 DEF Enumerates
  <2>7. QED  BY <2>4, <2>5, <2>6
<1>7. m = n  BY <1>5, <1>6
<1>8. QED
  BY <1>4, <1>7 DEF Enumerates

LEMMA ListIsUnique ==
    ASSUME NEW seq, NEW I, I \subseteq Nat, NEW p, NEW q, Lists(p, seq, I), Lists(q, seq, I)
    PROVE  p = q
<1>1. PICK d : Enumerates(d, Len(p), I) /\ p = [k \in 1 .. Len(p) |-> seq[d[k]]]  BY DEF Lists
<1>2. PICK e : Enumerates(e, Len(q), I) /\ q = [k \in 1 .. Len(q) |-> seq[e[k]]]  BY DEF Lists
<1>3. Len(p) \in Nat /\ Len(q) \in Nat  BY DEF Lists
<1>4. Len(p) = Len(q) /\ d = e  BY <1>1, <1>2, <1>3, EnumerationIsUnique
<1>5. QED  BY <1>1, <1>2, <1>4

(* The positions of a sequence are finitely many. *)
LEMMA FinitePositions ==
    ASSUME NEW n \in Nat, NEW I, I \subseteq 1 .. n
    PROVE  IsFiniteSet(I) /\ Cardinality(I) \in Nat /\ Cardinality(I) <= n
<1>1. IsFiniteSet(1 .. n) /\ Cardinality(1 .. n) = n  BY FS_Interval
<1>2. I \in SUBSET (1 .. n)  OBVIOUS
<1>3. IsFiniteSet(I) /\ Cardinality(I) <= n  BY <1>1, <1>2, FS_Subset
<1>4. QED  BY <1>3, FS_CardinalityType

Upto(I, i) == {j \in I : j <= i}

LEMMA RankFacts ==
    ASSUME NEW n \in Nat, NEW I, I \subseteq 1 .. n
    PROVE  /\ \A i \in I : Cardinality(Upto(I, i)) \in 1 .. Cardinality(I)
           /\ \A i, j \in I : i < j => Cardinality(Upto(I, i)) < Cardinality(Upto(I, j))
<1>1. IsFiniteSet(I) /\ Cardinality(I) \in Nat  BY FinitePositions
<1>2. ASSUME NEW i \in I
      PROVE  /\ IsFiniteSet(Upto(I, i)) /\ Cardinality(Upto(I, i)) \in Nat
             /\ Cardinality(Upto(I, i)) \in 1 .. Cardinality(I)
  <2>1. Upto(I, i) \in SUBSET I /\ i \in Upto(I, i)  BY DEF Upto
  <2>2. IsFiniteSet(Upto(I, i)) /\ Cardinality(Upto(I, i)) <= Cardinality(I)
    BY <1>1, <2>1, FS_Subset
  <2>3. Cardinality(Upto(I, i)) \in Nat  BY <2>2, FS_CardinalityType
  <2>4. Cardinality(Upto(I, i)) # 0  BY <2>1, <2>2, FS_EmptySet
  <2>5. QED  BY <1>1, <2>2, <2>3, <2>4
<1>3. ASSUME NEW i \in I, NEW j \in I, i < j
      PROVE  Cardinality(Upto(I, i)) < Cardinality(Upto(I, j))
  <2>1. i \in Nat /\ j \in Nat  OBVIOUS
  <2>2. Upto(I, i) \in SUBSET Upto(I, j)
    <3>1. ASSUME NEW l \in I, l <= i PROVE l <= j
      <4>1. l \in Nat  OBVIOUS
      <4>2. QED  BY <1>3, <2>1, <3>1, <4>1
    <3>2. QED  BY <3>1 DEF Upto
  <2>3. j \in Upto(I, j) /\ j \notin Upto(I, i)  BY <1>3, <2>1 DEF Upto
  <2>4. Cardinality(Upto(I, i)) <= Cardinality(Upto(I, j))
        /\ Cardinality(Upto(I, i)) # Cardinality(Upto(I, j))
    BY <1>2, <2>2, <2>3, FS_Subset
  <2>5. Cardinality(Upto(I, i)) \in Nat /\ Cardinality(Upto(I, j)) \in Nat  BY <1>2
  <2>6. QED  BY <2>4, <2>5
<1>4. QED  BY <1>2, <1>3

(* Kept lists the positions it is given. *)
LEMMA KeptLists ==
    ASSUME NEW seq, NEW n \in Nat, NEW I, I \subseteq 1 .. n
    PROVE  /\ Lists(Kept(seq, I), seq, I)
           /\ Len(Kept(seq, I)) = Cardinality(I)
<1> DEFINE N == Cardinality(I)
           rank == [i \in I |-> Cardinality(Upto(I, i))]
           e == [k \in 1 .. N |-> Nth(I, k)]
<1>1. IsFiniteSet(I) /\ N \in Nat  BY FinitePositions
<1>2. rank \in [I -> 1 .. N] /\ \A i, j \in I : i < j => rank[i] < rank[j]  BY RankFacts
<1>3. \A k \in 1 .. N : \E i \in I : rank[i] = k
  <2>1. rank \in Injection(I, 1 .. N)
    <3>1. ASSUME NEW i \in I, NEW j \in I, rank[i] = rank[j] PROVE i = j
      <4>1. i \in Nat /\ j \in Nat /\ rank[i] \in Nat /\ rank[j] \in Nat  BY <1>1, <1>2
      <4>2. ~ (i < j) /\ ~ (j < i)
        <5> HIDE DEF rank
        <5>1. QED  BY <1>2, <3>1, <4>1
      <4>3. QED  BY <4>1, <4>2
    <3> HIDE DEF rank
    <3>2. QED  BY <1>2, <3>1 DEF Injection, IsInjective
  <2>2. IsFiniteSet(1 .. N) /\ Cardinality(1 .. N) = N  BY <1>1, FS_Interval
  <2>3. rank \in Surjection(I, 1 .. N)  BY <2>1, <2>2, FS_Injection
  <2> HIDE DEF rank
  <2>4. QED  BY <2>3 DEF Surjection
<1>4. \A k \in 1 .. N : e[k] \in I /\ rank[e[k]] = k
  <2> TAKE k \in 1 .. N
  <2>1. PICK i \in I : rank[i] = k  BY <1>3
  <2>2. \E i2 \in I : Cardinality({j \in I : j <= i2}) = k  BY <2>1 DEF Upto
  <2>3. Nth(I, k) \in I /\ Cardinality({j \in I : j <= Nth(I, k)}) = k  BY <2>2 DEF Nth
  <2>4. QED  BY <2>3 DEF Upto
<1>5. Enumerates(e, N, I)
  <2>1. e \in [1 .. N -> I]  BY <1>4
  <2>2. ASSUME NEW j \in 1 .. N, NEW k \in 1 .. N, j < k PROVE e[j] < e[k]
    <3>2. rank[e[j]] = j /\ rank[e[k]] = k  BY <1>4
    <3> HIDE DEF rank, e
    <3>a. e[j] \in I /\ e[k] \in I  BY <1>4
    <3>b. \A l \in I : l \in Nat  OBVIOUS
    <3>1. e[j] \in Nat /\ e[k] \in Nat /\ e[j] \in I /\ e[k] \in I  BY <3>a, <3>b
    <3>3. e[j] # e[k]  BY <1>1, <2>2, <3>2
    <3>4. ~ (e[k] < e[j])
      <4>1. e[k] < e[j] => rank[e[k]] < rank[e[j]]  BY <1>2, <3>1
      <4>2. QED  BY <1>1, <2>2, <3>2, <4>1
    <3>5. QED  BY <3>1, <3>3, <3>4
  <2>3. ASSUME NEW i \in I PROVE \E k \in 1 .. N : e[k] = i
    <3>1. rank[i] \in 1 .. N  BY <1>2
    <3>2. e[rank[i]] \in I /\ rank[e[rank[i]]] = rank[i]  BY <1>4, <3>1
    <3>3. e[rank[i]] = i
      <4> HIDE DEF rank, e, N
      <4>a. rank[i] \in Nat  BY <1>1, <3>1
      <4>b. \A j \in I : j \in Nat  OBVIOUS
      <4>1. i \in Nat /\ e[rank[i]] \in Nat /\ rank[i] \in Nat  BY <3>2, <4>a, <4>b
      <4>2. ~ (i < e[rank[i]]) /\ ~ (e[rank[i]] < i)  BY <1>2, <3>2, <4>1
      <4>3. QED  BY <4>1, <4>2
    <3>4. QED  BY <3>1, <3>3
  <2> HIDE DEF e
  <2>4. QED  BY <2>1, <2>2, <2>3 DEF Enumerates
<1>6. Kept(seq, I) = [k \in 1 .. N |-> seq[e[k]]]  BY DEF Kept
<1>7. Len(Kept(seq, I)) = N
  <2> HIDE DEF e, N
  <2>1. QED  BY <1>1, <1>6
<1>8. QED
  <2> HIDE DEF e, N
  <2>1. Lists(Kept(seq, I), seq, I)  BY <1>1, <1>5, <1>6, <1>7 DEF Lists
  <2>2. QED  BY <1>7, <2>1 DEF N

(* What a list holds. *)
Holds(q, seq, I) ==
    /\ \A k \in 1 .. Len(q) : \E i \in I : q[k] = seq[i]
    /\ \A i \in I : \E k \in 1 .. Len(q) : q[k] = seq[i]

LEMMA ListFacts ==
    ASSUME NEW T, NEW seq \in Seq(T), NEW I, I \subseteq 1 .. Len(seq), NEW q, Lists(q, seq, I)
    PROVE  q \in Seq(T) /\ Len(q) \in Nat /\ Holds(q, seq, I)
<1>1. PICK e : Enumerates(e, Len(q), I) /\ q = [k \in 1 .. Len(q) |-> seq[e[k]]]  BY DEF Lists
<1>2. Len(q) \in Nat  BY DEF Lists
<1>3. \A k \in 1 .. Len(q) : e[k] \in I /\ q[k] = seq[e[k]]  BY <1>1 DEF Enumerates
<1>4. \A k \in 1 .. Len(q) : q[k] \in T
  <2>1. \A i \in 1 .. Len(seq) : seq[i] \in T  OBVIOUS
  <2>2. QED  BY <1>3, <2>1
<1>5. q \in Seq(T)
  <2>1. q \in [1 .. Len(q) -> T]  BY <1>1, <1>4
  <2>2. QED  BY <1>2, <2>1, IsASeq
<1>6. \A i \in I : \E k \in 1 .. Len(q) : q[k] = seq[i]  BY <1>1, <1>3 DEF Enumerates
<1>7. QED  BY <1>2, <1>3, <1>5, <1>6 DEF Holds

(* r is q from position low on, at most w elements. *)
NewestFrom(r, q, w, low) ==
    /\ low \in 1 .. Len(q) + 1
    /\ low = IF Len(q) <= w THEN 1 ELSE Len(q) - w + 1
    /\ Len(r) = Len(q) - low + 1
    /\ \A k \in 1 .. Len(r) : r[k] = q[low + k - 1]

LEMMA RecentFacts ==
    ASSUME NEW T, NEW q \in Seq(T), NEW w \in Nat
    PROVE  /\ Recent(q, w) \in Seq(T)
           /\ \E low : NewestFrom(Recent(q, w), q, w, low)
<1> DEFINE low == Max({1, Len(q) - w + 1})
<1>1. Len(q) \in Nat  OBVIOUS
<1>2. low = IF Len(q) <= w THEN 1 ELSE Len(q) - w + 1  BY <1>1, MaxOfTwo
<1>3. low \in 1 .. Len(q) + 1  BY <1>1, <1>2
<1>4. Recent(q, w) = SubSeq(q, low, Len(q))  BY DEF Recent
<1> HIDE DEF low
<1>5. Recent(q, w) \in Seq(T) /\ Len(Recent(q, w)) = Len(q) - low + 1
  BY <1>1, <1>3, <1>4
<1>6. \A k \in 1 .. Len(q) - low + 1 : Recent(q, w)[k] = q[low + k - 1]
  BY <1>1, <1>3, <1>4
<1>7. NewestFrom(Recent(q, w), q, w, low)  BY <1>2, <1>3, <1>5, <1>6 DEF NewestFrom
<1>8. QED  BY <1>5, <1>7

LEMMA RecentIsIdempotent ==
    ASSUME NEW T, NEW q \in Seq(T), NEW w \in Nat
    PROVE  Recent(Recent(q, w), w) = Recent(q, w)
<1> DEFINE r == Recent(q, w)
<1>1. r \in Seq(T) /\ Len(r) \in Nat /\ Len(r) <= w
  <2>a. r \in Seq(T)  BY RecentFacts
  <2>1. Len(q) \in Nat /\ r \in Seq(T)  BY <2>a
  <2>2. PICK low : NewestFrom(r, q, w, low)  BY RecentFacts
  <2> HIDE DEF r
  <2>3. QED  BY <2>1, <2>2 DEF NewestFrom
<1> HIDE DEF r
<1>2. Recent(r, w) \in Seq(T)  BY <1>1, RecentFacts
<1>3. PICK low : NewestFrom(Recent(r, w), r, w, low)  BY <1>1, RecentFacts
<1>4. low = 1 /\ Len(Recent(r, w)) = Len(r)  BY <1>1, <1>3 DEF NewestFrom
<1>5. \A k \in 1 .. Len(r) : Recent(r, w)[k] = r[k]
  <2> TAKE k \in 1 .. Len(r)
  <2>1. k \in 1 .. Len(Recent(r, w)) /\ low + k - 1 = k  BY <1>1, <1>4
  <2>2. QED  BY <1>3, <2>1 DEF NewestFrom
<1>6. Recent(r, w) = r  BY <1>1, <1>2, <1>4, <1>5, SeqEqual
<1>7. QED  BY <1>6 DEF r

After(I, i) == {j \in I : i < j}

(* The k-th position of n has n - k after it. *)
LEMMA AfterFacts ==
    ASSUME NEW n \in Nat, NEW I, I \subseteq Nat, NEW e, Enumerates(e, n, I), NEW k \in 1 .. n
    PROVE  Cardinality(After(I, e[k])) = n - k
<1> DEFINE f == [l \in k + 1 .. n |-> e[l]]
           A == After(I, e[k])
<1>0. \A l \in 1 .. n : e[l] \in I /\ e[l] \in Nat  BY DEF Enumerates
<1>1. f \in Injection(k + 1 .. n, A)
  <2>1. ASSUME NEW l \in k + 1 .. n PROVE l \in 1 .. n /\ f[l] = e[l] /\ f[l] \in A
    <3>1. l \in 1 .. n /\ k < l  OBVIOUS
    <3>2. e[k] < e[l] /\ e[l] \in I  BY <3>1 DEF Enumerates
    <3>3. QED  BY <3>1, <3>2 DEF After
  <2>2. ASSUME NEW l \in k + 1 .. n, NEW m \in k + 1 .. n, f[l] = f[m] PROVE l = m
    <3>1. l \in 1 .. n /\ m \in 1 .. n /\ e[l] = e[m] /\ e[l] \in Nat  BY <1>0, <2>1, <2>2
    <3>2. ~ (l < m) /\ ~ (m < l)  BY <3>1 DEF Enumerates
    <3>3. QED  BY <3>1, <3>2
  <2>3. f \in [k + 1 .. n -> A]
    <3> HIDE DEF A
    <3>1. QED  BY <2>1
  <2> HIDE DEF f, A
  <2>4. QED  BY <2>2, <2>3 DEF Injection, IsInjective
<1>2. \A a \in A : \E l \in k + 1 .. n : f[l] = a
  <2> SUFFICES ASSUME NEW a \in A PROVE \E l \in k + 1 .. n : f[l] = a  OBVIOUS
  <2>1. a \in I /\ e[k] < a  BY DEF After
  <2>2. PICK l \in 1 .. n : e[l] = a  BY <2>1 DEF Enumerates
  <2>3. k < l
    <3>1. l = k => e[l] = e[k]  OBVIOUS
    <3>2. l < k => e[l] < e[k]  BY DEF Enumerates
    <3>3. e[l] \in Nat /\ e[k] \in Nat  BY <1>0
    <3>4. QED  BY <2>1, <2>2, <3>1, <3>2, <3>3
  <2>4. l \in k + 1 .. n  BY <2>3
  <2>5. QED  BY <2>2, <2>4
<1> HIDE DEF f
<1>3. f \in Surjection(k + 1 .. n, A)  BY <1>1, <1>2 DEF Surjection, Injection
<1>4. ExistsBijection(k + 1 .. n, A)  BY <1>1, <1>3 DEF Bijection, ExistsBijection
<1>5. IsFiniteSet(k + 1 .. n) /\ Cardinality(k + 1 .. n) = n - k  BY FS_Interval
<1> HIDE DEF A
<1>6. Cardinality(A) = n - k  BY <1>4, <1>5, FS_Bijection
<1>7. QED  BY <1>6 DEF A

(* The newest of a list are those with few positions after them. *)
LEMMA RecentLists ==
    ASSUME NEW T, NEW seq \in Seq(T), NEW I, I \subseteq 1 .. Len(seq), NEW q, Lists(q, seq, I),
           NEW w \in Nat
    PROVE  Lists(Recent(q, w), seq, {i \in I : Cardinality(After(I, i)) < w})
<1> DEFINE J == {i \in I : Cardinality(After(I, i)) < w}
           n == Len(q)
           r == Recent(q, w)
<1>1. PICK e : Enumerates(e, n, I) /\ q = [k \in 1 .. n |-> seq[e[k]]]  BY DEF Lists
<1>0. I \subseteq Nat  OBVIOUS
<1>2. q \in Seq(T) /\ n \in Nat /\ I \subseteq Nat  BY <1>0, ListFacts
<1>a. r \in Seq(T)  BY <1>2, RecentFacts
<1>b. PICK low : NewestFrom(r, q, w, low)  BY <1>2, RecentFacts
<1>3. /\ low \in 1 .. n + 1
      /\ low = IF n <= w THEN 1 ELSE n - w + 1
      /\ Len(r) = n - low + 1
      /\ \A k \in 1 .. Len(r) : r[k] = q[low + k - 1]
  BY <1>b DEF NewestFrom
<1> DEFINE d == [k \in 1 .. Len(r) |-> e[low + k - 1]]
<1>4. Len(r) \in Nat  BY <1>2, <1>3
<1> HIDE DEF r, n
<1>5. ASSUME NEW k \in 1 .. Len(r)
      PROVE  low + k - 1 \in 1 .. n /\ n - (low + k - 1) < w
  BY <1>2, <1>3, <1>4
<1>6. ASSUME NEW k \in 1 .. Len(r) PROVE d[k] \in J
  <2>1. e[low + k - 1] \in I  BY <1>1, <1>5 DEF Enumerates
  <2>2. Cardinality(After(I, e[low + k - 1])) = n - (low + k - 1)
    BY <1>1, <1>2, <1>5, AfterFacts
  <2>3. QED  BY <1>5, <2>1, <2>2
<1>7. ASSUME NEW j \in 1 .. Len(r), NEW k \in 1 .. Len(r), j < k PROVE d[j] < d[k]
  <2>1. low + j - 1 \in 1 .. n /\ low + k - 1 \in 1 .. n  BY <1>5
  <2>2. low + j - 1 < low + k - 1  BY <1>3, <1>4, <1>7
  <2>3. e[low + j - 1] < e[low + k - 1]  BY <1>1, <2>1, <2>2 DEF Enumerates
  <2>4. QED  BY <2>3
<1>8. ASSUME NEW i \in J PROVE \E k \in 1 .. Len(r) : d[k] = i
  <2>1. PICK m \in 1 .. n : e[m] = i  BY <1>1 DEF Enumerates
  <2>2. n - m < w  BY <1>1, <1>2, <2>1, AfterFacts
  <2>a. m >= low
    <3>1. CASE n <= w  BY <1>2, <1>3, <3>1
    <3>2. CASE n > w  BY <1>2, <1>3, <2>2, <3>2
    <3>3. QED  BY <1>2, <3>1, <3>2
  <2>3. m - low + 1 \in 1 .. Len(r) /\ low + (m - low + 1) - 1 = m
    <3> HIDE DEF J
    <3>1. QED  BY <1>2, <1>3, <2>a
  <2>4. d[m - low + 1] = e[m]  BY <2>3
  <2>5. QED  BY <2>1, <2>3, <2>4
<1>9. Enumerates(d, Len(r), J)
  <2>1. d \in [1 .. Len(r) -> J]
    <3> HIDE DEF J
    <3>1. QED  BY <1>6
  <2> HIDE DEF d, J
  <2>2. QED  BY <1>7, <1>8, <2>1 DEF Enumerates
<1>10. r = [k \in 1 .. Len(r) |-> seq[d[k]]]
  <2>1. \A k \in 1 .. Len(r) : r[k] = seq[d[k]]
    <3> TAKE k \in 1 .. Len(r)
    <3>2. r[k] = q[low + k - 1]  BY <1>3
    <3>3. q[low + k - 1] = seq[e[low + k - 1]]  BY <1>1, <1>5
    <3>4. QED  BY <3>2, <3>3
  <2> HIDE DEF d
  <2>2. r = [k \in 1 .. Len(r) |-> r[k]]  BY <1>a
  <2>3. QED  BY <2>1, <2>2
<1> HIDE DEF d, J
<1>11. Lists(r, seq, J)  BY <1>4, <1>9, <1>10 DEF Lists
<1>12. QED  BY <1>11 DEF r, J

(* Of a list, those of a type. *)
Among(I, seq, type) == {i \in I : seq[i].type = type}

LEMMA OfTypeOfList ==
    ASSUME NEW T, NEW seq \in Seq(T), NEW I, I \subseteq 1 .. Len(seq), NEW q, Lists(q, seq, I),
           NEW type
    PROVE  Lists(OfType(q, type), seq, Among(I, seq, type))
<1> DEFINE n == Len(q)
           K == {k \in 1 .. n : q[k].type = type}
           J == {i \in I : seq[i].type = type}
           p == OfType(q, type)
<1>1. PICK e : Enumerates(e, n, I) /\ q = [k \in 1 .. n |-> seq[e[k]]]  BY DEF Lists
<1>0. I \subseteq Nat  OBVIOUS
<1>2. q \in Seq(T) /\ n \in Nat /\ I \subseteq Nat  BY <1>0, ListFacts
<1>3. K = {k \in DOMAIN q : q[k].type = type}  BY <1>2
<1>4. p = Kept(q, K)  BY <1>3 DEF OfType
<1>5. Lists(p, q, K)
  <2>1. K \subseteq 1 .. n  OBVIOUS
  <2> HIDE DEF K, p, n
  <2>2. QED  BY <1>2, <1>4, <2>1, KeptLists
<1>6. PICK d : Enumerates(d, Len(p), K) /\ p = [k \in 1 .. Len(p) |-> q[d[k]]]  BY <1>5 DEF Lists
<1>7. Len(p) \in Nat  BY <1>5 DEF Lists
<1> DEFINE c == [k \in 1 .. Len(p) |-> e[d[k]]]
<1> HIDE DEF p, n
<1>8. ASSUME NEW k \in 1 .. Len(p) PROVE d[k] \in 1 .. n /\ c[k] \in J
  <2>1. d[k] \in K  BY <1>6 DEF Enumerates
  <2>2. d[k] \in 1 .. n /\ q[d[k]] = seq[e[d[k]]] /\ e[d[k]] \in I  BY <1>1, <2>1 DEF Enumerates
  <2>3. QED  BY <2>1, <2>2
<1>9. ASSUME NEW j \in 1 .. Len(p), NEW k \in 1 .. Len(p), j < k PROVE c[j] < c[k]
  <2>1. d[j] < d[k]  BY <1>6, <1>9 DEF Enumerates
  <2>2. QED  BY <1>1, <1>8, <2>1 DEF Enumerates
<1>10. ASSUME NEW i \in J PROVE \E k \in 1 .. Len(p) : c[k] = i
  <2>1. PICK m \in 1 .. n : e[m] = i  BY <1>1 DEF Enumerates
  <2>2. m \in K  BY <1>1, <2>1
  <2>3. PICK k \in 1 .. Len(p) : d[k] = m  BY <1>6, <2>2 DEF Enumerates
  <2>4. QED  BY <2>1, <2>3
<1>11. Enumerates(c, Len(p), J)
  <2>1. c \in [1 .. Len(p) -> J]
    <3> HIDE DEF J
    <3>1. QED  BY <1>8
  <2> HIDE DEF c, J
  <2>2. QED  BY <1>9, <1>10, <2>1 DEF Enumerates
<1>12. p = [k \in 1 .. Len(p) |-> seq[c[k]]]
  <2>1. \A k \in 1 .. Len(p) : p[k] = seq[c[k]]
    <3> TAKE k \in 1 .. Len(p)
    <3>1. p[k] = q[d[k]]  BY <1>6
    <3>2. q[d[k]] = seq[e[d[k]]]  BY <1>1, <1>8
    <3>3. QED  BY <3>1, <3>2
  <2>2. p = [k \in 1 .. Len(p) |-> p[k]]  BY <1>6
  <2> HIDE DEF c
  <2>3. QED  BY <2>1, <2>2
<1> HIDE DEF c, J
<1>13. Lists(p, seq, J)  BY <1>7, <1>11, <1>12 DEF Lists
<1>14. QED  BY <1>13 DEF p, J, Among

LEMMA WholeLists ==
    ASSUME NEW T, NEW seq \in Seq(T)
    PROVE  Lists(seq, seq, 1 .. Len(seq))
<1> DEFINE e == [k \in 1 .. Len(seq) |-> k]
<1>1. Len(seq) \in Nat  OBVIOUS
<1>2. Enumerates(e, Len(seq), 1 .. Len(seq))  BY <1>1 DEF Enumerates
<1>3. seq = [k \in 1 .. Len(seq) |-> seq[e[k]]]  BY <1>1
<1> HIDE DEF e
<1>4. QED  BY <1>1, <1>2, <1>3 DEF Lists

----------------------------------------------------------------------------
(* The window.                                                             *)

Types == {TypeOrder[i] : i \in DOMAIN TypeOrder}

Reading == [type : Types, at : Nat, value : Int]

(* Readings of a type are stored in the order of their timestamps, which   *)
(* differ.                                                                 *)
Ordered(obs) ==
    \A i, j \in 1 .. Len(obs) : (i < j /\ obs[i].type = obs[j].type) => obs[i].at < obs[j].at

Positions(obs, type) == {i \in 1 .. Len(obs) : obs[i].type = type}

LEMMA LaterIsAfter ==
    ASSUME NEW obs \in Seq(Reading), Ordered(obs), NEW i \in 1 .. Len(obs)
    PROVE  Later(obs, i) = After(Positions(obs, obs[i].type), i)
<1>1. DOMAIN obs = 1 .. Len(obs) /\ Len(obs) \in Nat  OBVIOUS
<1>2. ASSUME NEW j \in 1 .. Len(obs), obs[j].type = obs[i].type
      PROVE  Earlier(obs[i], obs[j]) <=> i < j
  <2>1. obs[i] \in Reading /\ obs[j] \in Reading  OBVIOUS
  <2>2. obs[i].at \in Nat /\ obs[j].at \in Nat /\ obs[i].type \in Types  BY <2>1 DEF Reading
  <2>3. TypeRank(obs[i].type) \in Nat
    <3>1. PICK t \in DOMAIN TypeOrder : TypeOrder[t] = obs[i].type  BY <2>2 DEF Types
    <3>2. TypeRank(obs[i].type) \in DOMAIN TypeOrder  BY <3>1 DEF TypeRank
    <3>3. QED  BY <3>2, EngineAssumption
  <2>4. Earlier(obs[i], obs[j]) <=> obs[i].at < obs[j].at  BY <1>2, <2>2, <2>3 DEF Earlier
  <2>5. i < j => obs[i].at < obs[j].at  BY <1>2 DEF Ordered
  <2>6. j < i => obs[j].at < obs[i].at  BY <1>2 DEF Ordered
  <2>7. i = j => obs[i].at = obs[j].at  OBVIOUS
  <2>8. i \in Nat /\ j \in Nat  OBVIOUS
  <2>9. QED  BY <2>2, <2>4, <2>5, <2>6, <2>7, <2>8
<1>3. QED  BY <1>1, <1>2 DEF Later, After, Positions

Newest(obs, window) == {i \in 1 .. Len(obs) : Cardinality(Later(obs, i)) < window}

LEMMA BoundLists ==
    ASSUME NEW T, NEW obs \in Seq(T), NEW window \in Nat
    PROVE  /\ Lists(BoundRecent(obs, window), obs, Newest(obs, window))
           /\ Newest(obs, window) \subseteq 1 .. Len(obs)
           /\ Len(BoundRecent(obs, window)) = Cardinality(Newest(obs, window))
<1>1. DOMAIN obs = 1 .. Len(obs) /\ Len(obs) \in Nat  OBVIOUS
<1>2. BoundRecent(obs, window) = Kept(obs, Newest(obs, window))  BY <1>1 DEF BoundRecent, Newest
<1>3. Newest(obs, window) \subseteq 1 .. Len(obs)  BY DEF Newest
<1>4. QED  BY <1>1, <1>2, <1>3, KeptLists

LEMMA OfTypeLists ==
    ASSUME NEW T, NEW obs \in Seq(T), NEW type
    PROVE  /\ Lists(OfType(obs, type), obs, Positions(obs, type))
           /\ Positions(obs, type) \subseteq 1 .. Len(obs)
<1>1. DOMAIN obs = 1 .. Len(obs) /\ Len(obs) \in Nat  OBVIOUS
<1>2. OfType(obs, type) = Kept(obs, Positions(obs, type))  BY <1>1 DEF OfType, Positions
<1>3. Positions(obs, type) \subseteq 1 .. Len(obs)  BY DEF Positions
<1>4. QED  BY <1>1, <1>2, <1>3, KeptLists

(* The window of a type is the same whether the readings of the type are   *)
(* taken from the bounded list or bounded themselves.                      *)
LEMMA WindowOfType ==
    ASSUME NEW obs \in Seq(Reading), Ordered(obs), NEW window \in Nat, NEW type
    PROVE  OfType(BoundRecent(obs, window), type) = Recent(OfType(obs, type), window)
<1> DEFINE B == Newest(obs, window)
           I == Positions(obs, type)
           J == {i \in I : Cardinality(After(I, i)) < window}
<1>1. Lists(OfType(BoundRecent(obs, window), type), obs, Among(B, obs, type))
  <2>1. Lists(BoundRecent(obs, window), obs, B) /\ B \subseteq 1 .. Len(obs)  BY BoundLists
  <2> HIDE DEF B
  <2>2. QED  BY <2>1, OfTypeOfList
<1>2. Lists(Recent(OfType(obs, type), window), obs, J)
  <2>1. Lists(OfType(obs, type), obs, I) /\ I \subseteq 1 .. Len(obs)  BY OfTypeLists
  <2> HIDE DEF I
  <2>2. QED  BY <2>1, RecentLists
<1>3. Among(B, obs, type) = J
  <2>1. ASSUME NEW i \in 1 .. Len(obs), obs[i].type = type
        PROVE  Later(obs, i) = After(I, i)
    BY <2>1, LaterIsAfter
  <2>2. QED  BY <2>1 DEF Newest, Positions, Among
<1>4. J \subseteq Nat  BY DEF Positions
<1> HIDE DEF J
<1>5. QED  BY <1>1, <1>2, <1>3, <1>4, ListIsUnique

LEMMA OfTypeFacts ==
    ASSUME NEW T, NEW obs \in Seq(T), NEW type
    PROVE  /\ OfType(obs, type) \in Seq(T) /\ Len(OfType(obs, type)) \in Nat
           /\ \A k \in 1 .. Len(OfType(obs, type)) :
                \E i \in 1 .. Len(obs) : OfType(obs, type)[k] = obs[i] /\ obs[i].type = type
           /\ \A i \in 1 .. Len(obs) : obs[i].type = type =>
                \E k \in 1 .. Len(OfType(obs, type)) : OfType(obs, type)[k] = obs[i]
<1> DEFINE q == OfType(obs, type)
           I == Positions(obs, type)
<1>1. Lists(q, obs, I) /\ I \subseteq 1 .. Len(obs)  BY OfTypeLists
<1>2. I = {i \in 1 .. Len(obs) : obs[i].type = type}  BY DEF Positions
<1> HIDE DEF q, I
<1>3. q \in Seq(T) /\ Len(q) \in Nat /\ Holds(q, obs, I)  BY <1>1, ListFacts
<1>4. QED  BY <1>2, <1>3 DEF q, Holds

(* Every type keeps its newest reading. *)
KeepsTypes(b, obs) ==
    \A i \in 1 .. Len(obs) : \E k \in 1 .. Len(b) : b[k].type = obs[i].type

LEMMA BoundFacts ==
    ASSUME NEW obs \in Seq(Reading), Ordered(obs), NEW window \in Nat \ {0}
    PROVE  /\ BoundRecent(obs, window) \in Seq(Reading) /\ Len(BoundRecent(obs, window)) \in Nat
           /\ KeepsTypes(BoundRecent(obs, window), obs)
<1> DEFINE b == BoundRecent(obs, window)
<1>1. Lists(b, obs, Newest(obs, window)) /\ Newest(obs, window) \subseteq 1 .. Len(obs)
  BY BoundLists
<1> HIDE DEF b
<1>a. b \in Seq(Reading) /\ Len(b) \in Nat /\ Holds(b, obs, Newest(obs, window))
  BY <1>1, ListFacts
<1>2. /\ b \in Seq(Reading) /\ Len(b) \in Nat
      /\ \A k \in 1 .. Len(b) : \E i \in Newest(obs, window) : b[k] = obs[i]
  BY <1>a DEF Holds
<1>3. ASSUME NEW i \in 1 .. Len(obs) PROVE \E k \in 1 .. Len(b) : b[k].type = obs[i].type
  <2> DEFINE t == obs[i].type
             p == OfType(obs, t)
             r == Recent(p, window)
  <2>1. p \in Seq(Reading) /\ Len(p) \in Nat /\ Len(p) # 0
    <3>1. /\ p \in Seq(Reading) /\ Len(p) \in Nat
          /\ \A j \in 1 .. Len(obs) : obs[j].type = t => \E k \in 1 .. Len(p) : p[k] = obs[j]
      BY OfTypeFacts
    <3> HIDE DEF p
    <3>2. QED  BY <3>1
  <2> HIDE DEF p
  <2>2. PICK low : NewestFrom(r, p, window, low)  BY <2>1, RecentFacts
  <2>3. Len(r) \in Nat /\ Len(r) # 0  BY <2>1, <2>2 DEF NewestFrom
  <2>4. r = OfType(b, t)  BY WindowOfType DEF b, p
  <2> HIDE DEF r, t
  <2>5. 1 \in 1 .. Len(OfType(b, t))  BY <2>3, <2>4
  <2>6. PICK k \in 1 .. Len(b) : b[k].type = t  BY <1>2, <2>5, OfTypeFacts
  <2>7. QED  BY <2>6 DEF t
<1>4. QED  BY <1>1, <1>2, <1>3 DEF b, KeepsTypes

(* A window that drops nothing changes nothing. *)
LEMMA FullWindow ==
    ASSUME NEW obs \in Seq(Reading), NEW window \in Nat,
           Len(BoundRecent(obs, window)) >= Len(obs)
    PROVE  BoundRecent(obs, window) = obs
<1> DEFINE b == BoundRecent(obs, window)
           B == Newest(obs, window)
<1>1. Lists(b, obs, B) /\ B \subseteq 1 .. Len(obs) /\ Len(b) = Cardinality(B)  BY BoundLists
<1>2. Len(obs) \in Nat  OBVIOUS
<1>3. IsFiniteSet(1 .. Len(obs)) /\ Cardinality(1 .. Len(obs)) = Len(obs)
  <2>1. 1 \in Int /\ Len(obs) \in Int  BY <1>2
  <2>2. /\ IsFiniteSet(1 .. Len(obs))
        /\ Cardinality(1 .. Len(obs)) = IF 1 > Len(obs) THEN 0 ELSE Len(obs) - 1 + 1
    BY <2>1, FS_Interval
  <2>3. QED  BY <1>2, <2>2
<1> HIDE DEF b, B
<1>4. IsFiniteSet(B) /\ Cardinality(B) \in Nat /\ Cardinality(B) <= Len(obs)
  BY <1>1, <1>2, FinitePositions
<1>5. B = 1 .. Len(obs)
  <2>1. B \in SUBSET (1 .. Len(obs))  BY <1>1
  <2>2. Cardinality(B) = Len(obs)  BY <1>1, <1>2, <1>4 DEF b
  <2>3. QED  BY <1>3, <2>1, <2>2, FS_Subset
<1>6. Lists(obs, obs, 1 .. Len(obs))  BY WholeLists
<1>7. 1 .. Len(obs) \subseteq Nat  OBVIOUS
<1>8. b = obs  BY <1>1, <1>5, <1>6, <1>7, ListIsUnique
<1>9. QED  BY <1>8 DEF b

----------------------------------------------------------------------------
(* Sums.                                                                   *)

Adds(f, v, n) == f = [i \in 0 .. n |-> IF i = 0 THEN 0 ELSE f[i - 1] + v[i]]

(* The sum of a sequence is the last value of a function that adds one     *)
(* element after the other: there is no least length without one.          *)
LEMMA TotalUnfolds ==
    ASSUME NEW v \in Seq(Int)
    PROVE  \E f : Adds(f, v, Len(v)) /\ Total(v) = f[Len(v)]
<1> DEFINE Bad == {n \in 0 .. Len(v) : ~ \E f : Adds(f, v, n)}
<1>1. Len(v) \in Nat  OBVIOUS
<1>2. Bad = {}
  <2> SUFFICES ASSUME Bad # {} PROVE FALSE  OBVIOUS
  <2>1. PICK n \in Bad : \A m \in Bad : n <= m
    <3>1. Bad \subseteq Nat  BY <1>1
    <3>2. QED  BY <3>1, LeastOf
  <2>2. n \in 0 .. Len(v) /\ n \in Nat  BY <1>1, <2>1
  <2>3. CASE n = 0
    <3> DEFINE g == [i \in 0 .. 0 |-> 0]
    <3>1. Adds(g, v, 0)  BY DEF Adds
    <3>2. QED  BY <2>1, <2>3, <3>1
  <2>4. CASE n # 0
    <3>1. n - 1 \in 0 .. Len(v) /\ n - 1 \notin Bad
      <4>1. n - 1 \in 0 .. Len(v) /\ ~ (n <= n - 1)  BY <1>1, <2>2, <2>4
      <4> HIDE DEF Bad
      <4>2. QED  BY <2>1, <4>1
    <3>2. PICK f : Adds(f, v, n - 1)  BY <3>1
    <3> DEFINE g == [i \in 0 .. n |-> IF i = n THEN f[n - 1] + v[n] ELSE f[i]]
    <3>3. \A i \in 0 .. n : g[i] = IF i = 0 THEN 0 ELSE g[i - 1] + v[i]
      <4> TAKE i \in 0 .. n
      <4>1. CASE i = n
        <5>1. n - 1 \in 0 .. n /\ n - 1 # n  BY <2>2, <2>4
        <5>2. g[n - 1] = f[n - 1]  BY <5>1
        <5>3. n \in 0 .. n  BY <2>2
        <5>4. g[n] = f[n - 1] + v[n]  BY <5>3
        <5>5. QED  BY <2>4, <4>1, <5>2, <5>4
      <4>2. CASE i # n
        <5>1. i \in 0 .. n - 1  BY <2>2, <4>2
        <5>2. f[i] = IF i = 0 THEN 0 ELSE f[i - 1] + v[i]  BY <3>2, <5>1 DEF Adds
        <5>3. g[i] = f[i]  BY <4>2
        <5>4. i # 0 => g[i - 1] = f[i - 1]  BY <2>2, <5>1
        <5>5. QED  BY <5>2, <5>3, <5>4
      <4>3. QED  BY <4>1, <4>2
    <3>4. Adds(g, v, n)  BY <3>3 DEF Adds
    <3>5. QED  BY <2>1, <3>4
  <2>5. QED  BY <2>3, <2>4
<1>3. Len(v) \in 0 .. Len(v)  BY <1>1
<1>4. \E f : Adds(f, v, Len(v))  BY <1>2, <1>3
<1> DEFINE h == CHOOSE f : Adds(f, v, Len(v))
<1>5. Adds(h, v, Len(v))  BY <1>4
<1>6. Total(v) = h[Len(v)]  BY <1>1 DEF Total, Adds
<1>7. QED  BY <1>5, <1>6

LEMMA TotalFacts ==
    ASSUME NEW v \in Seq(Int)
    PROVE  /\ Total(v) \in Int
           /\ (\A i \in 1 .. Len(v) : v[i] = 0) => Total(v) = 0
<1>1. PICK f : Adds(f, v, Len(v)) /\ Total(v) = f[Len(v)]  BY TotalUnfolds
<1> DEFINE Zero == \A i \in 1 .. Len(v) : v[i] = 0
           Bad == {n \in 0 .. Len(v) : ~ (f[n] \in Int /\ (Zero => f[n] = 0))}
<1>2. Len(v) \in Nat  OBVIOUS
<1>3. Bad = {}
  <2> SUFFICES ASSUME Bad # {} PROVE FALSE  OBVIOUS
  <2>1. PICK n \in Bad : \A m \in Bad : n <= m
    <3>1. Bad \subseteq Nat  BY <1>2
    <3>2. QED  BY <3>1, LeastOf
  <2>2. n \in 0 .. Len(v) /\ n \in Nat  BY <1>2, <2>1
  <2>3. f[n] = IF n = 0 THEN 0 ELSE f[n - 1] + v[n]  BY <1>1, <2>2 DEF Adds
  <2>4. CASE n = 0  BY <2>1, <2>3, <2>4
  <2>5. CASE n # 0
    <3>1. n - 1 \in 0 .. Len(v) /\ n - 1 \notin Bad
      <4>1. n - 1 \in 0 .. Len(v) /\ ~ (n <= n - 1)  BY <1>2, <2>2, <2>5
      <4> HIDE DEF Bad
      <4>2. QED  BY <2>1, <4>1
    <3>2. f[n - 1] \in Int /\ (Zero => f[n - 1] = 0)  BY <3>1
    <3>3. n \in 1 .. Len(v) /\ v[n] \in Int  BY <1>2, <2>2, <2>5
    <3>4. Zero => v[n] = 0  BY <3>3
    <3>5. f[n] \in Int  BY <2>3, <2>5, <3>2, <3>3
    <3>6. Zero => f[n] = 0
      <4> HIDE DEF Zero
      <4>1. QED  BY <2>3, <2>5, <3>2, <3>4
    <3>7. QED  BY <2>1, <3>5, <3>6
  <2>6. QED  BY <2>4, <2>5
<1>4. Len(v) \in 0 .. Len(v)  BY <1>2
<1>5. f[Len(v)] \in Int /\ (Zero => f[Len(v)] = 0)  BY <1>3, <1>4
<1>6. QED  BY <1>1, <1>5

----------------------------------------------------------------------------
(* What a run stores.                                                      *)

ConcludedFrom(run, s) ==
    /\ run.assessment = Assess(s) /\ run.structured = StructuredAssessment(s)
    /\ run.plan = PlanningOutcome(Words(s.direction, s.level))
    /\ run.hypotheses = Hypotheses(s, run.obs)
    /\ run.confidence = Confidence(run.structured, s.primary)

Concluded(run) ==
    /\ run.asset \in Assets /\ run.status = "completed"
    /\ run.from \in Seq(Reading) /\ Ordered(run.from)
    /\ CanRunReasoning(run.from)
    /\ run.obs = BoundRecent(run.from, Window) /\ Analysable(run.obs)
    /\ ConcludedFrom(run, Signals(run.obs, FuelCellProfile))
    /\ run.announced = OperationalState(run.from, run.plan, run.structured)

Refused(run) ==
    /\ run.asset \in Assets /\ run.status = "failed"
    /\ run.from \in Seq(Reading) /\ Ordered(run.from)
    /\ CanRunReasoning(run.from)
    /\ ~ Analysable(BoundRecent(run.from, Window))

LEMMA StoredFailure ==
    ASSUME NEW a, NEW obs, NEW run, run = FailedRun(a, obs)
    PROVE  run.asset = a /\ run.status = "failed" /\ run.from = obs
  BY DEF FailedRun

(* The signals of a run: relations are those of the fuel-cell rules, which *)
(* know no contradictions.                                                 *)
LEMMA SignalFacts ==
    ASSUME NEW obs, NEW s, s = Signals(obs, FuelCellProfile)
    PROVE  /\ s.primary = Primary(obs)
           /\ s.direction = Direction(Primary(obs)) /\ s.direction \in Direct
           /\ s.level = Level(Primary(obs)) /\ s.level \in {"high", "low"}
           /\ s.correlations = Correlations(obs, FuelCellProfile)
           /\ s.contradictions = {} /\ s.expectation # "unexpected"
<1>1. /\ s.primary = Primary(obs)
      /\ s.direction = Direction(Primary(obs))
      /\ s.level = Level(Primary(obs))
      /\ s.correlations = Correlations(obs, FuelCellProfile)
      /\ s.contradictions = Contradictions(obs, FuelCellProfile)
      /\ s.expectation = Expectation(FuelCellProfile, s.correlations, s.contradictions)
  BY DEF Signals, SignalsWith
<1>2. Direction(Primary(obs)) \in Direct  BY DEF Direction, SplitHalf, Direct
<1>3. Level(Primary(obs)) \in {"high", "low"}  BY DEF Level
<1>4. Contradictions(obs, FuelCellProfile) = {}  BY DEF Contradictions, FuelCellProfile
<1>5. FuelCellProfile.expects = TRUE  BY DEF FuelCellProfile
<1>6. Expectation(FuelCellProfile, s.correlations, {}) # "unexpected"  BY <1>5 DEF Expectation
<1>7. QED  BY <1>1, <1>2, <1>3, <1>4, <1>6

LEMMA WordFacts ==
    ASSUME NEW direction \in Direct, NEW level \in {"high", "low"}
    PROVE  /\ "increasing" \in Words(direction, level) <=> direction = "increasing"
           /\ "unstable" \in Words(direction, level) <=> level = "high"
  BY DEF Words, Direct

LEMMA PlanFacts ==
    ASSUME NEW words
    PROVE  /\ PlanningOutcome(words).priority \in {"high", "low"}
           /\ PlanningOutcome(words).priority = "high"
                <=> "increasing" \in words \/ "unstable" \in words
  BY DEF PlanningOutcome

(* What every completed run stores. *)
LEMMA RunFacts ==
    ASSUME NEW run, Concluded(run)
    PROVE  /\ run.structured.direction \in Direct
           /\ run.structured.direction = Direction(Primary(run.obs))
           /\ run.structured.level = Level(Primary(run.obs))
           /\ run.structured.level \in {"high", "low"}
           /\ run.structured.contradictions = FALSE /\ run.structured.unexpected = FALSE
           /\ run.assessment.direction = run.structured.direction
           /\ run.assessment.level = run.structured.level
           /\ run.plan.priority \in {"high", "low"}
           /\ run.plan.priority = "high"
                <=> run.structured.direction = "increasing" \/ run.structured.level = "high"
<1> DEFINE s == Signals(run.obs, FuelCellProfile)
<1>1. /\ s.direction = Direction(Primary(run.obs)) /\ s.direction \in Direct
      /\ s.level = Level(Primary(run.obs)) /\ s.level \in {"high", "low"}
      /\ s.contradictions = {} /\ s.expectation # "unexpected"
  BY SignalFacts
<1>2. /\ run.assessment = Assess(s) /\ run.structured = StructuredAssessment(s)
      /\ run.plan = PlanningOutcome(Words(s.direction, s.level))
  BY DEF Concluded, ConcludedFrom
<1> HIDE DEF s
<1>3. /\ run.structured.direction = s.direction /\ run.structured.level = s.level
      /\ run.assessment.direction = s.direction /\ run.assessment.level = s.level
  BY <1>2 DEF StructuredAssessment, Assess
<1>4. /\ run.structured.contradictions = (s.contradictions # {})
      /\ run.structured.unexpected = (s.expectation = "unexpected")
  BY <1>2 DEF StructuredAssessment
<1>5. run.structured.contradictions = FALSE /\ run.structured.unexpected = FALSE
  BY <1>1, <1>4, Zenon
<1>6. QED  BY <1>1, <1>2, <1>3, <1>5, WordFacts, PlanFacts

LEMMA SupportIsInt ==
    ASSUME NEW n \in Nat
    PROVE  Support(n) \in Int
<1>1. Min({n, 3}) \in Int  BY MinOfTwo
<1>2. QED  BY <1>1, MinOfTwo DEF Support

LEMMA ConfidenceIsPercent ==
    ASSUME NEW a, NEW primary, Len(primary) \in Nat
    PROVE  Confidence(a, primary) \in 0 .. 100
<1> DEFINE consistency == IF a.level = "high" \/ a.contradictions THEN 5 ELSE 15
           trend == IF a.direction = "stable" THEN 8 ELSE IF a.level = "high" THEN 4 ELSE 12
           sustained == IF MonotonicRecent(primary) /\ a.direction # "stable" THEN 6 ELSE 0
           penalties == (IF a.contradictions THEN 12 ELSE 0) + (IF a.unexpected THEN 6 ELSE 0)
           n == 35 + Support(Len(primary)) + consistency + trend + sustained - penalties
<1>1. consistency \in Int /\ trend \in Int /\ sustained \in Int /\ penalties \in Int  OBVIOUS
<1>2. Support(Len(primary)) \in Int  BY SupportIsInt
<1>3. Confidence(a, primary) = Clamp(n, 0, 100)  BY DEF Confidence
<1> HIDE DEF consistency, trend, sustained, penalties
<1>4. n \in Int  BY <1>1, <1>2
<1> HIDE DEF n
<1>5. Clamp(n, 0, 100) \in 0 .. 100  BY <1>4, ClampIsPercent
<1>6. QED  BY <1>3, <1>5

(* The state announced, the recommendation and the notification. *)
LEMMA StateFacts ==
    ASSUME NEW primary, NEW trend, NEW plan, NEW a, NEW state, state = StateOf(primary, trend, plan, a)
    PROVE  /\ state.score = HealthScore(plan.priority, trend, a) /\ state.score \in 0 .. 100
           /\ state.health = HealthStatus(state.score)
           /\ state.health \in {"NORMAL", "WARNING", "CRITICAL"}
           /\ state.risk = RiskLevel(plan.priority, state.health)
           /\ plan.priority = "high" => state.risk = "HIGH"
<1> DEFINE cost == IF plan.priority = "high" THEN 45 ELSE 10
           movement == (IF Sustained(trend) THEN 15 ELSE 0)
                         + (IF trend.volatility >= 60 THEN 10 ELSE 0)
                         - (IF trend.direction = "stable" /\ trend.stability >= 75 THEN 5 ELSE 0)
           doubts == (IF a.contradictions THEN 15 ELSE 0) + (IF a.unexpected THEN 10 ELSE 0)
<1>1. /\ state.score = HealthScore(plan.priority, trend, a)
      /\ state.health = HealthStatus(state.score)
      /\ state.risk = RiskLevel(plan.priority, state.health)
  BY DEF StateOf
<1>2. cost \in Int /\ movement \in Int /\ doubts \in Int  OBVIOUS
<1>3. HealthScore(plan.priority, trend, a) = Clamp(100 - cost - movement - doubts, 0, 100)
  BY DEF HealthScore
<1> HIDE DEF cost, movement, doubts
<1>4. 100 - cost - movement - doubts \in Int  BY <1>2
<1>5. HealthScore(plan.priority, trend, a) \in 0 .. 100  BY <1>3, <1>4, ClampIsPercent
<1>6. state.score \in 0 .. 100  BY <1>1, <1>5
<1>7. HealthStatus(state.score) \in {"NORMAL", "WARNING", "CRITICAL"}  BY <1>6 DEF HealthStatus
<1>8. plan.priority = "high" => RiskLevel(plan.priority, state.health) = "HIGH"  BY DEF RiskLevel
<1>9. QED  BY <1>1, <1>6, <1>7, <1>8

LEMMA RecommendFacts ==
    ASSUME NEW state
    PROVE  /\ Notify(Recommend(state)).id = Recommend(state)
           /\ Notify(Recommend(state)).severity \in {"CRITICAL", "WARNING", "NONE"}
           /\ Notify(Recommend(state)).severity = "CRITICAL" <=> state.health = "CRITICAL"
           /\ state.risk = "HIGH" => Notify(Recommend(state)).severity # "NONE"
<1>1. /\ Recommend(state).priority \in {"P0", "P1", "P2", "P3"}
      /\ Recommend(state).priority = "P0" <=> state.health = "CRITICAL"
      /\ state.risk = "HIGH" => Recommend(state).priority \in {"P0", "P1"}
  BY DEF Recommend
<1>2. QED  BY <1>1 DEF Notify

LEMMA PrimaryFacts ==
    ASSUME NEW obs \in Seq(Reading), obs # <<>>
    PROVE  /\ Primary(obs) = OfType(obs, obs[1].type)
           /\ Primary(obs) \in Seq(Reading) /\ Len(Primary(obs)) \in Nat \ {0}
           /\ \A k \in 1 .. Len(Primary(obs)) : Primary(obs)[k].type = obs[1].type
<1>1. Primary(obs) = OfType(obs, obs[1].type)  BY DEF Primary
<1>2. 1 \in 1 .. Len(obs)  OBVIOUS
<1>3. QED  BY <1>1, <1>2, OfTypeFacts

LEMMA ObsFacts ==
    ASSUME NEW run, Concluded(run)
    PROVE  /\ run.obs \in Seq(Reading) /\ run.obs # <<>> /\ run.from # <<>>
           /\ Len(Primary(run.obs)) \in Nat /\ Len(Primary(run.obs)) >= 2
<1>1. Window \in Nat \ {0}  BY EngineAssumption
<1>2. run.obs \in Seq(Reading)  BY <1>1, BoundFacts DEF Concluded
<1>3. Len(run.obs) >= 2 /\ Len(Primary(run.obs)) >= 2 /\ Len(run.from) >= 2
  BY DEF Concluded, Analysable, CanRunReasoning
<1>4. run.obs # <<>> /\ run.from # <<>>  BY <1>3
<1>5. QED  BY <1>2, <1>3, <1>4, PrimaryFacts

(* As long as the window keeps the primary type, the state recomputed from *)
(* the readings of the run is as healthy and as risky as the one announced.*)
LEMMA KeptPrimaryState ==
    ASSUME NEW run, Concluded(run), PrimaryKept(run)
    PROVE  /\ StateForRun(run).health = run.announced.health
           /\ StateForRun(run).risk = run.announced.risk
           /\ run.announced.health \in {"NORMAL", "WARNING", "CRITICAL"}
<1> DEFINE t == run.from[1].type
           p == OfType(run.from, t)
<1>1. /\ run.from \in Seq(Reading) /\ Ordered(run.from)
      /\ run.obs = BoundRecent(run.from, Window)
      /\ run.announced = OperationalState(run.from, run.plan, run.structured)
  BY DEF Concluded
<1>2. Window \in Nat  BY EngineAssumption
<1>3. run.obs # <<>> /\ run.from # <<>> /\ run.obs \in Seq(Reading)  BY ObsFacts
<1>4. Primary(run.from) = p /\ p \in Seq(Reading)  BY <1>1, <1>3, PrimaryFacts
<1>5. Primary(run.obs) = OfType(run.obs, t)  BY <1>3, PrimaryFacts DEF PrimaryKept
<1>6. OfType(run.obs, t) = Recent(p, Window)  BY <1>1, <1>2, WindowOfType
<1> HIDE DEF p
<1>7. AnalyzeTrend(Primary(run.obs), Window) = AnalyzeTrend(Primary(run.from), Window)
  <2>1. Recent(Recent(p, Window), Window) = Recent(p, Window)  BY <1>2, <1>4, RecentIsIdempotent
  <2>2. QED  BY <1>4, <1>5, <1>6, <2>1 DEF AnalyzeTrend
<1> DEFINE trend == AnalyzeTrend(Primary(run.from), Window)
           shown == StateOf(Primary(run.obs), trend, run.plan, run.structured)
           told == StateOf(Primary(run.from), trend, run.plan, run.structured)
<1>8. StateForRun(run) = shown /\ run.announced = told
  BY <1>1, <1>7 DEF StateForRun, OperationalState
<1>9. /\ shown.score = told.score /\ shown.health = told.health /\ shown.risk = told.risk
      /\ told.health \in {"NORMAL", "WARNING", "CRITICAL"}
  <2> HIDE DEF trend
  <2>1. /\ shown.score = HealthScore(run.plan.priority, trend, run.structured)
        /\ shown.health = HealthStatus(shown.score)
        /\ shown.risk = RiskLevel(run.plan.priority, shown.health)
    BY StateFacts
  <2>2. /\ told.score = HealthScore(run.plan.priority, trend, run.structured)
        /\ told.health = HealthStatus(told.score)
        /\ told.risk = RiskLevel(run.plan.priority, told.health)
        /\ told.health \in {"NORMAL", "WARNING", "CRITICAL"}
    BY StateFacts
  <2> HIDE DEF shown, told
  <2>3. QED  BY <2>1, <2>2
<1> HIDE DEF shown, told
<1>10. QED  BY <1>8, <1>9

(* The recommendation looks at health and risk only. *)
LEMMA SameRecommendation ==
    ASSUME NEW state, NEW other, state.health = other.health, state.risk = other.risk
    PROVE  Recommend(state) = Recommend(other)
  BY DEF Recommend

LEMMA SeverityOfRun ==
    ASSUME NEW run, Concluded(run)
    PROVE  /\ (Notify(Recommend(run.announced)).severity = "CRITICAL")
                = (run.announced.health = "CRITICAL")
           /\ run.plan.priority = "high" => Notify(Recommend(run.announced)).severity # "NONE"
           /\ run.announced.score \in 0 .. 100
<1> DEFINE trend == AnalyzeTrend(Primary(run.from), Window)
<1>1. run.announced = StateOf(Primary(run.from), trend, run.plan, run.structured)
  BY DEF Concluded, OperationalState
<1> HIDE DEF trend
<1>2. /\ run.announced.score \in 0 .. 100
      /\ run.plan.priority = "high" => run.announced.risk = "HIGH"
  BY <1>1, StateFacts
<1>3. QED  BY <1>2, RecommendFacts

LEMMA ConfidenceOfRun ==
    ASSUME NEW run, Concluded(run)
    PROVE  run.confidence \in 0 .. 100
<1> DEFINE s == Signals(run.obs, FuelCellProfile)
<1>1. run.confidence = Confidence(run.structured, s.primary)  BY DEF Concluded, ConcludedFrom
<1>2. s.primary = Primary(run.obs)  BY SignalFacts
<1>3. Len(Primary(run.obs)) \in Nat  BY ObsFacts
<1>4. QED  BY <1>1, <1>2, <1>3, ConfidenceIsPercent

(* Only known causes are named, and cooling is not: the fuel flow rises    *)
(* with a falling temperature in the rule, while the primary temperature   *)
(* would have to rise.                                                     *)
LEMMA CausesOfRun ==
    ASSUME NEW run, Concluded(run), NEW i \in DOMAIN run.hypotheses
    PROVE  run.hypotheses[i].kind \in Kinds \ {"cooling_degradation"}
<1> DEFINE s == Signals(run.obs, FuelCellProfile)
           lead == LeadingKind(s, SupportsHydrogen(s, run.obs))
           kinds == <<lead>> \o (IF s.direction = "increasing" /\ Len(s.primary) < ShortHistory
                                 THEN <<"unknown">> ELSE <<>>)
<1>1. run.hypotheses = Supported(kinds, s)  BY DEF Concluded, ConcludedFrom, Hypotheses
<1>2. ~ SupportsCooling(s)
  <2> SUFFICES ASSUME SupportsCooling(s) PROVE FALSE  OBVIOUS
  <2>1. /\ s.primary = Primary(run.obs) /\ s.direction = Direction(Primary(run.obs))
        /\ s.correlations = Correlations(run.obs, FuelCellProfile)
    BY SignalFacts
  <2> HIDE DEF s
  <2>2. PICK pair \in s.correlations : {pair[1], pair[2]} = {"stack_temperature", "fuel_flow"}
    BY DEF SupportsCooling
  <2>3. pair \in FuelCellProfile.correlations /\ Moving(run.obs, pair, "increasing", "decreasing")
    BY <2>1, <2>2 DEF Correlations
  <2>4. pair = <<"fuel_flow", "stack_temperature">>
    <3>1. pair \in {<<"stack_temperature", "stack_pressure">>, <<"current", "voltage">>,
                    <<"fuel_flow", "stack_temperature">>}
      BY <2>3 DEF FuelCellProfile
    <3>2. QED  BY <2>2, <3>1
  <2>5. Direction(OfType(run.obs, "stack_temperature")) = "decreasing"  BY <2>3, <2>4 DEF Moving
  <2>6. run.obs[1].type = "stack_temperature"
    <3>1. s.primary # <<>> /\ s.primary[1].type = "stack_temperature"  BY DEF SupportsCooling
    <3>2. run.obs \in Seq(Reading) /\ run.obs # <<>>  BY ObsFacts
    <3>3. Len(Primary(run.obs)) \in Nat \ {0}  BY <3>2, PrimaryFacts
    <3>4. Primary(run.obs)[1].type = run.obs[1].type  BY <3>2, <3>3, PrimaryFacts
    <3>5. QED  BY <2>1, <3>1, <3>4
  <2>7. Primary(run.obs) = OfType(run.obs, "stack_temperature")  BY <2>6, ObsFacts DEF Primary
  <2>8. s.direction = "increasing"  BY DEF SupportsCooling
  <2>9. QED  BY <2>1, <2>5, <2>7, <2>8
<1>3. lead \in Kinds \ {"cooling_degradation"}  BY <1>2 DEF LeadingKind, Kinds
<1> HIDE DEF lead
<1>4. kinds \in Seq({lead, "unknown"})
  <2>1. <<lead>> \in Seq({lead, "unknown"}) /\ <<"unknown">> \in Seq({lead, "unknown"})
        /\ <<>> \in Seq({lead, "unknown"})
    OBVIOUS
  <2> DEFINE more == IF s.direction = "increasing" /\ Len(s.primary) < ShortHistory
                     THEN <<"unknown">> ELSE <<>>
  <2>2. more \in Seq({lead, "unknown"})  BY <2>1
  <2>3. kinds = <<lead>> \o more  OBVIOUS
  <2> HIDE DEF more, kinds
  <2>4. QED  BY <2>1, <2>2, <2>3, ConcatProperties
<1>5. \A k \in DOMAIN kinds : kinds[k] \in {lead, "unknown"}
  <2> HIDE DEF kinds
  <2>1. QED  BY <1>4
<1> HIDE DEF kinds
<1>6. i \in DOMAIN kinds /\ run.hypotheses[i].kind = kinds[i]  BY <1>1 DEF Supported
<1>7. QED  BY <1>3, <1>5, <1>6 DEF Kinds

(* A run is refused only when the window has dropped readings. *)
LEMMA RefusedByWindow ==
    ASSUME NEW run, Refused(run)
    PROVE  Len(BoundRecent(run.from, Window)) < Len(run.from)
<1> DEFINE b == BoundRecent(run.from, Window)
<1>1. /\ run.from \in Seq(Reading) /\ Ordered(run.from) /\ CanRunReasoning(run.from)
      /\ ~ Analysable(b)
  BY DEF Refused
<1>2. Window \in Nat \ {0}  BY EngineAssumption
<1>3. Len(b) \in Nat /\ Len(run.from) \in Nat  BY <1>1, <1>2, BoundFacts
<1>4. b # run.from  BY <1>1 DEF Analysable, CanRunReasoning
<1>5. ~ (Len(b) >= Len(run.from))  BY <1>1, <1>2, <1>4, FullWindow
<1> HIDE DEF b
<1>6. Len(b) < Len(run.from)  BY <1>3, <1>5
<1>7. QED  BY <1>6 DEF b

----------------------------------------------------------------------------
(* A flat window.                                                          *)

Level0(p) == \A i, j \in 1 .. Len(p) : p[i].value = p[j].value

LEMMA FlatIsLevel ==
    ASSUME NEW p \in Seq(Reading), Flat(p)
    PROVE  Level0(p)
<1> DEFINE V == {p[i].value : i \in DOMAIN p}
           f == [i \in DOMAIN p |-> p[i].value]
<1>1. DOMAIN p = 1 .. Len(p) /\ Len(p) \in Nat  OBVIOUS
<1>2. IsFiniteSet(DOMAIN p)  BY <1>1, FS_Interval
<1>3. f \in Surjection(DOMAIN p, V)
  <2>1. f \in [DOMAIN p -> V]  OBVIOUS
  <2>2. \A x \in V : \E i \in DOMAIN p : f[i] = x  OBVIOUS
  <2> HIDE DEF f, V
  <2>3. QED  BY <2>1, <2>2 DEF Surjection
<1>4. IsFiniteSet(V)
  <2> HIDE DEF f, V
  <2>1. QED  BY <1>2, <1>3, FS_Surjection
<1>5. Cardinality(V) = 1  BY DEF Flat
<1>6. PICK x : V = {x}
  <2> HIDE DEF V
  <2>1. QED  BY <1>4, <1>5, FS_Singleton
<1>7. QED  BY <1>1, <1>6 DEF Level0

LEMMA ValueFacts ==
    ASSUME NEW p \in Seq(Reading)
    PROVE  /\ ValuesOf(p) \in Seq(Int) /\ Len(ValuesOf(p)) = Len(p)
           /\ DOMAIN ValuesOf(p) = 1 .. Len(p)
           /\ \A i \in 1 .. Len(p) : ValuesOf(p)[i] = p[i].value /\ p[i].value \in Int
<1>1. DOMAIN p = 1 .. Len(p) /\ Len(p) \in Nat  OBVIOUS
<1>2. \A i \in 1 .. Len(p) : p[i].value \in Int
  <2> TAKE i \in 1 .. Len(p)
  <2>1. p[i] \in Reading  OBVIOUS
  <2>2. QED  BY <2>1 DEF Reading
<1>3. ValuesOf(p) = [i \in 1 .. Len(p) |-> p[i].value]  BY <1>1 DEF ValuesOf
<1>4. ValuesOf(p) \in [1 .. Len(p) -> Int]  BY <1>2, <1>3
<1>5. ValuesOf(p) \in Seq(Int)  BY <1>1, <1>4, IsASeq
<1>6. Len(ValuesOf(p)) = Len(p)  BY <1>1, <1>3
<1>7. QED  BY <1>2, <1>3, <1>5, <1>6

(* The split-half means of a flat list are equal, and it does not vary. *)
LEMMA LevelIsStable ==
    ASSUME NEW p \in Seq(Reading), Level0(p)
    PROVE  Direction(p) = "stable" /\ Level(p) = "low"
<1> DEFINE v == ValuesOf(p)
           n == Len(v)
           mid == n \div 2
           old == SubSeq(v, 1, mid)
           new == SubSeq(v, n - mid + 1, n)
<1>1. v \in Seq(Int) /\ n = Len(p) /\ n \in Nat  BY ValueFacts
<1>2. \A i, j \in 1 .. n : v[i] = v[j]  BY ValueFacts DEF Level0
<1> HIDE DEF v
<1>3. mid \in Nat /\ mid <= n  BY <1>1
<1> HIDE DEF n
<1> HIDE DEF mid
<1>4. old \in Seq(Int) /\ Len(old) = mid /\ \A k \in 1 .. mid : old[k] = v[k]
  BY <1>1, <1>3 DEF n
<1>5. new \in Seq(Int) /\ Len(new) = mid /\ \A k \in 1 .. mid : new[k] = v[n - mid + k]
  BY <1>1, <1>3 DEF n
<1> HIDE DEF old, new
<1>6. \A k \in 1 .. mid : old[k] = new[k]
  <2> TAKE k \in 1 .. mid
  <2>1. k \in 1 .. n /\ n - mid + k \in 1 .. n  BY <1>1, <1>3
  <2>2. QED  BY <1>2, <1>4, <1>5, <2>1
<1>7. old = new  BY <1>4, <1>5, <1>6, SeqEqual
<1>8. Total(new) - Total(old) = 0
  <2>1. Total(old) \in Int  BY <1>4, TotalFacts
  <2>2. QED  BY <1>7, <2>1
<1>9. Direction(p) = SplitHalf(n, mid, Total(new) - Total(old), n * Squares(v) - Total(v) * Total(v))
  BY DEF Direction, v, n, mid, old, new
<1>10. Direction(p) = "stable"  BY <1>8, <1>9 DEF SplitHalf
<1>11. Level(p) = "low"
  <2> DEFINE values == {v[i] : i \in DOMAIN v}
  <2>1. CASE n >= MinSamples
    <3>1. 1 \in 1 .. n  BY <1>1, <2>1, EngineAssumption
    <3>2. v[1] \in Int /\ DOMAIN v = 1 .. n  BY <1>1, <3>1 DEF n
    <3>3. values = {v[1]}  BY <1>2, <3>1, <3>2
    <3>4. Max({v[1]}) = v[1] /\ Min({v[1]}) = v[1]  BY DEF Max, Min
    <3>5. ~ (Max(values) - Min(values) > HighVariation)
      <4> HIDE DEF values
      <4>1. QED  BY <3>2, <3>3, <3>4, EngineAssumption
    <3>6. QED  BY <3>5 DEF Level, v
  <2>2. CASE ~ (n >= MinSamples)  BY <2>2 DEF Level, v, n
  <2>3. QED  BY <2>1, <2>2
<1>12. QED  BY <1>10, <1>11

(* The trend of a flat list is steady. *)
Steady(trend) ==
    trend.direction = "stable" /\ trend.volatility = 0 /\ trend.stability \in {50, 100}

LEMMA LevelIsSteady ==
    ASSUME NEW p \in Seq(Reading), Level0(Recent(p, Window))
    PROVE  Steady(AnalyzeTrend(p, Window))
<1> DEFINE r == Recent(p, Window)
<1>1. Window \in Nat  BY EngineAssumption
<1>2. r \in Seq(Reading)  BY <1>1, RecentFacts
<1> HIDE DEF r
<1>3. CASE Len(r) < MinSamples
  <2>1. AnalyzeTrend(p, Window) = NoTrend  BY <1>3 DEF AnalyzeTrend, r
  <2>2. QED  BY <2>1 DEF NoTrend, Steady
<1>4. CASE ~ (Len(r) < MinSamples)
  <2> DEFINE v == ValuesOf(r)
             d == Deltas(v)
             m == Len(v) - 1
             sq == [i \in DOMAIN d |-> d[i] * d[i]]
  <2>1. AnalyzeTrend(p, Window) = MeasuredSteps(d, Total(d))  BY <1>4 DEF AnalyzeTrend, r, ComputeSignals
  <2>2. v \in Seq(Int) /\ Len(v) = Len(r) /\ Len(r) \in Nat  BY <1>2, ValueFacts
  <2>3. \A i, j \in 1 .. Len(v) : v[i] = v[j]
    BY <1>2, ValueFacts DEF Level0, r
  <2> HIDE DEF v
  <2>4. m \in Nat  BY <1>4, <2>2, EngineAssumption
  <2>5. d = [i \in 1 .. m |-> 0]
    <3>1. ASSUME NEW i \in 1 .. m PROVE v[i + 1] - v[i] = 0
      <4>1. i \in 1 .. Len(v) /\ i + 1 \in 1 .. Len(v)  BY <2>2, <2>4
      <4>2. v[i] \in Int /\ v[i + 1] = v[i]  BY <2>2, <2>3, <4>1
      <4>3. QED  BY <4>2
    <3>2. QED  BY <3>1 DEF Deltas
  <2> HIDE DEF m, d
  <2>6. d \in [1 .. m -> Int]  BY <2>5
  <2>7. d \in Seq(Int) /\ Len(d) = m /\ DOMAIN d = 1 .. m  BY <2>4, <2>5, <2>6, IsASeq
  <2>8. \A i \in 1 .. Len(d) : d[i] = 0  BY <2>5, <2>7
  <2>9. Total(d) = 0  BY <2>7, <2>8, TotalFacts
  <2>10. sq = [i \in 1 .. m |-> 0]  BY <2>5, <2>7
  <2> HIDE DEF sq
  <2>11. sq \in [1 .. m -> Int]  BY <2>10
  <2>12. sq \in Seq(Int) /\ Len(sq) = m  BY <2>4, <2>10, <2>11, IsASeq
  <2>13. \A i \in 1 .. Len(sq) : sq[i] = 0  BY <2>10, <2>12
  <2>14. Squares(d) = 0
    <3>1. Total(sq) = 0  BY <2>12, <2>13, TotalFacts
    <3>2. QED  BY <3>1 DEF Squares, sq
  <2>15. Len(d) * Squares(d) - 0 * 0 = 0  BY <2>4, <2>7, <2>14
  <2>16. Aligned(d, "stable") = 100
    <3>1. {i \in DOMAIN d : d[i] # 0} = {}  BY <2>7, <2>8
    <3>2. Cardinality({i \in DOMAIN d : d[i] # 0}) = 0  BY <3>1, FS_EmptySet
    <3>3. QED  BY <3>2 DEF Aligned
  <2>17. VolatilityScore(0, 0) = 0 /\ NetDirection(0) = "stable"  BY DEF VolatilityScore, NetDirection
  <2>18. StabilityScore(100, 0) = 100  BY DEF StabilityScore
  <2>19. MeasuredSteps(d, 0) = SignalsOfSteps(d, "stable", 0, 100)
    BY <2>15, <2>16, <2>17, <2>18 DEF MeasuredSteps, SteadySteps
  <2>20. QED  BY <2>1, <2>9, <2>19 DEF SignalsOfSteps, Steady
<1>5. QED  BY <1>3, <1>4

LEMMA SteadyIsNormal ==
    ASSUME NEW primary, NEW trend, NEW plan, NEW a, NEW state, state = StateOf(primary, trend, plan, a),
           Steady(trend), plan.priority = "low", ~ a.contradictions, ~ a.unexpected
    PROVE  state.health = "NORMAL" /\ state.risk = "LOW"
<1>1. HealthScore("low", trend, a) \in {90, 95}
  <2>1. ~ Sustained(trend)  BY DEF Sustained, Steady
  <2>2. Clamp(90, 0, 100) = 90 /\ Clamp(95, 0, 100) = 95  BY ClampIsPercent
  <2>3. CASE trend.stability = 50
    <3>1. HealthScore("low", trend, a) = Clamp(90, 0, 100)
      BY <2>1, <2>3 DEF HealthScore, Steady
    <3>2. QED  BY <2>2, <3>1
  <2>4. CASE trend.stability = 100
    <3>1. HealthScore("low", trend, a) = Clamp(95, 0, 100)
      BY <2>1, <2>4 DEF HealthScore, Steady
    <3>2. QED  BY <2>2, <3>1
  <2>5. QED  BY <2>3, <2>4 DEF Steady
<1>2. /\ state.score = HealthScore("low", trend, a) /\ state.health = HealthStatus(state.score)
      /\ state.risk = RiskLevel("low", state.health)
  BY StateFacts
<1>3. state.health = "NORMAL"  BY <1>1, <1>2 DEF HealthStatus
<1>4. QED  BY <1>2, <1>3 DEF RiskLevel

(* A settled asset: every type that has ever reported is flat in the       *)
(* window, the primary type of all readings too.                           *)
LEMMA SettledRun ==
    ASSUME NEW run, Concluded(run),
           \A i \in DOMAIN run.obs : Flat(OfType(run.obs, run.obs[i].type))
    PROVE  /\ run.plan.priority = "low"
           /\ run.announced.health = "NORMAL" /\ run.announced.risk = "LOW"
<1>1. /\ run.from \in Seq(Reading) /\ Ordered(run.from)
      /\ run.obs = BoundRecent(run.from, Window)
      /\ run.announced = OperationalState(run.from, run.plan, run.structured)
  BY DEF Concluded
<1>2. Window \in Nat \ {0}  BY EngineAssumption
<1>3. run.obs # <<>> /\ run.from # <<>> /\ run.obs \in Seq(Reading)  BY ObsFacts
<1>4. run.plan.priority = "low"
  <2>1. 1 \in DOMAIN run.obs  BY <1>3
  <2>2. Primary(run.obs) = OfType(run.obs, run.obs[1].type) /\ Primary(run.obs) \in Seq(Reading)
    BY <1>3, PrimaryFacts
  <2>3. Level0(Primary(run.obs))  BY <2>1, <2>2, FlatIsLevel
  <2>4. Direction(Primary(run.obs)) = "stable" /\ Level(Primary(run.obs)) = "low"
    BY <2>2, <2>3, LevelIsStable
  <2>5. QED  BY <2>4, RunFacts
<1>5. Steady(AnalyzeTrend(Primary(run.from), Window))
  <2> DEFINE t == run.from[1].type
  <2>1. Primary(run.from) = OfType(run.from, t) /\ Primary(run.from) \in Seq(Reading)
    BY <1>1, <1>3, PrimaryFacts
  <2>2. 1 \in 1 .. Len(run.from)  BY <1>1, <1>3
  <2>a. \A i \in 1 .. Len(run.from) : \E k \in 1 .. Len(run.obs) :
          run.obs[k].type = run.from[i].type
    BY <1>1, <1>2, BoundFacts DEF KeepsTypes
  <2>3. PICK k \in 1 .. Len(run.obs) : run.obs[k].type = t  BY <2>2, <2>a
  <2>4. Flat(OfType(run.obs, t))  BY <1>3, <2>3
  <2>5. OfType(run.obs, t) \in Seq(Reading)  BY <1>3, OfTypeFacts
  <2>6. Level0(OfType(run.obs, t))  BY <2>4, <2>5, FlatIsLevel
  <2>7. OfType(run.obs, t) = Recent(Primary(run.from), Window)  BY <1>1, <1>2, <2>1, WindowOfType
  <2>8. QED  BY <2>1, <2>6, <2>7, LevelIsSteady
<1>6. run.announced = StateOf(Primary(run.from), AnalyzeTrend(Primary(run.from), Window),
                              run.plan, run.structured)
  BY <1>1 DEF OperationalState
<1>7. ~ run.structured.contradictions /\ ~ run.structured.unexpected  BY RunFacts
<1> DEFINE trend == AnalyzeTrend(Primary(run.from), Window)
           primary == Primary(run.from)
           plan == run.plan
           a == run.structured
           state == run.announced
<1>a. /\ state = StateOf(primary, trend, plan, a) /\ Steady(trend) /\ plan.priority = "low"
      /\ ~ a.contradictions /\ ~ a.unexpected
  BY <1>4, <1>5, <1>6, <1>7
<1>8. run.announced.health = "NORMAL" /\ run.announced.risk = "LOW"
  <2> HIDE DEF trend, primary, plan, a, state
  <2>1. state.health = "NORMAL" /\ state.risk = "LOW"  BY <1>a, SteadyIsNormal
  <2>2. QED  BY <2>1 DEF state
<1>9. QED  BY <1>4, <1>8

----------------------------------------------------------------------------
(* The details of a run.                                                   *)

(* The pair of types that the default rules relate is not reported.        *)
DefaultPairUnreported == ~ ({"temperature", "pressure"} \subseteq Types)

LEMMA DefaultSignals ==
    ASSUME DefaultPairUnreported, NEW obs \in Seq(Reading), NEW s, s = Signals(obs, DefaultProfile)
    PROVE  /\ s.primary = Primary(obs)
           /\ s.direction = Direction(Primary(obs)) /\ s.level = Level(Primary(obs))
           /\ s.correlations = {} /\ s.contradictions = {} /\ s.expectation = "none"
<1> DEFINE pair == <<"temperature", "pressure">>
<1>1. /\ s.primary = Primary(obs)
      /\ s.direction = Direction(Primary(obs)) /\ s.level = Level(Primary(obs))
      /\ s.correlations = Correlations(obs, DefaultProfile)
      /\ s.contradictions = Contradictions(obs, DefaultProfile)
      /\ s.expectation = Expectation(DefaultProfile, s.correlations, s.contradictions)
  BY DEF Signals, SignalsWith
<1>2. ASSUME NEW type, type \notin Types PROVE ~ (Len(OfType(obs, type)) >= 2)
  <2> SUFFICES ASSUME Len(OfType(obs, type)) >= 2 PROVE FALSE  OBVIOUS
  <2>1. Len(OfType(obs, type)) \in Nat  BY OfTypeFacts
  <2>2. 1 \in 1 .. Len(OfType(obs, type))  BY <2>1
  <2>3. PICK i \in 1 .. Len(obs) : obs[i].type = type  BY <2>2, OfTypeFacts
  <2>4. obs[i] \in Reading  OBVIOUS
  <2>5. QED  BY <1>2, <2>3, <2>4 DEF Reading
<1>3. ASSUME NEW first, NEW second PROVE ~ Moving(obs, pair, first, second)
  <2>1. 1 \in 1 .. 2 /\ 2 \in 1 .. 2 /\ pair[1] = "temperature" /\ pair[2] = "pressure"  OBVIOUS
  <2>2. "temperature" \notin Types \/ "pressure" \notin Types  BY DEF DefaultPairUnreported
  <2> HIDE DEF pair
  <2>3. QED  BY <1>2, <2>1, <2>2 DEF Moving
<1>4. DefaultProfile.correlations = {pair} /\ DefaultProfile.contradictions = {pair}
      /\ DefaultProfile.expects = FALSE
  BY DEF DefaultProfile
<1> HIDE DEF pair
<1>5. Correlations(obs, DefaultProfile) = {}  BY <1>3, <1>4 DEF Correlations
<1>6. Contradictions(obs, DefaultProfile) = {}  BY <1>3, <1>4 DEF Contradictions
<1>7. Expectation(DefaultProfile, {}, {}) = "none"  BY <1>4 DEF Expectation
<1>8. QED  BY <1>1, <1>5, <1>6, <1>7

LEMMA SameConfidence ==
    ASSUME NEW a, NEW b, NEW primary, a.direction = b.direction, a.level = b.level,
           ~ a.contradictions, ~ b.contradictions, ~ a.unexpected, ~ b.unexpected
    PROVE  Confidence(a, primary) = Confidence(b, primary)
  BY DEF Confidence

LEMMA DecisionFacts ==
    ASSUME NEW words, NEW primary, NEW trend, NEW plan, NEW a, Len(primary) \in Nat, Len(primary) >= 2,
           primary # <<>>, NEW e, e = Explain(words, primary, trend, plan, a)
    PROVE  /\ e.outcome = "stabilise" <=> "increasing" \in words \/ plan.priority = "high"
           /\ Head(e.alternatives) = "sensor_drift" <=> a.level = "high" \/ a.contradictions
           /\ Len(e.evidence) = 5
<1>1. /\ e.outcome = ExpectedOutcome(words, plan.priority)
      /\ e.alternatives = Alternatives(words, a, primary)
      /\ e.evidence = LegacyEvidence(primary)
  BY DEF Explain
<1>2. ExpectedOutcome(words, plan.priority) = "stabilise"
        <=> "increasing" \in words \/ plan.priority = "high"
  BY DEF ExpectedOutcome
<1>3. Head(Alternatives(words, a, primary)) = "sensor_drift" <=> a.level = "high" \/ a.contradictions
  <2> DEFINE first == IF a.level = "high" \/ a.contradictions THEN "sensor_drift" ELSE "temporary_overload"
             more == IF "increasing" \in words /\ Len(primary) < ShortHistory
                     THEN <<"mode_transition">> ELSE <<>>
  <2>1. Alternatives(words, a, primary) = <<first>> \o more  BY DEF Alternatives
  <2> DEFINE T == {"sensor_drift", "temporary_overload", "mode_transition"}
  <2>2. more \in Seq(T) /\ first \in T
    <3>1. <<"mode_transition">> \in Seq(T) /\ <<>> \in Seq(T)  OBVIOUS
    <3>2. more = <<"mode_transition">> \/ more = <<>>  OBVIOUS
    <3>3. first \in T  OBVIOUS
    <3> HIDE DEF more, first
    <3>4. QED  BY <3>1, <3>2, <3>3
  <2>3. first = "sensor_drift" <=> a.level = "high" \/ a.contradictions  OBVIOUS
  <2> HIDE DEF first, more
  <2>4. Head(<<first>> \o more) = first  BY <2>2
  <2>5. QED  BY <2>1, <2>3, <2>4
<1>4. Len(LegacyEvidence(primary)) = 5
  BY DEF LegacyEvidence
<1>5. QED  BY <1>1, <1>2, <1>3, <1>4

LEMMA DetailsOfRun ==
    ASSUME DefaultPairUnreported, NEW run, Concluded(run)
    PROVE  Agree(RunDetails(run), run)
<1> DEFINE s == Signals(run.obs, DefaultProfile)
           words == Words(run.assessment.direction, run.assessment.level)
           d == RunDetails(run)
           p == Primary(run.obs)
<1>1. run.obs \in Seq(Reading) /\ run.obs # <<>> /\ Len(p) \in Nat /\ Len(p) >= 2  BY ObsFacts
<1>2. /\ s.primary = p /\ s.direction = run.structured.direction /\ s.level = run.structured.level
      /\ s.correlations = {} /\ s.contradictions = {} /\ s.expectation = "none"
  BY <1>1, DefaultSignals, RunFacts
<1>3. /\ d.structured = StructuredAssessment(s) /\ d.confidence = Confidence(d.structured, s.primary)
      /\ d.decision = ExplainableDecision(words, run.obs, run.plan, run.structured)
  BY DEF RunDetails, Explanation
<1> HIDE DEF d, s
<1>4. /\ d.structured.direction = run.structured.direction
      /\ d.structured.level = run.structured.level
  BY <1>2, <1>3 DEF StructuredAssessment
<1>5. /\ d.structured.contradictions = (s.contradictions # {})
      /\ d.structured.correlations = (s.correlations # {})
      /\ d.structured.unexpected = (s.expectation = "unexpected")
  BY <1>3 DEF StructuredAssessment
<1>6. ~ d.structured.contradictions /\ ~ d.structured.correlations /\ ~ d.structured.unexpected
  BY <1>2, <1>5
<1>7. ~ run.structured.contradictions /\ ~ run.structured.unexpected  BY RunFacts
<1>8. d.confidence >= run.confidence
  <2>1. run.confidence = Confidence(run.structured, p)
    <3>1. run.confidence = Confidence(run.structured, Signals(run.obs, FuelCellProfile).primary)
      BY DEF Concluded, ConcludedFrom
    <3>2. Signals(run.obs, FuelCellProfile).primary = p  BY SignalFacts
    <3>3. QED  BY <3>1, <3>2
  <2>2. d.confidence = Confidence(d.structured, p)  BY <1>2, <1>3
  <2>3. Confidence(d.structured, p) = Confidence(run.structured, p)
    BY <1>4, <1>6, <1>7, SameConfidence
  <2>4. run.confidence \in 0 .. 100  BY ConfidenceOfRun
  <2>5. QED  BY <2>1, <2>2, <2>3, <2>4
<1>9. /\ d.decision.outcome = "stabilise" <=> "increasing" \in words \/ run.plan.priority = "high"
      /\ Head(d.decision.alternatives) = "sensor_drift"
           <=> run.structured.level = "high" \/ run.structured.contradictions
      /\ Len(d.decision.evidence) = 5
  <2>1. d.decision = Explain(words, p, AnalyzeTrend(p, Window), run.plan, run.structured)
    BY <1>3 DEF ExplainableDecision
  <2>2. p # <<>>  BY <1>1
  <2> HIDE DEF words, p
  <2>3. QED  BY <1>1, <2>1, <2>2, DecisionFacts
<1>10. "increasing" \in words => run.plan.priority = "high"
  <2>1. run.assessment.direction \in Direct /\ run.assessment.level \in {"high", "low"}
        /\ run.assessment.direction = run.structured.direction
    BY RunFacts
  <2>2. "increasing" \in words => run.structured.direction = "increasing"  BY <2>1, WordFacts
  <2>3. QED  BY <2>2, RunFacts
<1> HIDE DEF words, p
<1>11. (d.decision.outcome = "stabilise") = (run.plan.priority = "high")  BY <1>9, <1>10
<1>12. (Head(d.decision.alternatives) = "sensor_drift") = (run.structured.level = "high")
  BY <1>7, <1>9
<1>13. d.structured.correlations => run.structured.correlations  BY <1>6
<1>14. QED  BY <1>4, <1>8, <1>9, <1>11, <1>12, <1>13 DEF Agree, d

----------------------------------------------------------------------------
(* Lists of events.                                                        *)

IsList(s) == Len(s) \in Nat /\ s = [i \in 1 .. Len(s) |-> s[i]]

Elems(s) == {s[i] : i \in 1 .. Len(s)}

LEMMA JoinFacts ==
    ASSUME NEW s, NEW t, IsList(s), IsList(t)
    PROVE  /\ IsList(s \o t) /\ Len(s \o t) = Len(s) + Len(t)
           /\ \A i \in 1 .. Len(s \o t) : (s \o t)[i] = IF i <= Len(s) THEN s[i] ELSE t[i - Len(s)]
           /\ Elems(s \o t) = Elems(s) \cup Elems(t)
<1> DEFINE T == Elems(s) \cup Elems(t)
           u == s \o t
<1>1. s \in [1 .. Len(s) -> T] /\ t \in [1 .. Len(t) -> T]  BY DEF IsList, Elems
<1>2. Len(s) \in Nat /\ Len(t) \in Nat  BY DEF IsList
<1> HIDE DEF T
<1>3. s \in Seq(T) /\ t \in Seq(T)  BY <1>1, <1>2, IsASeq
<1>4. /\ u \in Seq(T) /\ Len(u) = Len(s) + Len(t)
      /\ \A i \in 1 .. Len(u) : u[i] = IF i <= Len(s) THEN s[i] ELSE t[i - Len(s)]
  BY <1>3, ConcatProperties
<1> HIDE DEF u
<1>5. IsList(u)  BY <1>4 DEF IsList
<1>6. Elems(u) \subseteq T
  <2>1. \A i \in 1 .. Len(u) : u[i] \in T  BY <1>4
  <2>2. QED  BY <2>1 DEF Elems
<1>7. Elems(s) \subseteq Elems(u)
  <2>1. ASSUME NEW i \in 1 .. Len(s) PROVE i \in 1 .. Len(u) /\ u[i] = s[i]
    BY <1>2, <1>4
  <2>2. QED  BY <2>1 DEF Elems
<1>8. Elems(t) \subseteq Elems(u)
  <2>1. ASSUME NEW i \in 1 .. Len(t) PROVE \E k \in 1 .. Len(u) : u[k] = t[i]
    <3>1. i + Len(s) \in 1 .. Len(u) /\ ~ (i + Len(s) <= Len(s)) /\ i + Len(s) - Len(s) = i
      BY <1>2, <1>4
    <3>2. u[i + Len(s)] = t[i]  BY <1>4, <3>1
    <3>3. QED  BY <3>1, <3>2
  <2>2. QED  BY <2>1 DEF Elems
<1>9. QED  BY <1>4, <1>5, <1>6, <1>7, <1>8 DEF u, T

LEMMA OneFacts ==
    ASSUME NEW e
    PROVE  IsList(<<e>>) /\ Elems(<<e>>) = {e}
<1>1. Len(<<e>>) = 1 /\ <<e>>[1] = e  OBVIOUS
<1>2. 1 .. 1 = {1}  OBVIOUS
<1>3. <<e>> = [i \in 1 .. 1 |-> <<e>>[i]]  OBVIOUS
<1>4. QED  BY <1>1, <1>2, <1>3 DEF IsList, Elems

LEMMA NoneFacts == IsList(<<>>) /\ Elems(<<>>) = {}
<1>1. Len(<<>>) = 0 /\ 1 .. 0 = {}  OBVIOUS
<1>2. <<>> = [i \in 1 .. 0 |-> <<>>[i]]  OBVIOUS
<1>3. QED  BY <1>1, <1>2 DEF IsList, Elems

LEMMA IfFacts ==
    ASSUME NEW cond \in BOOLEAN, NEW e
    PROVE  IsList(If(cond, e)) /\ Elems(If(cond, e)) = {x \in {e} : cond}
<1>1. CASE cond
  <2>1. If(cond, e) = <<e>>  BY <1>1 DEF If
  <2>2. QED  BY <1>1, <2>1, OneFacts
<1>2. CASE ~ cond
  <2>1. If(cond, e) = <<>>  BY <1>2 DEF If
  <2>2. QED  BY <1>2, <2>1, NoneFacts
<1>3. QED  BY <1>1, <1>2

LEMMA AppendFacts ==
    ASSUME NEW s, IsList(s), NEW e
    PROVE  /\ IsList(Append(s, e)) /\ Len(Append(s, e)) = Len(s) + 1
           /\ \A i \in 1 .. Len(s) : Append(s, e)[i] = s[i]
           /\ Append(s, e)[Len(s) + 1] = e
<1> DEFINE T == Elems(s) \cup {e}
           u == Append(s, e)
<1>1. s \in [1 .. Len(s) -> T] /\ Len(s) \in Nat /\ e \in T  BY DEF IsList, Elems
<1> HIDE DEF T
<1>2. s \in Seq(T)  BY <1>1, IsASeq
<1>3. u \in Seq(T) /\ Len(u) = Len(s) + 1  BY <1>1, <1>2
<1>4. (\A i \in 1 .. Len(s) : u[i] = s[i]) /\ u[Len(s) + 1] = e  BY <1>1, <1>2
<1> HIDE DEF u
<1>5. IsList(u)  BY <1>1, <1>3 DEF IsList
<1>6. QED  BY <1>3, <1>4, <1>5 DEF u

LEMMA ListDomain ==
    ASSUME NEW s, IsList(s)
    PROVE  Len(s) \in Nat /\ DOMAIN s = 1 .. Len(s)
  BY DEF IsList

(* The events of a kind that a run writes. *)
OfKind(s, kind) == {e \in Elems(s) : e.kind = kind}

(* What a run of an asset may tell: its events are its own, those of the    *)
(* state say what changed, and a notification is new.                       *)
Tells(ev, a, run, old, new) ==
    /\ IsList(ev)
    /\ \A e \in Elems(ev) : e.asset = a /\ e.run = run
    /\ OfKind(ev, "HealthChanged") =
         {e \in {Event(a, run, "HealthChanged", old.health, new.health)} :
            old # NoState /\ old.health # new.health}
    /\ OfKind(ev, "RiskChanged") =
         {e \in {Event(a, run, "RiskChanged", old.risk, new.risk)} :
            old # NoState /\ old.risk # new.risk}
    /\ OfKind(ev, "NotificationCreated") =
         {e \in {Event(a, run, "NotificationCreated", "", Notify(Recommend(new)).id)} :
            /\ Notify(Recommend(new)).severity # "NONE"
            /\ Notify(Recommend(new)) # PreviousNotification(a)}

LEMMA RunEventFacts ==
    ASSUME NEW a, NEW run, NEW result, NEW obs, NEW old, NEW new, NEW ev,
           ev = RunEvents(a, run, result, obs, old, new)
    PROVE  Tells(ev, a, run, old, new)
<1> DEFINE advice == PreviousRecommendation(a)
           notice == Notify(Recommend(new))
           c2 == TrendChanged(obs)
           c3 == advice # "none" /\ advice # result.plan.recommendation
           c4 == old # NoState /\ old.health # new.health
           c5 == old # NoState /\ old.risk # new.risk
           c6 == notice.severity # "NONE" /\ notice # PreviousNotification(a)
           e1 == Event(a, run, "ReasoningStarted", "", "")
           e2 == Event(a, run, "TrendChanged", "", "")
           e3 == Event(a, run, "RecommendationUpdated", advice, result.plan.recommendation)
           e4 == Event(a, run, "HealthChanged", old.health, new.health)
           e5 == Event(a, run, "RiskChanged", old.risk, new.risk)
           e6 == Event(a, run, "NotificationCreated", "", notice.id)
           e7 == Event(a, run, "ReasoningCompleted", "", "")
           l45 == If(c4, e4) \o If(c5, e5)
           m2 == <<e1>> \o If(c2, e2)
           m3 == m2 \o If(c3, e3)
           m5 == m3 \o l45
           m6 == m5 \o If(c6, e6)
<1>1. ev = m6 \o <<e7>>  BY DEF RunEvents, Transitions
<1>2. c2 \in BOOLEAN /\ c3 \in BOOLEAN /\ c4 \in BOOLEAN /\ c5 \in BOOLEAN /\ c6 \in BOOLEAN
  BY DEF TrendChanged, Turned
<1>3a. e1.asset = a /\ e1.run = run /\ e1.kind = "ReasoningStarted"  BY DEF Event
<1>3b. e2.asset = a /\ e2.run = run /\ e2.kind = "TrendChanged"  BY DEF Event
<1>3c. e3.asset = a /\ e3.run = run /\ e3.kind = "RecommendationUpdated"  BY DEF Event
<1>3d. e4.asset = a /\ e4.run = run /\ e4.kind = "HealthChanged"  BY DEF Event
<1>3e. e5.asset = a /\ e5.run = run /\ e5.kind = "RiskChanged"  BY DEF Event
<1>3f. e6.asset = a /\ e6.run = run /\ e6.kind = "NotificationCreated"  BY DEF Event
<1>3g. e7.asset = a /\ e7.run = run /\ e7.kind = "ReasoningCompleted"  BY DEF Event
<1> HIDE DEF c2, c3, c4, c5, c6, e1, e2, e3, e4, e5, e6, e7
<1>4. IsList(l45) /\ Elems(l45) = {x \in {e4} : c4} \cup {x \in {e5} : c5}
  BY <1>2, IfFacts, JoinFacts
<1>5. IsList(m2) /\ Elems(m2) = {e1} \cup {x \in {e2} : c2}
  BY <1>2, IfFacts, OneFacts, JoinFacts
<1> HIDE DEF l45, m2
<1>6. IsList(m3) /\ Elems(m3) = Elems(m2) \cup {x \in {e3} : c3}
  BY <1>2, <1>5, IfFacts, JoinFacts
<1> HIDE DEF m3
<1>7. IsList(m5) /\ Elems(m5) = Elems(m3) \cup Elems(l45)
  BY <1>4, <1>6, JoinFacts
<1> HIDE DEF m5
<1>8. IsList(m6) /\ Elems(m6) = Elems(m5) \cup {x \in {e6} : c6}
  BY <1>2, <1>7, IfFacts, JoinFacts
<1> HIDE DEF m6
<1>9. IsList(ev) /\ Elems(ev) = Elems(m6) \cup {e7}
  BY <1>1, <1>8, OneFacts, JoinFacts
<1>10. Elems(ev) = {e1} \cup {x \in {e2} : c2} \cup {x \in {e3} : c3} \cup {x \in {e4} : c4}
                     \cup {x \in {e5} : c5} \cup {x \in {e6} : c6} \cup {e7}
  BY <1>4, <1>5, <1>6, <1>7, <1>8, <1>9
<1>11. \A e \in Elems(ev) : e.asset = a /\ e.run = run
  BY <1>3a, <1>3b, <1>3c, <1>3d, <1>3e, <1>3f, <1>3g, <1>10
<1>12. /\ OfKind(ev, "HealthChanged") = {x \in {e4} : c4}
       /\ OfKind(ev, "RiskChanged") = {x \in {e5} : c5}
       /\ OfKind(ev, "NotificationCreated") = {x \in {e6} : c6}
  BY <1>3a, <1>3b, <1>3c, <1>3d, <1>3e, <1>3f, <1>3g, <1>10 DEF OfKind
<1>13. QED  BY <1>9, <1>11, <1>12 DEF Tells, e4, e5, e6, c4, c5, c6

----------------------------------------------------------------------------
(* The invariant of the pipeline.                                          *)

(* The types; what is stored is in order, and older than now. *)
ReadingsInv ==
    /\ time \in 0 .. MaxClock
    /\ DOMAIN readings = Assets
    /\ \A a \in Assets :
         /\ readings[a] \in Seq(Reading) /\ Ordered(readings[a])
         /\ \A i \in 1 .. Len(readings[a]) : readings[a][i].at \in 1 .. time

(* Every run is what a session or its failure stores. *)
RunsInv ==
    /\ IsList(runs)
    /\ \A n \in 1 .. Len(runs) : Concluded(runs[n]) \/ Refused(runs[n])

(* An asset with a run has readings. *)
KnownInv == \A n \in 1 .. Len(runs) : readings[runs[n].asset] # <<>>

PipelineInv == ReadingsInv /\ RunsInv /\ KnownInv

(* What a report adds. *)
Reported(sample) == Kept(TypeOrder, {i \in DOMAIN TypeOrder : TypeOrder[i] \in DOMAIN sample})

LEMMA ReportedFacts ==
    ASSUME NEW sample
    PROVE  /\ Reported(sample) \in Seq(STRING) /\ Len(Reported(sample)) \in Nat
           /\ \A k \in 1 .. Len(Reported(sample)) : Reported(sample)[k] \in Types \cap DOMAIN sample
           /\ \A j, k \in 1 .. Len(Reported(sample)) :
                Reported(sample)[j] = Reported(sample)[k] => j = k
<1> DEFINE I == {i \in DOMAIN TypeOrder : TypeOrder[i] \in DOMAIN sample}
           q == Reported(sample)
<1>1. /\ TypeOrder \in Seq(STRING) /\ Len(TypeOrder) \in Nat /\ DOMAIN TypeOrder = 1 .. Len(TypeOrder)
      /\ \A i, j \in DOMAIN TypeOrder : TypeOrder[i] = TypeOrder[j] => i = j
  BY EngineAssumption
<1>2. I \subseteq 1 .. Len(TypeOrder)  BY <1>1
<1>3. q = Kept(TypeOrder, I)  BY DEF Reported
<1>4. Lists(q, TypeOrder, I)
  <2> HIDE DEF I, q
  <2>1. QED  BY <1>1, <1>2, <1>3, KeptLists
<1>5. q \in Seq(STRING) /\ Len(q) \in Nat
  <2> HIDE DEF I, q
  <2>1. QED  BY <1>1, <1>2, <1>4, ListFacts
<1>6. PICK e : Enumerates(e, Len(q), I) /\ q = [k \in 1 .. Len(q) |-> TypeOrder[e[k]]]
  BY <1>4 DEF Lists
<1> HIDE DEF q
<1>7. ASSUME NEW k \in 1 .. Len(q)
      PROVE  e[k] \in I /\ e[k] \in DOMAIN TypeOrder /\ e[k] \in Nat /\ q[k] = TypeOrder[e[k]]
  BY <1>1, <1>6 DEF Enumerates
<1>8. ASSUME NEW k \in 1 .. Len(q) PROVE q[k] \in Types \cap DOMAIN sample
  <2>1. q[k] = TypeOrder[e[k]] /\ e[k] \in DOMAIN TypeOrder /\ TypeOrder[e[k]] \in DOMAIN sample
    BY <1>7
  <2>2. QED  BY <2>1 DEF Types
<1>9. ASSUME NEW j \in 1 .. Len(q), NEW k \in 1 .. Len(q), q[j] = q[k] PROVE j = k
  <2>1. e[j] = e[k] /\ e[j] \in Nat  BY <1>1, <1>7, <1>9
  <2>2. ~ (j < k) /\ ~ (k < j)
    <3>1. j < k => e[j] < e[k]  BY <1>6 DEF Enumerates
    <3>2. k < j => e[k] < e[j]  BY <1>6 DEF Enumerates
    <3>3. QED  BY <2>1, <3>1, <3>2
  <2>3. QED  BY <1>5, <2>2
<1>10. QED  BY <1>5, <1>8, <1>9 DEF q

LEMMA ObserveReadings ==
    ASSUME ReadingsInv, NEW a \in Assets, NEW sample \in Samples, Observe(a, sample)
    PROVE  ReadingsInv' /\ \A b \in Assets : readings[b] # <<>> => readings'[b] # <<>>
<1> DEFINE types == Reported(sample)
           new == [i \in DOMAIN types |-> [type |-> types[i], at |-> time + 1, value |-> sample[types[i]]]]
           old == readings[a]
<1>1. /\ time' = time + 1 /\ time < MaxClock
      /\ readings' = [readings EXCEPT ![a] = readings[a] \o new]
  BY DEF Observe, Reported
<1>2. /\ time \in Nat /\ time' \in 0 .. MaxClock /\ MaxClock \in Nat
      /\ old \in Seq(Reading) /\ Ordered(old) /\ Len(old) \in Nat
      /\ \A i \in 1 .. Len(old) : old[i].at \in 1 .. time
  BY <1>1, PipelineAssumption DEF ReadingsInv
<1>3. /\ types \in Seq(STRING) /\ Len(types) \in Nat
      /\ \A k \in 1 .. Len(types) : types[k] \in Types \cap DOMAIN sample
      /\ \A j, k \in 1 .. Len(types) : types[j] = types[k] => j = k
  BY ReportedFacts
<1> HIDE DEF types
<1>4. /\ new \in Seq(Reading) /\ Len(new) = Len(types)
      /\ \A k \in 1 .. Len(types) : new[k].type = types[k] /\ new[k].at = time + 1
  <2>1. DOMAIN types = 1 .. Len(types)  BY <1>3
  <2>2. ASSUME NEW k \in 1 .. Len(types)
        PROVE  new[k] \in Reading /\ new[k].type = types[k] /\ new[k].at = time + 1
    <3>1. new[k] = [type |-> types[k], at |-> time + 1, value |-> sample[types[k]]]  BY <2>1
    <3>2. sample[types[k]] \in Int  BY <1>3, PipelineAssumption
    <3>3. types[k] \in Types /\ time + 1 \in Nat  BY <1>2, <1>3
    <3>4. QED  BY <3>1, <3>2, <3>3 DEF Reading
  <2>3. DOMAIN new = 1 .. Len(types)  BY <2>1
  <2>4. new = [k \in 1 .. Len(types) |-> new[k]]  BY <2>1
  <2> HIDE DEF new
  <2>5. new \in [1 .. Len(types) -> Reading]  BY <2>2, <2>4
  <2>6. new \in Seq(Reading)  BY <1>3, <2>5, IsASeq
  <2>7. Len(new) = Len(types)  BY <1>3, <2>3, <2>6
  <2>8. QED  BY <2>2, <2>6, <2>7
<1> HIDE DEF new, old
<1> DEFINE all == old \o new
<1>5. /\ all \in Seq(Reading) /\ Len(all) = Len(old) + Len(types)
      /\ \A i \in 1 .. Len(all) :
           all[i] = IF i <= Len(old) THEN old[i] ELSE new[i - Len(old)]
  BY <1>2, <1>3, <1>4, ConcatProperties
<1> HIDE DEF all
<1>6. ASSUME NEW i \in 1 .. Len(all), i > Len(old)
      PROVE  i - Len(old) \in 1 .. Len(types) /\ all[i].at = time + 1 /\ all[i].type = types[i - Len(old)]
  <2>1. i - Len(old) \in 1 .. Len(types)  BY <1>2, <1>3, <1>5, <1>6
  <2>2. all[i] = new[i - Len(old)]  BY <1>2, <1>5, <1>6
  <2>3. QED  BY <1>4, <2>1, <2>2
<1>7. ASSUME NEW i \in 1 .. Len(all), i <= Len(old)
      PROVE  i \in 1 .. Len(old) /\ all[i] = old[i] /\ all[i].at \in 1 .. time
  <2>1. i \in 1 .. Len(old)  BY <1>2, <1>7
  <2>2. all[i] = old[i]  BY <1>5, <1>7
  <2>3. QED  BY <1>2, <2>1, <2>2
<1>8. \A i \in 1 .. Len(all) : all[i].at \in 1 .. time'
  <2> TAKE i \in 1 .. Len(all)
  <2>1. i \in Nat /\ Len(old) \in Nat  BY <1>2
  <2>2. CASE i <= Len(old)  BY <1>1, <1>2, <1>7, <2>2
  <2>3. CASE i > Len(old)  BY <1>1, <1>2, <1>6, <2>3
  <2>4. QED  BY <2>1, <2>2, <2>3
<1>9. Ordered(all)
  <2> SUFFICES ASSUME NEW i \in 1 .. Len(all), NEW j \in 1 .. Len(all), i < j,
                      all[i].type = all[j].type
               PROVE  all[i].at < all[j].at
    BY DEF Ordered
  <2>1. i \in Nat /\ j \in Nat /\ Len(old) \in Nat  BY <1>2
  <2>2. CASE j <= Len(old)
    <3>1. i <= Len(old)  BY <2>1, <2>2
    <3>2. QED  BY <1>2, <1>7, <2>2, <3>1 DEF Ordered
  <2>3. CASE i <= Len(old) /\ j > Len(old)
    <3>1. all[i].at \in 1 .. time /\ all[j].at = time + 1  BY <1>6, <1>7, <2>3
    <3>2. QED  BY <1>2, <3>1
  <2>4. CASE i > Len(old)
    <3>1. j > Len(old)  BY <2>1, <2>4
    <3>2. i - Len(old) \in 1 .. Len(types) /\ j - Len(old) \in 1 .. Len(types)
          /\ types[i - Len(old)] = types[j - Len(old)]
      BY <1>6, <2>4, <3>1
    <3>3. i - Len(old) = j - Len(old)  BY <1>3, <3>2
    <3>4. QED  BY <2>1, <3>3
  <2>5. QED  BY <2>1, <2>2, <2>3, <2>4
<1>10. readings' = [readings EXCEPT ![a] = all]  BY <1>1 DEF all, old
<1>11. DOMAIN readings = Assets  BY DEF ReadingsInv
<1>12. ASSUME NEW b \in Assets
       PROVE  /\ readings'[b] \in Seq(Reading) /\ Ordered(readings'[b])
              /\ \A i \in 1 .. Len(readings'[b]) : readings'[b][i].at \in 1 .. time'
  <2>1. CASE b = a
    <3>1. readings'[b] = all  BY <1>10, <1>11, <2>1
    <3>2. QED  BY <1>5, <1>8, <1>9, <3>1
  <2>2. CASE b # a
    <3>1. readings'[b] = readings[b]  BY <1>10, <1>11, <2>2
    <3>2. \A i \in 1 .. Len(readings[b]) : readings[b][i].at \in 1 .. time  BY DEF ReadingsInv
    <3>3. readings[b] \in Seq(Reading) /\ Ordered(readings[b])  BY DEF ReadingsInv
    <3>4. \A t \in 1 .. time : t \in 1 .. time'  BY <1>1, <1>2
    <3>5. QED  BY <3>1, <3>2, <3>3, <3>4
  <2>3. QED  BY <2>1, <2>2
<1>13. ReadingsInv'
  <2>1. DOMAIN readings' = Assets  BY <1>10, <1>11
  <2>2. QED  BY <1>2, <1>12, <2>1 DEF ReadingsInv
<1>14. ASSUME NEW b \in Assets, readings[b] # <<>> PROVE readings'[b] # <<>>
  <2>1. CASE b = a
    <3>1. readings'[b] = all  BY <1>10, <1>11, <2>1
    <3>2. Len(old) # 0  BY <1>2, <1>14, <2>1 DEF old
    <3>3. Len(all) # 0  BY <1>2, <1>3, <1>5, <3>2
    <3>4. QED  BY <3>1, <3>3
  <2>2. CASE b # a  BY <1>10, <1>11, <1>14, <2>2
  <2>3. QED  BY <2>1, <2>2
<1>15. QED  BY <1>13, <1>14

----------------------------------------------------------------------------
(* What the events of the outbox say.                                      *)

Told(evs, n, kind) == {<<e.old, e.new>> : e \in {x \in Elems(evs) : x.run = n /\ x.kind = kind}}

LEMMA ToldFacts ==
    ASSUME NEW evs, IsList(evs), NEW n, NEW kind
    PROVE  {<<evs[i].old, evs[i].new>> : i \in {j \in DOMAIN evs :
              evs[j].run = n /\ evs[j].kind = kind}} = Told(evs, n, kind)
<1>1. DOMAIN evs = 1 .. Len(evs)  BY ListDomain
<1> DEFINE I == {j \in DOMAIN evs : evs[j].run = n /\ evs[j].kind = kind}
           X == {x \in Elems(evs) : x.run = n /\ x.kind = kind}
<1>2. ASSUME NEW i \in I PROVE evs[i] \in X  BY <1>1 DEF Elems
<1>3. ASSUME NEW x \in X PROVE \E i \in I : x = evs[i]  BY <1>1 DEF Elems
<1> HIDE DEF I, X
<1>4. {<<evs[i].old, evs[i].new>> : i \in I} = {<<e.old, e.new>> : e \in X}  BY <1>2, <1>3
<1>5. QED  BY <1>4 DEF I, X, Told

(* Events of another run add nothing; the events of a new run are its own. *)
LEMMA ToldBefore ==
    ASSUME NEW evs, NEW ev, IsList(evs), IsList(ev), NEW n, NEW kind,
           \A e \in Elems(ev) : e.run # n
    PROVE  Told(evs \o ev, n, kind) = Told(evs, n, kind)
<1>1. Elems(evs \o ev) = Elems(evs) \cup Elems(ev)  BY JoinFacts
<1> DEFINE X == {x \in Elems(evs \o ev) : x.run = n /\ x.kind = kind}
           Y == {x \in Elems(evs) : x.run = n /\ x.kind = kind}
<1>2. X = Y  BY <1>1
<1> HIDE DEF X, Y
<1>3. {<<e.old, e.new>> : e \in X} = {<<e.old, e.new>> : e \in Y}  BY <1>2
<1>4. QED  BY <1>3 DEF X, Y, Told

LEMMA ToldNow ==
    ASSUME NEW evs, NEW ev, IsList(evs), IsList(ev), NEW n, NEW kind,
           \A e \in Elems(evs) : e.run # n,
           \A e \in Elems(ev) : e.run = n
    PROVE  Told(evs \o ev, n, kind) = {<<e.old, e.new>> : e \in OfKind(ev, kind)}
<1>1. Elems(evs \o ev) = Elems(evs) \cup Elems(ev)  BY JoinFacts
<1> DEFINE X == {x \in Elems(evs \o ev) : x.run = n /\ x.kind = kind}
           Y == OfKind(ev, kind)
<1>2. X = Y  BY <1>1 DEF OfKind
<1> HIDE DEF X, Y
<1>3. {<<e.old, e.new>> : e \in X} = {<<e.old, e.new>> : e \in Y}  BY <1>2
<1>4. QED  BY <1>3 DEF X, Y, Told

(* The newest notification of an asset. *)
Created(evs, a) ==
    {i \in DOMAIN evs : evs[i].asset = a /\ evs[i].kind = "NotificationCreated"}

Notice(evs, a) == IF Created(evs, a) = {} THEN "none" ELSE evs[Max(Created(evs, a))].new

LEMMA NoticeStays ==
    ASSUME NEW evs, NEW ev, IsList(evs), IsList(ev), NEW a,
           \A e \in Elems(ev) : ~ (e.asset = a /\ e.kind = "NotificationCreated")
    PROVE  Notice(evs \o ev, a) = Notice(evs, a)
<1> DEFINE u == evs \o ev
<1>1. /\ IsList(u) /\ Len(u) = Len(evs) + Len(ev)
      /\ \A i \in 1 .. Len(u) : u[i] = IF i <= Len(evs) THEN evs[i] ELSE ev[i - Len(evs)]
  BY JoinFacts
<1> HIDE DEF u
<1>2. /\ Len(evs) \in Nat /\ Len(ev) \in Nat /\ Len(u) \in Nat
      /\ DOMAIN evs = 1 .. Len(evs) /\ DOMAIN u = 1 .. Len(u)
  BY <1>1, ListDomain
<1>3. \A i \in 1 .. Len(evs) : i \in 1 .. Len(u) /\ u[i] = evs[i]  BY <1>1, <1>2
<1>4. ASSUME NEW i \in Created(u, a) PROVE i \in 1 .. Len(evs)
  <2>1. i \in 1 .. Len(u) /\ u[i].asset = a /\ u[i].kind = "NotificationCreated"
    BY <1>2 DEF Created
  <2>2. SUFFICES ASSUME ~ (i <= Len(evs)) PROVE FALSE  BY <1>2, <2>1
  <2>3. i - Len(evs) \in 1 .. Len(ev)  BY <1>1, <1>2, <2>1, <2>2
  <2>4. u[i] = ev[i - Len(evs)]  BY <1>1, <2>1, <2>2
  <2>5. u[i] \in Elems(ev)  BY <2>3, <2>4 DEF Elems
  <2>6. QED  BY <2>1, <2>5
<1>5. Created(u, a) = Created(evs, a)
  <2>1. ASSUME NEW i \in Created(u, a) PROVE i \in Created(evs, a)
    BY <1>2, <1>3, <1>4 DEF Created
  <2>2. ASSUME NEW i \in Created(evs, a) PROVE i \in Created(u, a)
    BY <1>2, <1>3 DEF Created
  <2>3. QED  BY <2>1, <2>2
<1>6. CASE Created(evs, a) = {}  BY <1>5, <1>6 DEF Notice, u
<1>7. CASE Created(evs, a) # {}
  <2>1. Created(evs, a) \subseteq 0 .. Len(evs)  BY <1>2 DEF Created
  <2>2. Max(Created(evs, a)) \in Created(evs, a)  BY <1>2, <1>7, <2>1, GreatestOf
  <2>3. Max(Created(evs, a)) \in 1 .. Len(evs)  BY <1>2, <2>2 DEF Created
  <2>4. u[Max(Created(evs, a))] = evs[Max(Created(evs, a))]  BY <1>3, <2>3
  <2>5. QED  BY <1>5, <1>7, <2>4 DEF Notice, u
<1>8. QED  BY <1>6, <1>7

LEMMA NoticeMoves ==
    ASSUME NEW evs, NEW ev, IsList(evs), IsList(ev), NEW a, NEW x,
           \A e \in Elems(ev) : e.asset = a,
           OfKind(ev, "NotificationCreated") = {x}
    PROVE  Notice(evs \o ev, a) = x.new
<1> DEFINE u == evs \o ev
           C == Created(u, a)
<1>1. /\ IsList(u) /\ Len(u) = Len(evs) + Len(ev)
      /\ \A i \in 1 .. Len(u) : u[i] = IF i <= Len(evs) THEN evs[i] ELSE ev[i - Len(evs)]
  BY JoinFacts
<1> HIDE DEF u
<1>2. /\ Len(evs) \in Nat /\ Len(ev) \in Nat /\ Len(u) \in Nat
      /\ DOMAIN ev = 1 .. Len(ev) /\ DOMAIN u = 1 .. Len(u)
  BY <1>1, ListDomain
<1>3. PICK k \in 1 .. Len(ev) : ev[k] = x  BY DEF OfKind, Elems
<1>4. x \in Elems(ev) /\ x.asset = a /\ x.kind = "NotificationCreated"  BY DEF OfKind
<1>5. k + Len(evs) \in C /\ k + Len(evs) > Len(evs)
  <2>1. k + Len(evs) \in 1 .. Len(u) /\ ~ (k + Len(evs) <= Len(evs)) /\ k + Len(evs) - Len(evs) = k
    BY <1>1, <1>2
  <2>2. u[k + Len(evs)] = x  BY <1>1, <1>3, <2>1
  <2>3. QED  BY <1>2, <1>4, <2>1, <2>2 DEF Created
<1>6. C \subseteq 0 .. Len(u) /\ C # {}  BY <1>2, <1>5 DEF Created
<1> HIDE DEF C
<1>7. Max(C) \in C /\ \A y \in C : y <= Max(C)  BY <1>2, <1>6, GreatestOf
<1> DEFINE m == Max(C)
<1> HIDE DEF m
<1>8. m \in 1 .. Len(u) /\ u[m].kind = "NotificationCreated" /\ m > Len(evs)
  <2>1. m \in C /\ k + Len(evs) <= m  BY <1>5, <1>7 DEF m
  <2>2. m \in 1 .. Len(u) /\ u[m].kind = "NotificationCreated"  BY <1>2, <2>1 DEF C, Created
  <2>3. QED  BY <1>2, <2>1, <2>2
<1>9. m - Len(evs) \in 1 .. Len(ev) /\ u[m] = ev[m - Len(evs)]
  <2>1. m - Len(evs) \in 1 .. Len(ev)  BY <1>1, <1>2, <1>8
  <2>2. ~ (m <= Len(evs))  BY <1>2, <1>8
  <2>3. QED  BY <1>1, <1>8, <2>1, <2>2
<1>10. u[m] \in OfKind(ev, "NotificationCreated")  BY <1>8, <1>9 DEF OfKind, Elems
<1>11. u[m] = x  BY <1>10
<1>12. Notice(u, a) = u[m].new  BY <1>6 DEF Notice, C, m
<1>13. QED  BY <1>11, <1>12 DEF u

----------------------------------------------------------------------------
(* One step of the pipeline.                                               *)

(* Every event belongs to a completed run of its asset. *)
EventsInv ==
    /\ IsList(events)
    /\ \A e \in Elems(events) : e.run \in 1 .. Len(runs) /\ Concluded(runs[e.run])

(* What a run adds. *)
Grows(a) ==
    /\ IsList(runs') /\ Len(runs') = Len(runs) + 1
    /\ \A m \in 1 .. Len(runs) : runs'[m] = runs[m]
    /\ runs'[Len(runs) + 1].asset = a

LEMMA RunAdds ==
    ASSUME PipelineInv, NEW a \in Assets, RunReasoning(a)
    PROVE  /\ Concluded(runs'[Len(runs) + 1])
           /\ Grows(a)
           /\ events' = events \o RunEvents(a, Len(runs) + 1, Session(a, readings[a]), readings[a],
                                            PreviousState(a), runs'[Len(runs) + 1].announced)
           /\ readings' = readings /\ time' = time
<1> DEFINE obs == readings[a]
           bounded == BoundRecent(obs, Window)
           s == Signals(bounded, FuelCellProfile)
           st == StructuredAssessment(s)
           c == Conclusions(a, obs, bounded, s, st)
           new == StateFromResult(obs, c)
           run == [c EXCEPT !.announced = new]
<1>1. Session(a, obs) = c  BY DEF Session, Reasoned
<1>2. /\ CanRunReasoning(obs) /\ Analysable(bounded)
      /\ runs' = Append(runs, run)
      /\ events' = events \o RunEvents(a, Len(runs) + 1, c, obs, PreviousState(a), new)
      /\ readings' = readings /\ time' = time
  BY <1>1 DEF RunReasoning, Conclude, Announce
<1>3. IsList(runs)  BY DEF PipelineInv, RunsInv
<1>4. c.plan = PlanningOutcome(Words(s.direction, s.level)) /\ c.structured = st
  BY DEF Conclusions
<1>5. new = OperationalState(obs, PlanningOutcome(Words(s.direction, s.level)), st)
  BY <1>4 DEF StateFromResult
<1>6. obs \in Seq(Reading) /\ Ordered(obs)  BY DEF PipelineInv, ReadingsInv
<1> HIDE DEF obs, bounded, s, st, new
<1>7. /\ run.asset = a /\ run.status = "completed" /\ run.obs = bounded
      /\ run.assessment = Assess(s) /\ run.structured = st
      /\ run.plan = PlanningOutcome(Words(s.direction, s.level))
      /\ run.hypotheses = Hypotheses(s, bounded)
      /\ run.confidence = Confidence(st, s.primary)
      /\ run.announced = new /\ run.from = obs
  BY DEF Conclusions
<1> HIDE DEF c, run
<1>8. ConcludedFrom(run, Signals(run.obs, FuelCellProfile))
  <2>1. Signals(run.obs, FuelCellProfile) = s  BY <1>7 DEF s
  <2>2. ConcludedFrom(run, s)  BY <1>7 DEF ConcludedFrom, st
  <2>3. QED  BY <2>1, <2>2
<1>9. Concluded(run)
  <2>1. run.obs = BoundRecent(run.from, Window)  BY <1>7 DEF bounded
  <2>2. run.announced = OperationalState(run.from, run.plan, run.structured)  BY <1>5, <1>7
  <2>3. QED  BY <1>2, <1>6, <1>7, <1>8, <2>1, <2>2 DEF Concluded
<1>10. /\ IsList(runs') /\ Len(runs') = Len(runs) + 1
       /\ \A m \in 1 .. Len(runs) : runs'[m] = runs[m]
       /\ runs'[Len(runs) + 1] = run
  BY <1>2, <1>3, AppendFacts
<1>11. Session(a, readings[a]) = c /\ obs = readings[a]  BY <1>1 DEF obs
<1>12. Grows(a)  BY <1>7, <1>10 DEF Grows
<1>13. events' = events \o RunEvents(a, Len(runs) + 1, Session(a, readings[a]), readings[a],
                                     PreviousState(a), runs'[Len(runs) + 1].announced)
  BY <1>2, <1>7, <1>10, <1>11
<1>14. QED  BY <1>2, <1>9, <1>10, <1>12, <1>13

LEMMA FailureAdds ==
    ASSUME PipelineInv, NEW a \in Assets, FailReasoning(a)
    PROVE  /\ Refused(runs'[Len(runs) + 1]) /\ runs'[Len(runs) + 1].asset = a
           /\ IsList(runs') /\ Len(runs') = Len(runs) + 1
           /\ \A m \in 1 .. Len(runs) : runs'[m] = runs[m]
           /\ events' = events /\ readings' = readings /\ time' = time
<1> DEFINE obs == readings[a]
           run == FailedRun(a, obs)
<1>1. /\ CanRunReasoning(obs) /\ ~ Analysable(BoundRecent(obs, Window))
      /\ runs' = Append(runs, run)
      /\ events' = events /\ readings' = readings /\ time' = time
  BY DEF FailReasoning
<1>2. obs \in Seq(Reading) /\ Ordered(obs)  BY DEF PipelineInv, ReadingsInv
<1>3. run.asset = a /\ run.status = "failed" /\ run.from = obs  BY StoredFailure
<1> HIDE DEF obs, run
<1>4. Refused(run)  BY <1>1, <1>2, <1>3 DEF Refused
<1>5. IsList(runs)  BY DEF PipelineInv, RunsInv
<1>6. /\ IsList(runs') /\ Len(runs') = Len(runs) + 1
      /\ \A m \in 1 .. Len(runs) : runs'[m] = runs[m]
      /\ runs'[Len(runs) + 1] = run
  BY <1>1, <1>5, AppendFacts
<1>7. QED  BY <1>1, <1>3, <1>4, <1>6

(* Runs with one more that was stored as it should be. *)
LEMMA LongerRuns ==
    ASSUME PipelineInv, NEW a \in Assets, readings[a] # <<>>,
           IsList(runs'), Len(runs') = Len(runs) + 1,
           \A m \in 1 .. Len(runs) : runs'[m] = runs[m],
           runs'[Len(runs) + 1].asset = a,
           Concluded(runs'[Len(runs) + 1]) \/ Refused(runs'[Len(runs) + 1]),
           readings' = readings, time' = time
    PROVE  PipelineInv'
<1>1. Len(runs) \in Nat  BY DEF PipelineInv, RunsInv, IsList
<1>2. ASSUME NEW n \in 1 .. Len(runs')
      PROVE  n \in 1 .. Len(runs) \/ n = Len(runs) + 1
  BY <1>1
<1>3. ASSUME NEW n \in 1 .. Len(runs') PROVE Concluded(runs'[n]) \/ Refused(runs'[n])
  <2>1. CASE n \in 1 .. Len(runs)
    <3>1. Concluded(runs[n]) \/ Refused(runs[n])  BY <2>1 DEF PipelineInv, RunsInv
    <3>2. runs'[n] = runs[n]  BY <2>1
    <3>3. QED  BY <3>1, <3>2
  <2>2. CASE n = Len(runs) + 1  BY <2>2
  <2>3. QED  BY <1>2, <2>1, <2>2
<1>4. RunsInv'  BY <1>3 DEF RunsInv
<1>5. KnownInv'
  <2>1. ASSUME NEW n \in 1 .. Len(runs') PROVE readings'[runs'[n].asset] # <<>>
    <3>1. CASE n \in 1 .. Len(runs)  BY <3>1 DEF PipelineInv, KnownInv
    <3>2. CASE n = Len(runs) + 1  BY <3>2
    <3>3. QED  BY <1>2, <3>1, <3>2
  <2>2. QED  BY <2>1 DEF KnownInv
<1>6. ReadingsInv'  BY DEF PipelineInv, ReadingsInv
<1>7. QED  BY <1>4, <1>5, <1>6 DEF PipelineInv

(* The elements of what a run writes. *)
LEMMA RunTells ==
    ASSUME PipelineInv, EventsInv, NEW a \in Assets, RunReasoning(a), NEW ev,
           ev = RunEvents(a, Len(runs) + 1, Session(a, readings[a]), readings[a],
                          PreviousState(a), runs'[Len(runs) + 1].announced)
    PROVE  EventsInv'
<1>1. /\ Concluded(runs'[Len(runs) + 1]) /\ IsList(runs') /\ Len(runs') = Len(runs) + 1
      /\ \A m \in 1 .. Len(runs) : runs'[m] = runs[m]
      /\ events' = events \o ev
  BY RunAdds DEF Grows
<1>2. IsList(ev) /\ \A e \in Elems(ev) : e.run = Len(runs) + 1
  <2>1. Tells(ev, a, Len(runs) + 1, PreviousState(a), runs'[Len(runs) + 1].announced)
    BY RunEventFacts
  <2>2. QED  BY <2>1 DEF Tells
<1>3. IsList(events) /\ Len(runs) \in Nat  BY DEF EventsInv, PipelineInv, RunsInv, IsList
<1>4. IsList(events') /\ Elems(events') = Elems(events) \cup Elems(ev)
  BY <1>1, <1>2, <1>3, JoinFacts
<1>5. ASSUME NEW e \in Elems(events') PROVE e.run \in 1 .. Len(runs') /\ Concluded(runs'[e.run])
  <2>1. CASE e \in Elems(events)
    <3>1. e.run \in 1 .. Len(runs) /\ Concluded(runs[e.run])  BY <2>1 DEF EventsInv
    <3>2. runs'[e.run] = runs[e.run] /\ e.run \in 1 .. Len(runs')  BY <1>1, <1>3, <3>1
    <3>3. QED  BY <3>1, <3>2
  <2>2. CASE e \in Elems(ev)
    <3>1. e.run = Len(runs) + 1 /\ e.run \in 1 .. Len(runs')  BY <1>1, <1>2, <1>3, <2>2
    <3>2. QED  BY <1>1, <3>1
  <2>3. QED  BY <1>4, <2>1, <2>2
<1>6. QED  BY <1>4, <1>5 DEF EventsInv

LEMMA PipelineStarts == ReasoningInit => PipelineInv /\ EventsInv
<1> SUFFICES ASSUME ReasoningInit PROVE PipelineInv /\ EventsInv  OBVIOUS
<1>1. ReadingsInv  BY PipelineAssumption DEF ReasoningInit, ReadingsInv, Ordered
<1>2. IsList(runs) /\ IsList(events) /\ Len(runs) = 0 /\ 1 .. 0 = {} /\ Elems(events) = {}
  BY NoneFacts DEF ReasoningInit
<1>3. QED  BY <1>1, <1>2 DEF PipelineInv, RunsInv, KnownInv, EventsInv

LEMMA PipelineStep ==
    ASSUME PipelineInv, EventsInv, [ReasoningNext]_reasoningVars
    PROVE  PipelineInv' /\ EventsInv'
<1>1. ASSUME NEW a \in Assets, NEW sample \in Samples, Observe(a, sample)
      PROVE  PipelineInv' /\ EventsInv'
  <2>1. ReadingsInv' /\ \A b \in Assets : readings[b] # <<>> => readings'[b] # <<>>
    BY <1>1, ObserveReadings DEF PipelineInv
  <2>2. runs' = runs /\ events' = events  BY <1>1 DEF Observe
  <2>3. RunsInv' /\ EventsInv'  BY <2>2 DEF PipelineInv, RunsInv, EventsInv
  <2>4. ASSUME NEW n \in 1 .. Len(runs) PROVE readings'[runs[n].asset] # <<>>
    <3>1. readings[runs[n].asset] # <<>> /\ (Concluded(runs[n]) \/ Refused(runs[n]))
      BY DEF PipelineInv, KnownInv, RunsInv
    <3>2. runs[n].asset \in Assets  BY <3>1 DEF Concluded, Refused
    <3>3. QED  BY <2>1, <3>1, <3>2
  <2>5. KnownInv'  BY <2>2, <2>4 DEF KnownInv
  <2>6. QED  BY <2>1, <2>3, <2>5 DEF PipelineInv
<1>2. CASE UNCHANGED <<time, readings, runs, events>>
  BY <1>2 DEF PipelineInv, ReadingsInv, RunsInv, KnownInv, EventsInv
<1>3. ASSUME NEW a \in Assets, RunReasoning(a) PROVE PipelineInv' /\ EventsInv'
  <2>1. /\ Concluded(runs'[Len(runs) + 1]) /\ IsList(runs') /\ Len(runs') = Len(runs) + 1
        /\ \A m \in 1 .. Len(runs) : runs'[m] = runs[m]
        /\ runs'[Len(runs) + 1].asset = a /\ readings' = readings /\ time' = time
    BY <1>3, RunAdds DEF Grows
  <2>2. readings[a] # <<>>
    <3>1. Len(readings[a]) >= 2  BY <1>3 DEF RunReasoning, CanRunReasoning
    <3>2. QED  BY <3>1
  <2>3. PipelineInv'  BY <2>1, <2>2, LongerRuns
  <2>4. EventsInv'  BY <1>3, RunTells
  <2>5. QED  BY <2>3, <2>4
<1>4. ASSUME NEW a \in Assets, FailReasoning(a) PROVE PipelineInv' /\ EventsInv'
  <2>1. /\ Refused(runs'[Len(runs) + 1]) /\ runs'[Len(runs) + 1].asset = a
        /\ IsList(runs') /\ Len(runs') = Len(runs) + 1
        /\ \A m \in 1 .. Len(runs) : runs'[m] = runs[m]
        /\ events' = events /\ readings' = readings /\ time' = time
    BY <1>4, FailureAdds
  <2>2. readings[a] # <<>>
    <3>1. Len(readings[a]) >= 2  BY <1>4 DEF FailReasoning, CanRunReasoning
    <3>2. QED  BY <3>1
  <2>3. PipelineInv'  BY <2>1, <2>2, LongerRuns
  <2>4. Len(runs) \in Nat  BY DEF PipelineInv, RunsInv, IsList
  <2>5. ASSUME NEW e \in Elems(events) PROVE e.run \in 1 .. Len(runs') /\ Concluded(runs'[e.run])
    BY <2>1, <2>4 DEF EventsInv
  <2>6. EventsInv'  BY <2>1, <2>5 DEF EventsInv
  <2>7. QED  BY <2>3, <2>6
<1>5. QED
  <2>1. CASE UNCHANGED reasoningVars  BY <1>2, <2>1 DEF reasoningVars
  <2>2. CASE ReasoningNext
    <3>1. PICK a \in Assets :
            \/ \E sample \in Samples : Observe(a, sample)
            \/ SkipReasoning(a) \/ RunReasoning(a) \/ FailReasoning(a)
      BY <2>2 DEF ReasoningNext
    <3>2. CASE SkipReasoning(a)  BY <1>2, <3>2 DEF SkipReasoning
    <3>3. QED  BY <1>1, <1>3, <1>4, <3>1, <3>2
  <2>3. QED  BY <2>1, <2>2

----------------------------------------------------------------------------
(* Transitions chain, and the newest notification is that of the latest    *)
(* run.                                                                    *)

LEMMA RunKinds ==
    ASSUME NEW run, Concluded(run) \/ Refused(run)
    PROVE  run.status = "completed" <=> Concluded(run)
  BY DEF Concluded, Refused

LEMMA CompletedFacts ==
    ASSUME RunsInv
    PROVE  /\ Len(runs) \in Nat /\ DOMAIN runs = 1 .. Len(runs) /\ Completed \subseteq 1 .. Len(runs)
           /\ \A n \in Completed : Concluded(runs[n])
           /\ \A n \in 1 .. Len(runs) : Concluded(runs[n]) => n \in Completed
           /\ \A n \in (1 .. Len(runs)) \ Completed : Refused(runs[n])
<1>1. Len(runs) \in Nat /\ DOMAIN runs = 1 .. Len(runs)  BY ListDomain DEF RunsInv
<1>2. \A n \in 1 .. Len(runs) : runs[n].status = "completed" <=> Concluded(runs[n])
  BY RunKinds DEF RunsInv
<1>3. QED  BY <1>1, <1>2 DEF Completed, RunsInv

LEMMA IndexedFacts ==
    ASSUME RunsInv, NEW a
    PROVE  /\ Indexed(a) = {n \in Completed : runs[n].asset = a}
           /\ Indexed(a) \subseteq 0 .. Len(runs) /\ Len(runs) \in Nat
           /\ Indexed(a) # {} => /\ LatestRun(a) \in Indexed(a)
                                 /\ \A n \in Indexed(a) : n <= LatestRun(a)
<1>1. Indexed(a) = {n \in Completed : runs[n].asset = a}  BY DEF Indexed, Completed
<1>2. Completed \subseteq 1 .. Len(runs) /\ Len(runs) \in Nat  BY CompletedFacts
<1>3. Indexed(a) \subseteq 0 .. Len(runs)
  <2>1. \A n \in 1 .. Len(runs) : n \in 0 .. Len(runs)  BY <1>2
  <2>2. QED  BY <1>1, <1>2, <2>1
<1>4. QED  BY <1>1, <1>2, <1>3, GreatestOf DEF LatestRun

LEMMA GrownRuns ==
    ASSUME RunsInv, NEW c, Grows(c), NEW b
    PROVE  /\ Completed' = Completed \cup {n \in {Len(runs) + 1} : runs'[n].status = "completed"}
           /\ Indexed(b)' = Indexed(b) \cup {n \in {Len(runs) + 1} :
                                               runs'[n].asset = b /\ runs'[n].status = "completed"}
<1>1. DOMAIN runs = 1 .. Len(runs) /\ Len(runs) \in Nat  BY CompletedFacts
<1>2. /\ IsList(runs') /\ Len(runs') = Len(runs) + 1
      /\ \A m \in 1 .. Len(runs) : runs'[m] = runs[m]
  BY DEF Grows
<1>3. DOMAIN runs' = 1 .. Len(runs')  BY <1>2, ListDomain
<1>4. DOMAIN runs' = (DOMAIN runs) \cup {Len(runs) + 1}  BY <1>1, <1>2, <1>3
<1>5. Completed' = {n \in DOMAIN runs' : runs'[n].status = "completed"}  BY DEF Completed
<1>6. Indexed(b)' = {n \in DOMAIN runs' : runs'[n].asset = b /\ runs'[n].status = "completed"}
  BY DEF Indexed
<1>7. QED  BY <1>1, <1>2, <1>4, <1>5, <1>6 DEF Completed, Indexed

(* One run of the chain. *)
Follows(was, is, told) == told = IF was = is THEN {} ELSE {<<was, is>>}

ChainAt(n) ==
    Before(n) # {} =>
        (PrimaryKept(runs[Max(Before(n))]) =>
            /\ Follows(runs[Max(Before(n))].announced.health, runs[n].announced.health,
                       Announces(n, "HealthChanged"))
            /\ Follows(runs[Max(Before(n))].announced.risk, runs[n].announced.risk,
                       Announces(n, "RiskChanged")))

LEMMA ChainIsOfRuns == TransitionsChain <=> \A n \in Completed : ChainAt(n)
  BY DEF TransitionsChain, ChainAt, Follows

LEMMA ChainIsOfRunsNext == TransitionsChain' <=> \A n \in Completed' : ChainAt(n)'
  BY DEF TransitionsChain, ChainAt, Follows

(* A run stays chained while runs are added and nothing more is told of it. *)
LEMMA ChainStays ==
    ASSUME RunsInv, NEW c, Grows(c) \/ runs' = runs, IsList(events), IsList(events'),
           NEW n \in Completed, ChainAt(n),
           \A kind \in {"HealthChanged", "RiskChanged"} : Told(events', n, kind) = Told(events, n, kind)
    PROVE  ChainAt(n)'
<1>1. Completed \subseteq 1 .. Len(runs) /\ Len(runs) \in Nat  BY CompletedFacts
<1>2. /\ \A m \in 1 .. Len(runs) : runs'[m] = runs[m]
      /\ \A m : m \in Completed' /\ m < n <=> m \in Completed /\ m < n
  <2>1. CASE Grows(c)
    <3>1. Completed' = Completed \cup {k \in {Len(runs) + 1} : runs'[k].status = "completed"}
      BY <2>1, GrownRuns
    <3>2. ~ (Len(runs) + 1 < n)  BY <1>1
    <3>3. QED  BY <2>1, <3>1, <3>2 DEF Grows
  <2>2. CASE runs' = runs  BY <2>2 DEF Completed
  <2>3. QED  BY <2>1, <2>2
<1>3. Before(n)' = Before(n)
  <2>1. Before(n)' = {m \in Completed' : m < n /\ runs'[m].asset = runs'[n].asset}  BY DEF Before
  <2>2. Before(n) = {m \in Completed : m < n /\ runs[m].asset = runs[n].asset}  BY DEF Before
  <2>3. runs'[n] = runs[n] /\ \A m \in Completed : runs'[m] = runs[m]  BY <1>1, <1>2
  <2>4. QED  BY <1>2, <2>1, <2>2, <2>3
<1>4. Announces(n, "HealthChanged") = Told(events, n, "HealthChanged")
      /\ Announces(n, "RiskChanged") = Told(events, n, "RiskChanged")
  BY ToldFacts DEF Announces
<1>5. Announces(n, "HealthChanged")' = Told(events', n, "HealthChanged")
      /\ Announces(n, "RiskChanged")' = Told(events', n, "RiskChanged")
  BY ToldFacts DEF Announces
<1>6. Before(n) # {} => Max(Before(n)) \in Before(n)
  <2>1. Before(n) \subseteq 0 .. Len(runs)
    <3>1. \A k \in 1 .. Len(runs) : k \in 0 .. Len(runs)  BY <1>1
    <3>2. QED  BY <1>1, <3>1 DEF Before
  <2>2. QED  BY <1>1, <2>1, GreatestOf
<1>7. Before(n) # {} => Max(Before(n)) \in 1 .. Len(runs)  BY <1>1, <1>6 DEF Before
<1> DEFINE m == Max(Before(n))
<1>8. ChainAt(n)' <=>
        (Before(n)' # {} =>
           (PrimaryKept(runs'[Max(Before(n)')]) =>
              /\ Follows(runs'[Max(Before(n)')].announced.health, runs'[n].announced.health,
                         Announces(n, "HealthChanged")')
              /\ Follows(runs'[Max(Before(n)')].announced.risk, runs'[n].announced.risk,
                         Announces(n, "RiskChanged")')))
  BY DEF ChainAt, PrimaryKept, Follows
<1>9. runs'[n] = runs[n]  BY <1>1, <1>2
<1>10. Before(n) # {} => runs'[Max(Before(n))] = runs[Max(Before(n))]  BY <1>2, <1>7
<1>11. QED  BY <1>3, <1>4, <1>5, <1>8, <1>9, <1>10 DEF ChainAt

(* The new run is chained to the latest one of its asset. *)
LEMMA ChainGrows ==
    ASSUME PipelineInv, EventsInv, NEW a \in Assets, RunReasoning(a), NEW N, N = Len(runs) + 1
    PROVE  ChainAt(N)'
<1> DEFINE old == PreviousState(a)
           new == runs'[N].announced
           ev == RunEvents(a, N, Session(a, readings[a]), readings[a], old, new)
<1>1. RunsInv  BY DEF PipelineInv
<1>2. Concluded(runs'[N]) /\ Grows(a) /\ events' = events \o ev  BY RunAdds
<1>3. Tells(ev, a, N, old, new)  BY RunEventFacts
<1> HIDE DEF ev, new
<1>4. Len(runs) \in Nat /\ N \in Nat /\ Completed \subseteq 1 .. Len(runs)
      /\ \A m \in Completed : Concluded(runs[m])
  BY <1>1, CompletedFacts
<1>5. /\ \A m \in 1 .. Len(runs) : runs'[m] = runs[m]
      /\ runs'[N].asset = a /\ runs'[N].status = "completed"
  BY <1>2 DEF Grows, Concluded
<1>6. Before(N)' = Indexed(a)
  <2>1. Before(N)' = {m \in Completed' : m < N /\ runs'[m].asset = runs'[N].asset}  BY DEF Before
  <2>2. Completed' = Completed \cup {N}  BY <1>1, <1>2, <1>5, GrownRuns
  <2>3. Indexed(a) = {m \in Completed : runs[m].asset = a}  BY <1>1, IndexedFacts
  <2>4. ~ (N < N) /\ \A m \in Completed : m < N /\ runs'[m] = runs[m]
    <3>1. ~ (N < N) /\ \A m \in 1 .. Len(runs) : m < N  BY <1>4
    <3>2. QED  BY <1>4, <1>5, <3>1
  <2>5. QED  BY <1>5, <2>1, <2>2, <2>3, <2>4
<1>7. IsList(events) /\ \A e \in Elems(events) : e.run # N  BY <1>4 DEF EventsInv
<1>8. IsList(ev) /\ \A e \in Elems(ev) : e.run = N  BY <1>3 DEF Tells
<1>9. IsList(events')  BY <1>2, <1>7, <1>8, JoinFacts
<1>10. /\ Announces(N, "HealthChanged")' = {<<e.old, e.new>> : e \in OfKind(ev, "HealthChanged")}
       /\ Announces(N, "RiskChanged")' = {<<e.old, e.new>> : e \in OfKind(ev, "RiskChanged")}
  <2>1. \A kind : Announces(N, kind)' = Told(events', N, kind)
    BY <1>9, ToldFacts DEF Announces
  <2>2. \A kind : Told(events', N, kind) = {<<e.old, e.new>> : e \in OfKind(ev, kind)}
    BY <1>2, <1>7, <1>8, ToldNow
  <2>3. QED  BY <2>1, <2>2
<1>11. ASSUME Indexed(a) # {}, PrimaryKept(runs[LatestRun(a)])
       PROVE  /\ old.health = runs[LatestRun(a)].announced.health
              /\ old.risk = runs[LatestRun(a)].announced.risk /\ old # NoState
  <2>1. LatestRun(a) \in Completed  BY <1>1, <1>11, IndexedFacts
  <2>2. Concluded(runs[LatestRun(a)])  BY <1>4, <2>1
  <2>3. old = StateForRun(runs[LatestRun(a)])  BY <1>11 DEF PreviousState
  <2> HIDE DEF old
  <2>4. /\ old.health = runs[LatestRun(a)].announced.health
        /\ old.risk = runs[LatestRun(a)].announced.risk
        /\ old.health \in {"NORMAL", "WARNING", "CRITICAL"}
    BY <1>11, <2>2, <2>3, KeptPrimaryState
  <2>5. NoState.health = "none"  BY DEF NoState
  <2>6. QED  BY <2>4, <2>5
<1> HIDE DEF old
<1>12. ASSUME old # NoState
       PROVE  /\ Follows(old.health, new.health, Announces(N, "HealthChanged")')
              /\ Follows(old.risk, new.risk, Announces(N, "RiskChanged")')
  <2>1. Follows(old.health, new.health, Announces(N, "HealthChanged")')
    <3> DEFINE x == Event(a, N, "HealthChanged", old.health, new.health)
    <3>1. x.old = old.health /\ x.new = new.health  BY DEF Event
    <3> HIDE DEF x
    <3>2. OfKind(ev, "HealthChanged") = IF old.health = new.health THEN {} ELSE {x}
      BY <1>3, <1>12 DEF Tells, x
    <3>3. CASE old.health = new.health  BY <1>10, <3>2, <3>3 DEF Follows
    <3>4. CASE old.health # new.health
      <4>1. OfKind(ev, "HealthChanged") = {x}  BY <3>2, <3>4
      <4>2. {<<e.old, e.new>> : e \in {x}} = {<<x.old, x.new>>}  OBVIOUS
      <4>3. QED  BY <1>10, <3>1, <3>4, <4>1, <4>2 DEF Follows
    <3>5. QED  BY <3>3, <3>4
  <2>2. Follows(old.risk, new.risk, Announces(N, "RiskChanged")')
    <3> DEFINE x == Event(a, N, "RiskChanged", old.risk, new.risk)
    <3>1. x.old = old.risk /\ x.new = new.risk  BY DEF Event
    <3> HIDE DEF x
    <3>2. OfKind(ev, "RiskChanged") = IF old.risk = new.risk THEN {} ELSE {x}
      BY <1>3, <1>12 DEF Tells, x
    <3>3. CASE old.risk = new.risk  BY <1>10, <3>2, <3>3 DEF Follows
    <3>4. CASE old.risk # new.risk
      <4>1. OfKind(ev, "RiskChanged") = {x}  BY <3>2, <3>4
      <4>2. {<<e.old, e.new>> : e \in {x}} = {<<x.old, x.new>>}  OBVIOUS
      <4>3. QED  BY <1>10, <3>1, <3>4, <4>1, <4>2 DEF Follows
    <3>5. QED  BY <3>3, <3>4
  <2>3. QED  BY <2>1, <2>2
<1>13. Max(Before(N)') = LatestRun(a)  BY <1>6 DEF LatestRun
<1>14. Indexed(a) # {} => runs'[LatestRun(a)] = runs[LatestRun(a)]
  <2>1. Indexed(a) # {} => LatestRun(a) \in Completed  BY <1>1, IndexedFacts
  <2>2. QED  BY <1>4, <1>5, <2>1
<1>15. QED
  <2>1. ChainAt(N)' <=>
          (Before(N)' # {} =>
             (PrimaryKept(runs'[Max(Before(N)')]) =>
                /\ Follows(runs'[Max(Before(N)')].announced.health, runs'[N].announced.health,
                           Announces(N, "HealthChanged")')
                /\ Follows(runs'[Max(Before(N)')].announced.risk, runs'[N].announced.risk,
                           Announces(N, "RiskChanged")')))
    BY DEF ChainAt, PrimaryKept, Follows
  <2>2. QED  BY <1>6, <1>11, <1>12, <1>13, <1>14, <2>1 DEF new

LEMMA ChainStarts == ReasoningInit => TransitionsChain
<1> SUFFICES ASSUME ReasoningInit PROVE TransitionsChain  OBVIOUS
<1>1. Completed = {}  BY DEF ReasoningInit, Completed
<1>2. QED  BY <1>1 DEF TransitionsChain

LEMMA ChainStep ==
    ASSUME PipelineInv, EventsInv, TransitionsChain, [ReasoningNext]_reasoningVars
    PROVE  TransitionsChain'
<1>1. RunsInv /\ IsList(events)  BY DEF PipelineInv, EventsInv
<1>2. \A n \in Completed : ChainAt(n)  BY ChainIsOfRuns
<1>3. ASSUME runs' = runs, events' = events PROVE TransitionsChain'
  <2>1. Completed' = Completed  BY <1>3 DEF Completed
  <2>2. ASSUME NEW n \in Completed PROVE ChainAt(n)'  BY <1>1, <1>2, <1>3, ChainStays
  <2>3. QED  BY <2>1, <2>2, ChainIsOfRunsNext
<1>4. ASSUME NEW a \in Assets, FailReasoning(a) PROVE TransitionsChain'
  <2>1. Refused(runs'[Len(runs) + 1]) /\ Grows(a) /\ events' = events
    BY <1>4, FailureAdds DEF Grows
  <2>2. runs'[Len(runs) + 1].status # "completed"  BY <2>1 DEF Refused
  <2>3. Completed' = Completed  BY <1>1, <2>1, <2>2, GrownRuns
  <2>4. ASSUME NEW n \in Completed PROVE ChainAt(n)'  BY <1>1, <1>2, <2>1, ChainStays
  <2>5. QED  BY <2>3, <2>4, ChainIsOfRunsNext
<1>5. ASSUME NEW a \in Assets, RunReasoning(a) PROVE TransitionsChain'
  <2> DEFINE ev == RunEvents(a, Len(runs) + 1, Session(a, readings[a]), readings[a],
                             PreviousState(a), runs'[Len(runs) + 1].announced)
  <2>1. Concluded(runs'[Len(runs) + 1]) /\ Grows(a) /\ events' = events \o ev
    BY <1>5, RunAdds
  <2>2. Tells(ev, a, Len(runs) + 1, PreviousState(a), runs'[Len(runs) + 1].announced)
    BY RunEventFacts
  <2> HIDE DEF ev
  <2>3. IsList(ev) /\ \A e \in Elems(ev) : e.run = Len(runs) + 1  BY <2>2 DEF Tells
  <2>4. IsList(events')  BY <1>1, <2>1, <2>3, JoinFacts
  <2>5. Completed' = Completed \cup {Len(runs) + 1}
    <3>1. runs'[Len(runs) + 1].status = "completed"  BY <2>1 DEF Concluded
    <3>2. QED  BY <1>1, <2>1, <3>1, GrownRuns
  <2>6. ASSUME NEW n \in Completed PROVE ChainAt(n)'
    <3>1. n # Len(runs) + 1  BY <1>1, CompletedFacts
    <3>2. \A e \in Elems(ev) : e.run # n  BY <2>3, <3>1
    <3>3. \A kind : Told(events', n, kind) = Told(events, n, kind)
      BY <1>1, <2>1, <2>3, <3>2, ToldBefore
    <3>4. QED  BY <1>1, <1>2, <2>1, <2>4, <3>3, ChainStays
  <2>7. ASSUME NEW n, n = Len(runs) + 1 PROVE ChainAt(n)'  BY <1>5, <2>7, ChainGrows
  <2>8. ASSUME NEW n \in Completed' PROVE ChainAt(n)'  BY <2>5, <2>6, <2>7
  <2>9. QED  BY <2>8, ChainIsOfRunsNext
<1>6. QED
  <2>1. CASE UNCHANGED reasoningVars  BY <1>3, <2>1 DEF reasoningVars
  <2>2. CASE ReasoningNext
    <3>1. PICK a \in Assets :
            \/ \E sample \in Samples : Observe(a, sample)
            \/ SkipReasoning(a) \/ RunReasoning(a) \/ FailReasoning(a)
      BY <2>2 DEF ReasoningNext
    <3>2. CASE \E sample \in Samples : Observe(a, sample)  BY <1>3, <3>2 DEF Observe
    <3>3. CASE SkipReasoning(a)  BY <1>3, <3>3 DEF SkipReasoning
    <3>4. QED  BY <1>4, <1>5, <3>1, <3>2, <3>3
  <2>3. QED  BY <2>1, <2>2

(* The notification of one asset. *)
NoticeAt(a) ==
    /\ Indexed(a) # {}
    /\ \A n \in Indexed(a) : PrimaryKept(runs[n])
    /\ Notify(ShownRecommendation(a)).severity # "NONE"
    => Notice(events, a) = ShownRecommendation(a)

LEMMA NoticeIsOfAssets == NotificationIsCurrent <=> \A a \in Assets : NoticeAt(a)
  BY DEF NotificationIsCurrent, NoticeAt, ShownNotification, Notice, Created

LEMMA NoticeIsOfAssetsNext == NotificationIsCurrent' <=> \A a \in Assets : NoticeAt(a)'
  BY DEF NotificationIsCurrent, NoticeAt, ShownNotification, Notice, Created

LEMMA NoticeKeeps ==
    ASSUME RunsInv, NEW b, Indexed(b)' = Indexed(b),
           \A m \in 1 .. Len(runs) : runs'[m] = runs[m],
           Notice(events', b) = Notice(events, b), NoticeAt(b)
    PROVE  NoticeAt(b)'
<1>1. Indexed(b) \subseteq 1 .. Len(runs)  BY IndexedFacts, CompletedFacts
<1>2. ASSUME Indexed(b) # {}
      PROVE  ShownRecommendation(b)' = ShownRecommendation(b)
  <2>1. LatestRun(b)' = LatestRun(b)  BY DEF LatestRun
  <2>2. LatestRun(b) \in Indexed(b)  BY <1>2, IndexedFacts
  <2>3. runs'[LatestRun(b)] = runs[LatestRun(b)]  BY <1>1, <2>2
  <2>4. runs'[LatestRun(b)'] = runs[LatestRun(b)]  BY <2>1, <2>3
  <2>5. ShownState(b)' = ShownState(b)
    <3>1. ShownState(b)' = StateForRun(runs'[LatestRun(b)'])  BY DEF ShownState, StateForRun
    <3>2. QED  BY <2>4, <3>1 DEF ShownState
  <2>6. ShownRecommendation(b)' = Recommend(ShownState(b)')  BY DEF ShownRecommendation, Recommend
  <2>7. QED  BY <2>5, <2>6 DEF ShownRecommendation
<1>3. \A n \in Indexed(b) : runs'[n] = runs[n]  BY <1>1
<1>4. NoticeAt(b)' <=>
        (/\ Indexed(b)' # {}
         /\ \A n \in Indexed(b)' : PrimaryKept(runs'[n])
         /\ Notify(ShownRecommendation(b)').severity # "NONE"
         => Notice(events', b) = ShownRecommendation(b)')
  BY DEF NoticeAt, PrimaryKept, Notify, Notice, Created
<1>5. QED  BY <1>2, <1>3, <1>4 DEF NoticeAt

(* The asset that ran: either its run told the notification, or it is the  *)
(* one told before.                                                        *)
LEMMA NoticeOfRun ==
    ASSUME PipelineInv, EventsInv, NEW a \in Assets, RunReasoning(a), NoticeAt(a)
    PROVE  NoticeAt(a)'
<1> DEFINE N == Len(runs) + 1
           new == runs'[N].announced
           ev == RunEvents(a, N, Session(a, readings[a]), readings[a], PreviousState(a), new)
           notice == Notify(Recommend(new))
<1>1. RunsInv /\ IsList(events)  BY DEF PipelineInv, EventsInv
<1>2. Concluded(runs'[N]) /\ Grows(a) /\ events' = events \o ev  BY RunAdds
<1>3. Tells(ev, a, N, PreviousState(a), new)  BY RunEventFacts
<1> HIDE DEF ev
<1>4. runs'[N].asset = a /\ runs'[N].status = "completed"
      /\ \A m \in 1 .. Len(runs) : runs'[m] = runs[m]
  BY <1>2 DEF Grows, Concluded
<1>5. Indexed(a)' = Indexed(a) \cup {N}  BY <1>1, <1>2, <1>4, GrownRuns
<1>6. /\ Indexed(a) \subseteq 1 .. Len(runs) /\ Len(runs) \in Nat
  BY <1>1, IndexedFacts, CompletedFacts
<1>7. LatestRun(a)' = N
  <2> DEFINE S == Indexed(a) \cup {N}
  <2>1. S \subseteq 0 .. N /\ N \in Nat /\ S # {} /\ N \in S
    <3>1. \A k \in 1 .. Len(runs) : k \in 0 .. N  BY <1>6
    <3>2. N \in 0 .. N /\ N \in Nat  BY <1>6
    <3> HIDE DEF N
    <3>3. QED  BY <1>6, <3>1, <3>2
  <2>2. \A y \in S : y <= N
    <3>1. \A k \in 1 .. Len(runs) : k <= N  BY <1>6
    <3>2. N <= N  BY <1>6
    <3> HIDE DEF N
    <3>3. QED  BY <1>6, <3>1, <3>2
  <2> HIDE DEF S, N
  <2>3. N = Max(S)  BY <2>1, <2>2, GreatestOf
  <2>4. LatestRun(a)' = Max(Indexed(a)')  BY DEF LatestRun, Max
  <2>5. QED  BY <1>5, <2>3, <2>4 DEF S
<1>8. SUFFICES ASSUME \A n \in Indexed(a)' : PrimaryKept(runs'[n]),
                      Notify(ShownRecommendation(a)').severity # "NONE"
               PROVE  Notice(events', a) = ShownRecommendation(a)'
  BY DEF NoticeAt, PrimaryKept, Notify, Notice, Created
<1>9. ShownRecommendation(a)' = Recommend(new)
  <2>1. PrimaryKept(runs'[N])  BY <1>5, <1>8
  <2>2. ShownState(a)' = StateForRun(runs'[N])
    <3>1. ShownState(a)' = StateForRun(runs'[LatestRun(a)'])  BY DEF ShownState, StateForRun
    <3>2. QED  BY <1>7, <3>1
  <2>3. StateForRun(runs'[N]).health = new.health /\ StateForRun(runs'[N]).risk = new.risk
    BY <1>2, <2>1, KeptPrimaryState
  <2>4. Recommend(StateForRun(runs'[N])) = Recommend(new)  BY <2>3, SameRecommendation
  <2>5. ShownRecommendation(a)' = Recommend(ShownState(a)')  BY DEF ShownRecommendation, Recommend
  <2>6. QED  BY <2>2, <2>4, <2>5
<1>10. notice.severity # "NONE" /\ notice.id = Recommend(new)  BY <1>8, <1>9, RecommendFacts
<1>11. IsList(ev) /\ \A e \in Elems(ev) : e.asset = a  BY <1>3 DEF Tells
<1> DEFINE x == Event(a, N, "NotificationCreated", "", notice.id)
<1>12. /\ x.new = notice.id
       /\ OfKind(ev, "NotificationCreated") =
            {e \in {x} : notice.severity # "NONE" /\ notice # PreviousNotification(a)}
  <2>1. x.new = notice.id  BY DEF Event
  <2>2. QED  BY <1>3, <2>1 DEF Tells
<1> HIDE DEF x, notice, new
<1>13. CASE notice # PreviousNotification(a)
  <2>1. OfKind(ev, "NotificationCreated") = {x}  BY <1>10, <1>12, <1>13
  <2>2. Notice(events', a) = x.new  BY <1>1, <1>2, <1>11, <2>1, NoticeMoves
  <2>3. QED  BY <1>9, <1>10, <1>12, <2>2
<1>14. CASE notice = PreviousNotification(a)
  <2>1. Indexed(a) # {}
    <3>1. Indexed(a) = {} => PreviousNotification(a).severity = "NONE"  BY DEF PreviousNotification
    <3>2. QED  BY <1>10, <1>14, <3>1
  <2>2. PreviousState(a) = ShownState(a)  BY <2>1 DEF PreviousState, ShownState
  <2>3. notice = Notify(ShownRecommendation(a))
    BY <1>14, <2>1, <2>2 DEF PreviousNotification, ShownRecommendation
  <2>4. notice.id = ShownRecommendation(a)
    BY <2>3, RecommendFacts DEF ShownRecommendation
  <2>5. \A n \in Indexed(a) : PrimaryKept(runs[n])
    <3>1. ASSUME NEW n \in Indexed(a) PROVE PrimaryKept(runs[n])
      <4>1. PrimaryKept(runs'[n]) /\ runs'[n] = runs[n]  BY <1>4, <1>5, <1>6, <1>8
      <4>2. QED  BY <4>1
    <3>2. QED  BY <3>1
  <2>6. Notice(events, a) = ShownRecommendation(a)  BY <1>10, <2>1, <2>3, <2>5 DEF NoticeAt
  <2>7. \A e \in Elems(ev) : ~ (e.asset = a /\ e.kind = "NotificationCreated")
    <3>1. OfKind(ev, "NotificationCreated") = {}  BY <1>12, <1>14
    <3>2. QED  BY <3>1 DEF OfKind
  <2>8. Notice(events', a) = Notice(events, a)  BY <1>1, <1>2, <1>11, <2>7, NoticeStays
  <2>9. QED  BY <1>9, <1>10, <2>4, <2>6, <2>8
<1>15. QED  BY <1>13, <1>14

LEMMA NoticeStarts == ReasoningInit => NotificationIsCurrent
<1> SUFFICES ASSUME ReasoningInit PROVE NotificationIsCurrent  OBVIOUS
<1>1. \A a : Indexed(a) = {}  BY DEF ReasoningInit, Indexed
<1>2. QED  BY <1>1 DEF NotificationIsCurrent

LEMMA NoticeStep ==
    ASSUME PipelineInv, EventsInv, NotificationIsCurrent, [ReasoningNext]_reasoningVars
    PROVE  NotificationIsCurrent'
<1>1. RunsInv /\ IsList(events)  BY DEF PipelineInv, EventsInv
<1>2. \A b \in Assets : NoticeAt(b)  BY NoticeIsOfAssets
<1>3. ASSUME runs' = runs, events' = events PROVE NotificationIsCurrent'
  <2>1. ASSUME NEW b \in Assets PROVE NoticeAt(b)'
    <3>1. Indexed(b)' = Indexed(b)  BY <1>3 DEF Indexed
    <3>2. QED  BY <1>1, <1>2, <1>3, <3>1, NoticeKeeps
  <2>2. QED  BY <2>1, NoticeIsOfAssetsNext
<1>4. ASSUME NEW a \in Assets, FailReasoning(a) PROVE NotificationIsCurrent'
  <2>1. Refused(runs'[Len(runs) + 1]) /\ Grows(a) /\ events' = events
        /\ \A m \in 1 .. Len(runs) : runs'[m] = runs[m]
    BY <1>4, FailureAdds DEF Grows
  <2>2. runs'[Len(runs) + 1].status # "completed"  BY <2>1 DEF Refused
  <2>3. ASSUME NEW b \in Assets PROVE NoticeAt(b)'
    <3>1. Indexed(b)' = Indexed(b)  BY <1>1, <2>1, <2>2, GrownRuns
    <3>2. QED  BY <1>1, <1>2, <2>1, <3>1, NoticeKeeps
  <2>4. QED  BY <2>3, NoticeIsOfAssetsNext
<1>5. ASSUME NEW a \in Assets, RunReasoning(a) PROVE NotificationIsCurrent'
  <2> DEFINE ev == RunEvents(a, Len(runs) + 1, Session(a, readings[a]), readings[a],
                             PreviousState(a), runs'[Len(runs) + 1].announced)
  <2>1. Grows(a) /\ events' = events \o ev  BY <1>5, RunAdds
  <2>2. Tells(ev, a, Len(runs) + 1, PreviousState(a), runs'[Len(runs) + 1].announced)
    BY RunEventFacts
  <2> HIDE DEF ev
  <2>3. IsList(ev) /\ \A e \in Elems(ev) : e.asset = a  BY <2>2 DEF Tells
  <2>4. /\ runs'[Len(runs) + 1].asset = a
        /\ \A m \in 1 .. Len(runs) : runs'[m] = runs[m]
    BY <2>1 DEF Grows
  <2>5. ASSUME NEW b \in Assets, b # a PROVE NoticeAt(b)'
    <3>1. Indexed(b)' = Indexed(b)  BY <1>1, <2>1, <2>4, <2>5, GrownRuns
    <3>2. \A e \in Elems(ev) : ~ (e.asset = b /\ e.kind = "NotificationCreated")  BY <2>3, <2>5
    <3>3. Notice(events', b) = Notice(events, b)  BY <1>1, <2>1, <2>3, <3>2, NoticeStays
    <3>4. QED  BY <1>1, <1>2, <2>4, <3>1, <3>3, NoticeKeeps
  <2>6. NoticeAt(a)'  BY <1>2, <1>5, NoticeOfRun
  <2>7. ASSUME NEW b \in Assets PROVE NoticeAt(b)'  BY <2>5, <2>6
  <2>8. QED  BY <2>7, NoticeIsOfAssetsNext
<1>6. QED
  <2>1. CASE UNCHANGED reasoningVars  BY <1>3, <2>1 DEF reasoningVars
  <2>2. CASE ReasoningNext
    <3>1. PICK a \in Assets :
            \/ \E sample \in Samples : Observe(a, sample)
            \/ SkipReasoning(a) \/ RunReasoning(a) \/ FailReasoning(a)
      BY <2>2 DEF ReasoningNext
    <3>2. CASE \E sample \in Samples : Observe(a, sample)  BY <1>3, <3>2 DEF Observe
    <3>3. CASE SkipReasoning(a)  BY <1>3, <3>3 DEF SkipReasoning
    <3>4. QED  BY <1>4, <1>5, <3>1, <3>2, <3>3
  <2>3. QED  BY <2>1, <2>2

----------------------------------------------------------------------------
(* What the analyses of a history say.                                     *)

LEMMA ReadableRuns ==
    ASSUME RunsInv, HistoryReadable
    PROVE  /\ Len(runs) \in Nat /\ DOMAIN runs = 1 .. Len(runs)
           /\ \A n \in 1 .. Len(runs) :
                /\ Concluded(runs[n]) /\ runs[n].plan.priority \in {"high", "low"}
                /\ PriorityRank(runs[n].plan) = IF runs[n].plan.priority = "high" THEN 3 ELSE 1
<1>1. /\ Len(runs) \in Nat /\ DOMAIN runs = 1 .. Len(runs)
      /\ \A n \in Completed : Concluded(runs[n])
  BY CompletedFacts
<1>2. \A n \in 1 .. Len(runs) : Concluded(runs[n])  BY <1>1 DEF HistoryReadable
<1>3. \A n \in 1 .. Len(runs) : runs[n].plan.priority \in {"high", "low"}  BY <1>2, RunFacts
<1>4. QED  BY <1>1, <1>2, <1>3 DEF PriorityRank

LEMMA CoherentHistory == RunsInv => HistoryIsCoherent
<1> SUFFICES ASSUME RunsInv, HistoryReadable, runs # <<>>
             PROVE  /\ \A n \in DOMAIN runs : BecameLessStable(n) => runs[n].plan.priority = "high"
                    /\ TimelineTrend = "worsening" => \E n \in DOMAIN runs : Escalated(n)
  BY DEF HistoryIsCoherent
<1>1. /\ Len(runs) \in Nat /\ DOMAIN runs = 1 .. Len(runs)
      /\ \A n \in 1 .. Len(runs) : Concluded(runs[n]) /\ PriorityRank(runs[n].plan) \in {1, 3}
  BY ReadableRuns
<1>2. ASSUME NEW n \in DOMAIN runs, BecameLessStable(n) PROVE runs[n].plan.priority = "high"
  <2>1. Concluded(runs[n])  BY <1>1
  <2>2. "unstable" \in Words(runs[n].structured.direction, runs[n].structured.level)
    BY <1>2 DEF BecameLessStable
  <2>3. runs[n].structured.direction \in Direct /\ runs[n].structured.level \in {"high", "low"}
    BY <2>1, RunFacts
  <2>4. runs[n].structured.level = "high"  BY <2>2, <2>3, WordFacts
  <2>5. QED  BY <2>1, <2>4, RunFacts
<1>3. ASSUME TimelineTrend = "worsening" PROVE \E n \in DOMAIN runs : Escalated(n)
  <2> DEFINE R(n) == PriorityRank(runs[n].plan)
             S == {n \in 1 .. Len(runs) : R(n) > R(1)}
  <2>1. Len(runs) >= 2 /\ PriorityRank(Last(runs).plan) > R(1)  BY <1>1, <1>3 DEF TimelineTrend
  <2>2. Last(runs) = runs[Len(runs)]  BY DEF Last
  <2>3. Len(runs) \in S  BY <1>1, <2>1, <2>2
  <2>4. S \subseteq Nat /\ S # {}  BY <2>3
  <2>5. PICK k \in S : \A y \in S : k <= y
    <3> HIDE DEF S
    <3>1. QED  BY <2>4, LeastOf
  <2>6. k \in 1 .. Len(runs) /\ R(k) > R(1) /\ R(1) \in {1, 3} /\ R(k) \in {1, 3}
    BY <1>1, <2>1
  <2>7. k # 1  BY <2>6
  <2>8. k - 1 \in 1 .. Len(runs) /\ k > 1 /\ ~ (k <= k - 1)  BY <1>1, <2>6, <2>7
  <2>9. k - 1 \notin S  BY <2>5, <2>8
  <2>10. ~ (R(k - 1) > R(1)) /\ R(k - 1) \in {1, 3}  BY <1>1, <2>8, <2>9
  <2>11. R(k) > R(k - 1)
    <3> HIDE DEF R
    <3>1. QED  BY <2>6, <2>10
  <2>12. Escalated(k)  BY <2>8, <2>11 DEF Escalated
  <2>13. QED  BY <1>1, <2>6, <2>12
<1>4. QED  BY <1>2, <1>3

LEMMA HighFirst == RunsInv => HighOutranksLow
<1> SUFFICES ASSUME RunsInv, HistoryReadable, NEW m \in DOMAIN runs, NEW n \in DOMAIN runs,
                    runs[m].plan.priority = "high", runs[n].plan.priority = "low"
             PROVE  RankedBefore(m, n)
  BY DEF HighOutranksLow
<1>1. /\ Len(runs) \in Nat /\ DOMAIN runs = 1 .. Len(runs)
      /\ \A k \in 1 .. Len(runs) : PriorityRank(runs[k].plan) \in {1, 3}
      /\ PriorityRank(runs[m].plan) = 3 /\ PriorityRank(runs[n].plan) = 1
  BY ReadableRuns
<1>2. AttentionScore(m) \in {3, 4, 5}  BY <1>1 DEF AttentionScore
<1>3. ~ Escalated(n)
  <2>1. SUFFICES ASSUME n > 1 PROVE ~ (PriorityRank(runs[n].plan) > PriorityRank(runs[n - 1].plan))
    BY DEF Escalated
  <2>2. n - 1 \in 1 .. Len(runs)  BY <1>1, <2>1
  <2>3. PriorityRank(runs[n - 1].plan) \in {1, 3}  BY <1>1, <2>2
  <2>4. QED  BY <1>1, <2>3
<1>4. AttentionScore(n) \in {1, 2}  BY <1>1, <1>3 DEF AttentionScore
<1>5. AttentionScore(m) > AttentionScore(n)  BY <1>2, <1>4
<1>6. QED  BY <1>5 DEF RankedBefore

LEMMA LatestIsKnown ==
    ASSUME PipelineInv, NEW a \in Assets, Indexed(a) # {}
    PROVE  LatestResponse(a) = HistoryItem(LatestRun(a))
<1>1. RunsInv  BY DEF PipelineInv
<1>2. LatestRun(a) \in 1 .. Len(runs) /\ runs[LatestRun(a)].asset = a
  BY <1>1, IndexedFacts, CompletedFacts
<1>3. readings[a] # <<>>  BY <1>2 DEF PipelineInv, KnownInv
<1>4. LatestFor(a) = {HistoryItem(LatestRun(a))}  BY <1>3 DEF LatestFor
<1> DEFINE h == HistoryItem(LatestRun(a))
<1> HIDE DEF h
<1>5. LatestFor(a) = {h}  BY <1>4 DEF h
<1>6. (CHOOSE item \in LatestFor(a) : TRUE) = h  BY <1>5
<1>7. LatestResponse(a) = h  BY <1>3, <1>5, <1>6 DEF LatestResponse
<1>8. QED  BY <1>7 DEF h

LEMMA HistoryEnds == PipelineInv => HistoryEndsWithLatest
<1> SUFFICES ASSUME PipelineInv, NEW a \in Assets, Indexed(a) # {}, NEW limit \in 1 .. Len(runs)
             PROVE  /\ Last(HistoryFor(a, limit)) = LatestResponse(a)
                    /\ \A n \in Indexed(a) : n > HistoryFor(a, limit)[1].run =>
                         \E i \in DOMAIN HistoryFor(a, limit) : HistoryFor(a, limit)[i].run = n
  BY DEF HistoryEndsWithLatest
<1> DEFINE I == Indexed(a)
           ids == [n \in DOMAIN runs |-> n]
           all == Kept(ids, I)
           newest == Recent(all, limit)
           history == [i \in DOMAIN newest |-> HistoryItem(newest[i])]
<1>1. HistoryFor(a, limit) = history  BY DEF HistoryFor
<1>2. RunsInv /\ Len(runs) \in Nat /\ DOMAIN runs = 1 .. Len(runs)
      /\ I \subseteq 1 .. Len(runs) /\ I # {} /\ limit \in Nat
  BY IndexedFacts, CompletedFacts DEF PipelineInv
<1>3. ids \in Seq(Nat) /\ Len(ids) = Len(runs) /\ \A n \in 1 .. Len(runs) : ids[n] = n
  <2>1. ids \in [1 .. Len(runs) -> Nat]  BY <1>2
  <2>2. ids \in Seq(Nat)  BY <1>2, <2>1, IsASeq
  <2>3. DOMAIN ids = 1 .. Len(runs)  BY <1>2
  <2>4. Len(ids) = Len(runs)  BY <1>2, <2>2, <2>3
  <2>5. QED  BY <1>2, <2>2, <2>4
<1> HIDE DEF ids, I
<1>4. Lists(all, ids, I)  BY <1>2, KeptLists
<1>5. all \in Seq(Nat) /\ Len(all) \in Nat  BY <1>2, <1>3, <1>4, ListFacts
<1>6. PICK e : Enumerates(e, Len(all), I) /\ all = [k \in 1 .. Len(all) |-> ids[e[k]]]
  BY <1>4 DEF Lists
<1> HIDE DEF all
<1>7. \A k \in 1 .. Len(all) : all[k] = e[k] /\ e[k] \in I /\ e[k] \in Nat
  <2> TAKE k \in 1 .. Len(all)
  <2>1. e[k] \in I  BY <1>6 DEF Enumerates
  <2>2. e[k] \in 1 .. Len(runs)  BY <1>2, <2>1
  <2>3. all[k] = ids[e[k]]  BY <1>6
  <2>4. QED  BY <1>3, <2>1, <2>2, <2>3
<1>8. newest \in Seq(Nat)  BY <1>2, <1>5, RecentFacts
<1>9. PICK low : NewestFrom(newest, all, limit, low)  BY <1>2, <1>5, RecentFacts
<1> HIDE DEF newest
<1>10. Len(all) >= 1
  <2>1. PICK i : i \in I  BY <1>2
  <2>2. PICK k \in 1 .. Len(all) : e[k] = i  BY <1>6, <2>1 DEF Enumerates
  <2>3. QED  BY <1>5, <2>2
<1>11. /\ low \in 1 .. Len(all) /\ Len(newest) = Len(all) - low + 1 /\ Len(newest) \in Nat
       /\ Len(newest) >= 1 /\ DOMAIN newest = 1 .. Len(newest)
  <2>1. limit \in Nat /\ limit >= 1  BY <1>2
  <2>2. /\ low = IF Len(all) <= limit THEN 1 ELSE Len(all) - limit + 1
        /\ Len(newest) = Len(all) - low + 1
    BY <1>9 DEF NewestFrom
  <2>3. low \in 1 .. Len(all)  BY <1>5, <1>10, <2>1, <2>2
  <2>4. Len(newest) \in Nat /\ Len(newest) >= 1  BY <1>5, <2>2, <2>3
  <2>5. DOMAIN newest = 1 .. Len(newest)  BY <1>8
  <2>6. QED  BY <2>2, <2>3, <2>4, <2>5
<1>12. \A k \in 1 .. Len(newest) : newest[k] = e[low + k - 1] /\ low + k - 1 \in 1 .. Len(all)
  <2> TAKE k \in 1 .. Len(newest)
  <2>1. low + k - 1 \in 1 .. Len(all)  BY <1>5, <1>11
  <2>2. newest[k] = all[low + k - 1]  BY <1>9 DEF NewestFrom
  <2>3. QED  BY <1>7, <2>1, <2>2
<1>13. e[Len(all)] = LatestRun(a)
  <2>1. Len(all) \in 1 .. Len(all)  BY <1>5, <1>10
  <2>2. e[Len(all)] \in I  BY <1>7, <2>1
  <2>3. \A y \in I : y <= e[Len(all)]
    <3> TAKE y \in I
    <3>1. PICK k \in 1 .. Len(all) : e[k] = y  BY <1>6 DEF Enumerates
    <3>2. CASE k = Len(all)  BY <1>7, <2>1, <3>1, <3>2
    <3>3. CASE k # Len(all)
      <4>1. k < Len(all)  BY <1>5, <3>3
      <4>2. e[k] < e[Len(all)]  BY <1>6, <2>1, <4>1 DEF Enumerates
      <4>3. QED  BY <1>7, <2>1, <3>1, <4>2
    <3>4. QED  BY <3>2, <3>3
  <2>4. I \subseteq 0 .. Len(runs)
    <3>1. \A n \in 1 .. Len(runs) : n \in 0 .. Len(runs)  BY <1>2
    <3>2. QED  BY <1>2, <3>1
  <2>5. e[Len(all)] = Max(I)  BY <1>2, <2>2, <2>3, <2>4, GreatestOf
  <2>6. QED  BY <2>5 DEF I, LatestRun
<1>14. Last(history) = HistoryItem(LatestRun(a))
  <2>1. DOMAIN history = 1 .. Len(newest)  BY <1>11
  <2>2. Len(history) = Len(newest)
    <3>1. history = [i \in 1 .. Len(newest) |-> HistoryItem(newest[i])]  BY <1>11
    <3>2. QED  BY <1>11, <3>1
  <2>3. Len(newest) \in 1 .. Len(newest) /\ low + Len(newest) - 1 = Len(all)  BY <1>5, <1>11
  <2>4. newest[Len(newest)] = LatestRun(a)  BY <1>12, <1>13, <2>3
  <2>5. Last(history) = history[Len(newest)]  BY <2>2 DEF Last
  <2>6. history[Len(newest)] = HistoryItem(newest[Len(newest)])  BY <1>11, <2>3
  <2>7. QED  BY <2>4, <2>5, <2>6
<1>15. \A k \in 1 .. Len(newest) : history[k].run = newest[k]  BY <1>11 DEF HistoryItem
<1>16. ASSUME NEW n \in I, n > history[1].run
       PROVE  \E i \in DOMAIN history : history[i].run = n
  <2>1. 1 \in 1 .. Len(newest) /\ low + 1 - 1 = low  BY <1>5, <1>11
  <2>2. history[1].run = e[low]  BY <1>12, <1>15, <2>1
  <2>3. PICK k \in 1 .. Len(all) : e[k] = n  BY <1>6 DEF Enumerates
  <2>4. ~ (k <= low)
    <3>1. SUFFICES ASSUME k <= low PROVE FALSE  OBVIOUS
    <3>2. e[k] \in Nat /\ e[low] \in Nat /\ e[k] > e[low]  BY <1>7, <1>11, <1>16, <2>2, <2>3
    <3>3. k < low => e[k] < e[low]  BY <1>6, <1>11 DEF Enumerates
    <3>4. k = low => e[k] = e[low]  OBVIOUS
    <3>5. QED  BY <1>5, <1>11, <3>1, <3>2, <3>3, <3>4
  <2>5. k - low + 1 \in 1 .. Len(newest) /\ low + (k - low + 1) - 1 = k  BY <1>5, <1>11, <2>4
  <2>6. newest[k - low + 1] = n  BY <1>12, <2>3, <2>5
  <2>7. history[k - low + 1].run = n /\ k - low + 1 \in DOMAIN history  BY <1>11, <1>15, <2>5, <2>6
  <2>8. QED  BY <2>7
<1> HIDE DEF history
<1>17. LatestResponse(a) = HistoryItem(LatestRun(a))  BY LatestIsKnown
<1>18. QED  BY <1>1, <1>14, <1>16, <1>17 DEF I

----------------------------------------------------------------------------
(* What each run concludes.                                                *)

LEMMA RunTypes == PipelineInv /\ EventsInv => ReasoningTypeOK
<1> SUFFICES ASSUME PipelineInv, EventsInv PROVE ReasoningTypeOK  OBVIOUS
<1>1. ReadingsInv /\ RunsInv  BY DEF PipelineInv
<1>2. \A a \in Assets : \A i \in DOMAIN readings[a] : readings[a][i].at \in 1 .. time
  <2>1. ASSUME NEW a \in Assets PROVE \A i \in DOMAIN readings[a] : readings[a][i].at \in 1 .. time
    <3>1. /\ readings[a] \in Seq(Reading)
          /\ \A i \in 1 .. Len(readings[a]) : readings[a][i].at \in 1 .. time
      BY <1>1 DEF ReadingsInv
    <3>2. DOMAIN readings[a] = 1 .. Len(readings[a])  BY <3>1
    <3>3. QED  BY <3>1, <3>2
  <2>2. QED  BY <2>1
<1>3. ASSUME NEW n \in DOMAIN runs
      PROVE  /\ runs[n].asset \in Assets /\ runs[n].status \in {"completed", "failed"}
             /\ runs[n].status = "completed" => Concluded(runs[n])
  <2>1. Concluded(runs[n]) \/ Refused(runs[n])  BY <1>1, CompletedFacts DEF RunsInv
  <2>2. QED  BY <2>1, RunKinds DEF Concluded, Refused
<1>4. ASSUME NEW n \in DOMAIN runs, runs[n].status = "completed"
      PROVE  /\ runs[n].structured.direction \in Direct
             /\ runs[n].confidence \in 0 .. 100
             /\ runs[n].announced.score \in 0 .. 100
             /\ \A i \in DOMAIN runs[n].hypotheses : runs[n].hypotheses[i].kind \in Kinds
  <2>1. Concluded(runs[n])  BY <1>3, <1>4
  <2>2. QED  BY <2>1, RunFacts, ConfidenceOfRun, SeverityOfRun, CausesOfRun
<1>5. \A i \in DOMAIN events : events[i].run \in Completed
  <2>1. ASSUME NEW i \in DOMAIN events PROVE events[i].run \in Completed
    <3>1. i \in 1 .. Len(events)  BY ListDomain DEF EventsInv
    <3>2. events[i] \in Elems(events)  BY <3>1 DEF Elems
    <3>3. events[i].run \in 1 .. Len(runs) /\ Concluded(runs[events[i].run])
      BY <3>2 DEF EventsInv
    <3>4. QED  BY <1>1, <3>3, CompletedFacts
  <2>2. QED  BY <2>1
<1>6. time \in 0 .. MaxClock  BY <1>1 DEF ReadingsInv
<1>7. QED  BY <1>2, <1>3, <1>4, <1>5, <1>6 DEF ReasoningTypeOK

(* What holds of every run, whatever the deployment reports. *)
RunsAgree ==
    /\ ReasoningTypeOK
    /\ HighVariationIsHighPriority /\ SeverityMatchesHealth
    /\ SettledAssetIsLow /\ GateFailsOnlyByWindow
    /\ CoolingIsNeverNamed

LEMMA RunConclusions == PipelineInv /\ EventsInv => RunsAgree
<1> SUFFICES ASSUME PipelineInv, EventsInv PROVE RunsAgree  OBVIOUS
<1>1. RunsInv  BY DEF PipelineInv
<1>2. /\ DOMAIN runs = 1 .. Len(runs)
      /\ \A n \in Completed : Concluded(runs[n])
      /\ \A n \in DOMAIN runs \ Completed : Refused(runs[n])
  BY <1>1, CompletedFacts
<1>3. HighVariationIsHighPriority  BY <1>2, RunFacts DEF HighVariationIsHighPriority
<1>4. SeverityMatchesHealth  BY <1>2, SeverityOfRun DEF SeverityMatchesHealth
<1>5. SettledAssetIsLow  BY <1>2, SettledRun DEF SettledAssetIsLow
<1>6. GateFailsOnlyByWindow  BY <1>2, RefusedByWindow DEF GateFailsOnlyByWindow
<1>7. CoolingIsNeverNamed  BY <1>2, CausesOfRun DEF CoolingIsNeverNamed
<1>8. ReasoningTypeOK  BY RunTypes
<1>9. QED  BY <1>3, <1>4, <1>5, <1>6, <1>7, <1>8 DEF RunsAgree

LEMMA AgreeingDetails ==
    ASSUME DefaultPairUnreported, RunsInv
    PROVE  DetailsAgree
<1> SUFFICES ASSUME NEW n \in Completed PROVE Agree(ShownRun(n), runs[n])  BY DEF DetailsAgree
<1>1. Concluded(runs[n])  BY CompletedFacts
<1>2. ShownRun(n) = RunDetails(runs[n])  BY DEF ShownRun, Completed
<1>3. QED  BY <1>1, <1>2, DetailsOfRun

----------------------------------------------------------------------------
(* The theorems.                                                           *)

(* The invariant of the pipeline: readings are stored in the order of their
   timestamps, every row of reasoning_runs is what a session or its failure
   stores for the readings it was given, and every event of the outbox is one
   of a run that completed. *)
THEOREM PipelineCorrect == ReasoningSpec => [](PipelineInv /\ EventsInv)
<1>1. ReasoningInit => PipelineInv /\ EventsInv  BY PipelineStarts
<1>2. PipelineInv /\ EventsInv /\ [ReasoningNext]_reasoningVars => (PipelineInv /\ EventsInv)'
  BY PipelineStep
<1>3. QED  BY <1>1, <1>2, PTL DEF ReasoningSpec

(* What one run concludes is consistent, for any assets, types and reports. *)
THEOREM RunsAreConsistent == ReasoningSpec => []RunsAgree
<1>1. PipelineInv /\ EventsInv => RunsAgree  BY RunConclusions
<1>2. QED  BY <1>1, PipelineCorrect, PTL

(* The details the router computes again agree with the run as well when the
   plant does not report the pair of types the default profile relates. *)
THEOREM ConclusionsOfRuns ==
    ASSUME DefaultPairUnreported
    PROVE  ReasoningSpec => []ConclusionsAgree
<1>1. PipelineInv /\ EventsInv => ConclusionsAgree
  <2> SUFFICES ASSUME PipelineInv, EventsInv PROVE ConclusionsAgree  OBVIOUS
  <2>1. RunsAgree  BY RunConclusions
  <2>2. DetailsAgree  BY AgreeingDetails DEF PipelineInv
  <2>3. QED  BY <2>1, <2>2 DEF RunsAgree, ConclusionsAgree
<1>2. QED  BY <1>1, PipelineCorrect, PTL

(* Health and risk events chain from run to run, and the newest notification
   of an asset is that of its latest run, as long as the window keeps the
   asset's primary type. *)
THEOREM AnnouncementsOfRuns == ReasoningSpec => []AnnouncementsFollowRuns
<1> DEFINE Inv == PipelineInv /\ EventsInv /\ TransitionsChain /\ NotificationIsCurrent
<1>1. ReasoningInit => Inv  BY PipelineStarts, ChainStarts, NoticeStarts
<1>2. Inv /\ [ReasoningNext]_reasoningVars => Inv'
  <2> SUFFICES ASSUME Inv, [ReasoningNext]_reasoningVars PROVE Inv'  OBVIOUS
  <2>1. PipelineInv' /\ EventsInv'  BY PipelineStep
  <2>2. TransitionsChain'  BY ChainStep
  <2>3. NotificationIsCurrent'  BY NoticeStep
  <2>4. QED  BY <2>1, <2>2, <2>3
<1>3. Inv => AnnouncementsFollowRuns  BY DEF AnnouncementsFollowRuns
<1> HIDE DEF Inv
<1>4. QED  BY <1>1, <1>2, <1>3, PTL DEF ReasoningSpec

(* The analyses of the registry tell one story, and every bounded history of
   an asset ends with the run shown as its latest. *)
THEOREM HistoryOfRuns == ReasoningSpec => []HistoryTellsOneStory
<1>1. PipelineInv /\ EventsInv => HistoryTellsOneStory
  BY CoherentHistory, HighFirst, HistoryEnds DEF HistoryTellsOneStory, PipelineInv
<1>2. QED  BY <1>1, PipelineCorrect, PTL

----------------------------------------------------------------------------
(* Operators' moves on the recommendations.                                *)

(* A request that was received has a recommendation and a status. *)
ReceivedInv ==
    \A p \in Request : pc[p] # "new" => req[p].rec \in Recommendation /\ req[p].status \in Rank

(* No two rows, committed or flushed, have the same occurred_at. *)
StampInv ==
    /\ \A t, u \in transitions : t.at = u.at => t = u
    /\ \A p \in Request : pc[p] = "flushed" =>
         stamp[p] \in 1 .. clock /\ \A t \in transitions : t.at # stamp[p]
    /\ \A p, q \in Request :
         (pc[p] = "flushed" /\ pc[q] = "flushed" /\ stamp[p] = stamp[q]) => p = q

(* Of a recommendation without overlaps one request at most is in flight,  *)
(* and its row will be a step forward.                                     *)
AloneInv ==
    /\ \A p, q \in Request :
         (InFlight(p) /\ InFlight(q) /\ req[p].rec = req[q].rec /\ req[p].rec \notin overlapped)
            => p = q
    /\ \A p \in Request : (InFlight(p) /\ req[p].rec \notin overlapped) =>
         \A t \in transitions : t.rec = req[p].rec =>
            t.status < req[p].status /\ (pc[p] = "flushed" => t.at < stamp[p])

InvestigationInv == TypeOK /\ ReceivedInv /\ StampInv /\ AloneInv /\ SerialHistoriesAdvance

LEMMA RowFacts ==
    ASSUME TypeOK, NEW t \in transitions
    PROVE  t.rec \in Recommendation /\ t.status \in Rank /\ t.at \in 1 .. clock
  BY DEF TypeOK

LEMMA ReqFacts ==
    ASSUME TypeOK, NEW p \in Request
    PROVE  req[p].status \in {0} \cup Rank /\ stamp[p] \in 0 .. clock /\ clock \in Nat
  BY DEF TypeOK

(* The rank that was read is at least that of every row, if the history    *)
(* has moved forward.                                                      *)
LEMMA LatestIsHighest ==
    ASSUME TypeOK, StampInv, SerialHistoriesAdvance, NEW r \in Recommendation \ overlapped,
           NEW k \in {0} \cup Rank, IsLatestRank(r, k), NEW t \in transitions, t.rec = r
    PROVE  t.status <= k
  <1>1. PICK l \in transitions : /\ l.rec = r /\ l.status = k
                                 /\ \A u \in transitions : u.rec = r => u.at <= l.at
    BY DEF IsLatestRank, RowsOf
  <1>2. CASE t.at = l.at
    BY <1>1, <1>2, RowFacts DEF StampInv, Rank
  <1>3. CASE t.at < l.at
    BY <1>1, <1>3, RowFacts DEF SerialHistoriesAdvance, Rank
  <1>4. t.at <= l.at /\ t.at \in 1 .. clock /\ l.at \in 1 .. clock
    BY <1>1, RowFacts
  <1> QED
    BY <1>2, <1>3, <1>4

LEMMA DecideInd ==
    ASSUME InvestigationInv, NEW p \in Request, Decide(p)
    PROVE  InvestigationInv'
  <1> USE DEF InvestigationInv
  <1>1. PICK k \in {0} \cup Rank :
          /\ IsLatestRank(req[p].rec, k)
          /\ pc' = [pc EXCEPT ![p] = IF Forward(req[p].status, k) THEN "accepted" ELSE "rejected"]
    BY DEF Decide
  <1>2. /\ pc[p] = "checked" /\ UNCHANGED <<current, transitions, req, stamp, clock>>
        /\ overlapped \subseteq overlapped'
        /\ \A q \in Request : (InFlight(q) /\ req[q].rec = req[p].rec) => req[p].rec \in overlapped'
    BY DEF Decide
  <1>3. overlapped' \subseteq Recommendation
    <2>1. \A q \in Request : InFlight(q) => req[q].rec \in Recommendation
      BY DEF ReceivedInv, InFlight
    <2>2. overlapped' = overlapped \cup {req[q].rec : q \in {x \in Request :
                                          InFlight(x) /\ req[x].rec = req[p].rec}}
      BY DEF Decide
    <2> QED
      BY <2>1, <2>2 DEF TypeOK
  <1>4. TypeOK' /\ ReceivedInv'
    BY <1>1, <1>2, <1>3 DEF TypeOK, ReceivedInv
  <1>5. StampInv'
    BY <1>1, <1>2 DEF TypeOK, StampInv
  <1>6. SerialHistoriesAdvance'
    BY <1>2 DEF SerialHistoriesAdvance
  <1>7. \A q \in Request : q # p => InFlight(q)' = InFlight(q) /\ pc'[q] = pc[q]
    BY <1>1 DEF TypeOK, InFlight
  <1>8. \A q1, q2 \in Request :
         (InFlight(q1)' /\ InFlight(q2)' /\ req[q1].rec = req[q2].rec /\ req[q1].rec \notin overlapped')
            => q1 = q2
    BY <1>2, <1>7 DEF AloneInv
  <1>9. ASSUME InFlight(p)', req[p].rec \notin overlapped', NEW t \in transitions, t.rec = req[p].rec
        PROVE  t.status < req[p].status /\ pc'[p] # "flushed"
    <2>1. Forward(req[p].status, k) /\ pc'[p] = "accepted"
      BY <1>1, <1>9 DEF InFlight, TypeOK
    <2>2. req[p].rec \in Recommendation \ overlapped
      BY <1>2, <1>9 DEF ReceivedInv
    <2>3. t.status <= k
      BY <1>1, <1>9, <2>2, LatestIsHighest
    <2> QED
      BY <2>1, <2>3, RowFacts, ReqFacts DEF Forward, Rank
  <1>10. ASSUME NEW q \in Request, InFlight(q)', req[q].rec \notin overlapped',
                NEW t \in transitions, t.rec = req[q].rec
         PROVE  t.status < req[q].status /\ (pc'[q] = "flushed" => t.at < stamp[q])
    <2>1. CASE q = p
      BY <1>9, <1>10, <2>1
    <2>2. CASE q # p
      BY <1>2, <1>7, <1>10, <2>2 DEF AloneInv
    <2> QED
      BY <2>1, <2>2
  <1>11. AloneInv'
    BY <1>2, <1>8, <1>10 DEF AloneInv
  <1> QED
    BY <1>4, <1>5, <1>6, <1>11

LEMMA SaveInd ==
    ASSUME InvestigationInv, NEW p \in Request, Save(p)
    PROVE  InvestigationInv'
  <1> USE DEF InvestigationInv
  <1>1. /\ pc[p] = "accepted" /\ clock' = clock + 1 /\ UNCHANGED <<current, transitions, req, overlapped>>
        /\ stamp' = [stamp EXCEPT ![p] = clock + 1] /\ pc' = [pc EXCEPT ![p] = "flushed"]
    BY DEF Save
  <1>2. /\ clock \in Nat /\ clock' \in Nat /\ clock + 1 \in 1 .. clock'
        /\ \A n \in 0 .. clock : n \in 0 .. clock'
        /\ \A n \in 1 .. clock : n \in 1 .. clock'
    <2>1. clock \in Nat
      BY DEF TypeOK
    <2> QED
      BY <1>1, <2>1
  <1>3. \A q \in Request : q # p => stamp'[q] = stamp[q] /\ pc'[q] = pc[q]
    BY <1>1 DEF TypeOK
  <1>4. stamp'[p] = clock + 1 /\ pc'[p] = "flushed"
    BY <1>1 DEF TypeOK
  <1>5. TypeOK'
    <2>1. transitions' \subseteq [id : Request, rec : Recommendation, status : Rank, at : 1 .. clock']
      BY <1>1, <1>2 DEF TypeOK
    <2>2. stamp' \in [Request -> 0 .. clock']
      <3>1. clock + 1 \in 0 .. clock'
        BY <1>2
      <3>2. stamp \in [Request -> 0 .. clock]
        BY DEF TypeOK
      <3>3. \A q \in Request : stamp'[q] \in 0 .. clock'
        BY <1>1, <1>2, <3>1, <3>2
      <3> QED
        BY <1>1, <3>2, <3>3
    <2> QED
      BY <1>1, <1>2, <2>1, <2>2 DEF TypeOK
  <1>6. ReceivedInv' /\ SerialHistoriesAdvance'
    BY <1>1, <1>3, <1>4 DEF ReceivedInv, SerialHistoriesAdvance
  <1>7. \A t \in transitions : t.at < clock + 1 /\ t.at # clock + 1
    BY <1>2, RowFacts
  <1>8. StampInv'
    <2>1. \A t, u \in transitions' : t.at = u.at => t = u
      BY <1>1 DEF StampInv
    <2>2. \A q \in Request : pc'[q] = "flushed" =>
            stamp'[q] \in 1 .. clock' /\ \A t \in transitions' : t.at # stamp'[q]
      BY <1>1, <1>2, <1>3, <1>4, <1>7 DEF StampInv
    <2>3. \A q \in Request : (q # p /\ pc[q] = "flushed") => stamp[q] # clock + 1
      BY <1>2 DEF StampInv
    <2>4. \A q1, q2 \in Request :
            (pc'[q1] = "flushed" /\ pc'[q2] = "flushed" /\ stamp'[q1] = stamp'[q2]) => q1 = q2
      BY <1>3, <1>4, <2>3 DEF StampInv
    <2> QED
      BY <2>1, <2>2, <2>4 DEF StampInv
  <1>9. \A q \in Request : InFlight(q)' = InFlight(q)
    BY <1>1, <1>3, <1>4 DEF InFlight
  <1>10. AloneInv'
    BY <1>1, <1>3, <1>4, <1>7, <1>9 DEF AloneInv
  <1> QED
    BY <1>5, <1>6, <1>8, <1>10

LEMMA CommitInd ==
    ASSUME InvestigationInv, NEW p \in Request, Commit(p)
    PROVE  InvestigationInv'
  <1> USE DEF InvestigationInv
  <1> DEFINE row == [id |-> p, rec |-> req[p].rec, status |-> req[p].status, at |-> stamp[p]]
  <1>1. /\ pc[p] = "flushed" /\ transitions' = transitions \cup {row}
        /\ pc' = [pc EXCEPT ![p] = "recorded"] /\ UNCHANGED <<current, req, stamp, clock, overlapped>>
    BY DEF Commit
  <1>2. row.rec = req[p].rec /\ row.status = req[p].status /\ row.at = stamp[p]
    OBVIOUS
  <1>3. row \in [id : Request, rec : Recommendation, status : Rank, at : 1 .. clock]
    BY <1>1 DEF ReceivedInv, StampInv
  <1> HIDE DEF row
  <1>4. TypeOK' /\ ReceivedInv'
    BY <1>1, <1>3 DEF TypeOK, ReceivedInv
  <1>5. \A q \in Request : /\ q # p => pc'[q] = pc[q] /\ InFlight(q)' = InFlight(q)
                           /\ ~InFlight(p)' /\ pc'[p] # "flushed"
    BY <1>1 DEF TypeOK, InFlight
  <1>6. StampInv'
    <2>1. \A t \in transitions : t.at # row.at
      BY <1>1, <1>2 DEF StampInv
    <2>2. \A q \in Request : (q # p /\ pc[q] = "flushed") => stamp[q] # row.at
      BY <1>1, <1>2 DEF StampInv
    <2> QED
      BY <1>1, <1>5, <2>1, <2>2 DEF StampInv
  <1>7. InFlight(p)
    BY <1>1 DEF InFlight
  <1>8. \A t \in transitions : (t.rec = row.rec /\ t.rec \notin overlapped) =>
            t.status < row.status /\ t.at < row.at
    BY <1>1, <1>2, <1>7 DEF AloneInv
  <1>9. SerialHistoriesAdvance'
    <2>1. \A t \in transitions : t.at < row.at => ~(row.at < t.at)
      BY <1>3, RowFacts, ReqFacts
    <2>2. ~(row.at < row.at)
      BY <1>2, ReqFacts
    <2> QED
      BY <1>1, <1>8, <2>1, <2>2 DEF SerialHistoriesAdvance
  <1>10. AloneInv'
    <2>1. \A q \in Request : (InFlight(q)' /\ req[q].rec \notin overlapped) => req[q].rec # row.rec
      BY <1>2, <1>5, <1>7 DEF AloneInv
    <2> QED
      BY <1>1, <1>5, <2>1 DEF AloneInv
  <1> QED
    BY <1>4, <1>6, <1>9, <1>10

LEMMA ReceiveInd ==
    ASSUME InvestigationInv, NEW p \in Request, Receive(p)
    PROVE  InvestigationInv'
  <1> USE DEF InvestigationInv
  <1>1. PICK r \in Recommendation, s \in Rank :
          /\ req' = [req EXCEPT ![p] = [rec |-> r, status |-> s]]
          /\ pc' = [pc EXCEPT ![p] = IF r = current THEN "checked" ELSE "not found"]
          /\ UNCHANGED <<current, transitions, stamp, clock, overlapped>>
    BY DEF Receive
  <1>2. TypeOK'
    BY <1>1 DEF TypeOK
  <1>3. \A q \in Request : q # p => req'[q] = req[q] /\ pc'[q] = pc[q] /\ InFlight(q)' = InFlight(q)
    BY <1>1 DEF TypeOK, InFlight
  <1>4. req'[p].rec = r /\ req'[p].status = s /\ ~InFlight(p)' /\ pc'[p] # "flushed"
    BY <1>1 DEF TypeOK, InFlight
  <1>5. UNCHANGED <<transitions, stamp, clock, overlapped>>
    BY <1>1
  <1>6. ReceivedInv'
    BY <1>3, <1>4 DEF ReceivedInv
  <1>7. StampInv' /\ SerialHistoriesAdvance'
    BY <1>3, <1>4, <1>5 DEF StampInv, SerialHistoriesAdvance
  <1>8. AloneInv'
    BY <1>3, <1>4, <1>5 DEF AloneInv
  <1> QED
    BY <1>2, <1>6, <1>7, <1>8

LEMMA OtherInd ==
    ASSUME InvestigationInv, Supersede \/ (\E p \in Request : Fail(p)) \/ UNCHANGED vars
    PROVE  InvestigationInv'
  <1>1. UNCHANGED <<transitions, req, stamp, clock, overlapped>> /\ current' \in Recommendation
    BY DEF Supersede, Fail, vars, InvestigationInv, TypeOK
  <1>2. /\ pc' \in [Request -> {"new", "checked", "accepted", "flushed", "recorded",
                           "rejected", "not found", "failed"}]
        /\ \A q \in Request : pc'[q] = pc[q] \/ (pc'[q] = "failed" /\ InFlight(q))
    BY DEF Supersede, Fail, vars, InvestigationInv, TypeOK
  <1>3. TypeOK' /\ ReceivedInv' /\ SerialHistoriesAdvance'
    BY <1>1, <1>2 DEF InvestigationInv, TypeOK, ReceivedInv, SerialHistoriesAdvance, InFlight
  <1>4. StampInv' /\ AloneInv'
    BY <1>1, <1>2 DEF InvestigationInv, StampInv, AloneInv, InFlight
  <1> QED
    BY <1>3, <1>4 DEF InvestigationInv

(* The inductive invariant. *)
THEOREM InvestigationInvariant == Spec => []InvestigationInv
  <1>1. Init => InvestigationInv
    BY DEF Init, InvestigationInv, TypeOK, ReceivedInv, StampInv, AloneInv, SerialHistoriesAdvance, InFlight
  <1>2. InvestigationInv /\ [Next]_vars => InvestigationInv'
    BY ReceiveInd, DecideInd, SaveInd, CommitInd, OtherInd DEF Next
  <1> QED
    BY <1>1, <1>2, PTL DEF Spec

(* The table, the requests and the clock keep their types. *)
THEOREM InvestigationTypes == Spec => []TypeOK
  <1>1. InvestigationInv => TypeOK
    BY DEF InvestigationInv
  <1> QED
    BY <1>1, InvestigationInvariant, PTL

(* InvestigationService's forward-only rule holds for any requests and any *)
(* interleaving, as far as requests for one recommendation do not overlap. *)
THEOREM SerialHistoriesAdvanceHolds == Spec => []SerialHistoriesAdvance
  <1>1. InvestigationInv => SerialHistoriesAdvance
    BY DEF InvestigationInv
  <1> QED
    BY <1>1, InvestigationInvariant, PTL
=============================================================================
