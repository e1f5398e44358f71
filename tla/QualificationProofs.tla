------------------------ MODULE QualificationProofs ------------------------
(***************************************************************************)
(* Theorems about the qualification report: its counters are those of the  *)
(* requests made, its percentiles are in order and within the latencies    *)
(* measured, and GO bounds how many requests went wrong or were slow, for  *)
(* every number of samples, all latencies and all limits.                  *)
(***************************************************************************)
EXTENDS Qualification, FiniteSetTheorems, SequenceTheorems, WellFoundedInduction, TLAPS

-----------------------------------------------------------------------------
(* Least numbers and counts                                                 *)

LessOnNat == {ss \in Nat \X Nat : ss[1] < ss[2]}

(* No sequence of numbers decreases for ever.                               *)
LEMMA LessOnNatWellFounded == IsWellFoundedOn(LessOnNat, Nat)
  BY NatLessThanWellFounded DEF OpToRel, LessOnNat

(* A set of numbers that is not empty has a least one: the form in which    *)
(* induction over numbers is used below.                                    *)
LEMMA LeastNumber ==
    ASSUME NEW T \in SUBSET Nat, T # {}
    PROVE  \E x \in T : \A y \in T : x <= y
<1>1. PICK x \in T : \A y \in T : ~(<<y, x>> \in LessOnNat)
  BY LessOnNatWellFounded, WFMin, Zenon
<1>2. ASSUME NEW y \in T PROVE x <= y
  <2>1. x \in Nat /\ y \in Nat
    OBVIOUS
  <2>2. ~(y < x)
    BY <1>1, <2>1 DEF LessOnNat
  <2> QED
    BY <2>1, <2>2
<1> QED
  BY <1>2

(* A set of places of a sequence of length n is finite and has at most n.   *)
LEMMA Places ==
    ASSUME NEW n \in Nat, NEW A \in SUBSET (1 .. n)
    PROVE  IsFiniteSet(A) /\ Cardinality(A) \in Nat /\ Cardinality(A) <= n
<1>1. IsFiniteSet(1 .. n) /\ Cardinality(1 .. n) = n
  BY FS_Interval
<1>2. IsFiniteSet(A) /\ Cardinality(A) <= n
  BY <1>1, FS_Subset
<1> QED
  BY <1>2, FS_CardinalityType

(* A sequence of length n has n places.                                     *)
LEMMA AllPlaces ==
    ASSUME NEW n \in Nat
    PROVE  Cardinality(1 .. n) = n
  BY FS_Interval

(* Fewer places are no more places.                                         *)
LEMMA FewerPlaces ==
    ASSUME NEW n \in Nat, NEW A \in SUBSET (1 .. n), NEW B \in SUBSET A
    PROVE  Cardinality(B) <= Cardinality(A)
  BY Places, FS_Subset

(* The elements of s that are in A, counted.                                *)
Hits(s, A) == Cardinality({i \in 1 .. Len(s) : s[i] \in A})

(* One more element is one more hit if it is in A, and none otherwise.      *)
LEMMA HitsAppend ==
    ASSUME NEW S, NEW s \in Seq(S), NEW x \in S, NEW A
    PROVE  Hits(s, A) \in Nat /\ Hits(Append(s, x), A) = Plus(Hits(s, A), x \in A)
<1> DEFINE n == Len(s)
           t == Append(s, x)
           old == {i \in 1 .. n : s[i] \in A}
           new == {i \in 1 .. n + 1 : t[i] \in A}
<1>1. n \in Nat /\ Len(t) = n + 1 /\ t[n + 1] = x /\ \A i \in 1 .. n : t[i] = s[i]
  BY LenProperties
<1> HIDE DEF n, t
<1>2. IsFiniteSet(old) /\ Cardinality(old) \in Nat
  <2>1. old \in SUBSET (1 .. n)
    OBVIOUS
  <2> QED
    BY <1>1, <2>1, Places
<1>3. n + 1 \notin old
  BY <1>1
<1>4. new = IF x \in A THEN old \cup {n + 1} ELSE old
  BY <1>1
<1>5. Cardinality(old \cup {n + 1}) = Cardinality(old) + 1
  BY <1>2, <1>3, FS_AddElement, Zenon
<1>6. Hits(s, A) = Cardinality(old)
  BY Zenon DEF Hits, n
<1>7. Hits(t, A) = Cardinality(new)
  BY <1>1, Zenon DEF Hits
<1> HIDE DEF old, new
<1>8. Cardinality(new) = Plus(Cardinality(old), x \in A)
  BY <1>4, <1>5, Zenon DEF Plus
<1> QED
  BY <1>2, <1>6, <1>7, <1>8, Zenon DEF t

(* The empty sequence has no hits.                                          *)
LEMMA HitsOfNone ==
    ASSUME NEW A
    PROVE  Hits(<< >>, A) = 0
<1>1. {i \in 1 .. Len(<< >>) : << >>[i] \in A} = {}
  OBVIOUS
<1> QED
  BY <1>1, FS_EmptySet, Zenon DEF Hits

-----------------------------------------------------------------------------
(* sorted()                                                                 *)

(* A sequence of numbers has a bound.                                       *)
LEMMA SeqBounded ==
    ASSUME NEW s \in Seq(Nat)
    PROVE  \E b \in Nat : \A i \in 1 .. Len(s) : s[i] <= b
<1> DEFINE T == {m \in Nat : m <= Len(s) /\ ~\E b \in Nat : \A i \in 1 .. m : s[i] <= b}
<1>0. Len(s) \in Nat /\ \A i \in 1 .. Len(s) : s[i] \in Nat
  BY LenProperties, ElementOfSeq
<1>1. CASE T = {}
  <2>1. Len(s) \notin T
    BY <1>1
  <2> QED
    BY <1>0, <2>1
<1>2. CASE T # {}
  <2>1. T \in SUBSET Nat
    OBVIOUS
  <2>2. PICK m \in T : \A y \in T : m <= y
    <3> HIDE DEF T
    <3> QED
      BY <1>2, <2>1, LeastNumber, Zenon
  <2>3. m \in Nat /\ m <= Len(s) /\ ~\E b \in Nat : \A i \in 1 .. m : s[i] <= b
    BY <2>2
  <2>4. m # 0
    BY <2>3
  <2>5. m - 1 \in Nat /\ m - 1 <= Len(s) /\ ~(m <= m - 1)
    BY <1>0, <2>3, <2>4
  <2>6. m - 1 \notin T
    BY <2>2, <2>5
  <2>7. PICK b \in Nat : \A i \in 1 .. m - 1 : s[i] <= b
    BY <2>5, <2>6
  <2> HIDE DEF T
  <2>8. s[m] \in Nat
    BY <1>0, <2>3, <2>4
  <2> DEFINE c == b + s[m]
  <2>9. c \in Nat /\ b <= c /\ s[m] <= c
    BY <2>8
  <2> HIDE DEF c
  <2>10. ASSUME NEW i \in 1 .. m PROVE s[i] <= c
    <3>1. CASE i = m
      BY <2>9, <3>1
    <3>2. CASE i # m
      <4>1. i \in 1 .. m - 1 /\ i \in 1 .. Len(s)
        BY <1>0, <2>3, <3>2
      <4>2. s[i] \in Nat /\ s[i] <= b
        BY <1>0, <2>7, <4>1
      <4> QED
        BY <2>9, <4>2
    <3> QED
      BY <3>1, <3>2
  <2> QED
    BY <2>3, <2>9, <2>10
<1> QED
  BY <1>1, <1>2

IsRanked(s, k, v) == Cardinality(Below(s, v)) < k /\ k <= Cardinality(UpTo(s, v))

(* The counts of sorted() are numbers up to the length.                     *)
LEMMA RankCounts ==
    ASSUME NEW s \in Seq(Nat), NEW v
    PROVE  /\ Below(s, v) \in SUBSET (1 .. Len(s)) /\ UpTo(s, v) \in SUBSET (1 .. Len(s))
           /\ Cardinality(Below(s, v)) \in Nat /\ Cardinality(UpTo(s, v)) \in Nat
           /\ Cardinality(UpTo(s, v)) <= Len(s)
<1>1. Len(s) \in Nat
  BY LenProperties
<1>2. Below(s, v) \in SUBSET (1 .. Len(s)) /\ UpTo(s, v) \in SUBSET (1 .. Len(s))
  BY DEF Below, UpTo
<1> QED
  BY <1>1, <1>2, Places

(* There is a k-th value, for every k up to the length.                     *)
LEMMA RankExists ==
    ASSUME NEW s \in Seq(Nat), NEW k \in 1 .. Len(s)
    PROVE  \E v \in {s[i] : i \in 1 .. Len(s)} : IsRanked(s, k, v)
<1>0. Len(s) \in Nat /\ \A i \in 1 .. Len(s) : s[i] \in Nat
  BY LenProperties, ElementOfSeq
<1> DEFINE T == {u \in Nat : k <= Cardinality(UpTo(s, u))}
<1>1. T # {}
  <2>1. PICK b \in Nat : \A i \in 1 .. Len(s) : s[i] <= b
    BY SeqBounded
  <2>2. UpTo(s, b) = 1 .. Len(s)
    BY <2>1 DEF UpTo
  <2>3. Cardinality(1 .. Len(s)) = Len(s)
    BY <1>0, AllPlaces
  <2> QED
    BY <1>0, <2>2, <2>3
<1>2. PICK v \in T : \A y \in T : v <= y
  <2>1. T \in SUBSET Nat
    OBVIOUS
  <2> HIDE DEF T
  <2> QED
    BY <1>1, <2>1, LeastNumber, Zenon
<1>3. v \in Nat /\ k <= Cardinality(UpTo(s, v))
  BY <1>2
<1>4. Cardinality(Below(s, v)) < k
  <2>1. CASE v = 0
    <3>1. Below(s, v) = {}
      BY <1>0, <2>1 DEF Below
    <3> QED
      BY <1>0, <3>1, FS_EmptySet
  <2>2. CASE v # 0
    <3>1. v - 1 \in Nat /\ ~(v <= v - 1)
      BY <1>3, <2>2
    <3>2. v - 1 \notin T
      BY <1>2, <3>1
    <3>3. Below(s, v) = UpTo(s, v - 1)
      BY <1>0, <1>3, <3>1 DEF Below, UpTo
    <3>4. ~(k <= Cardinality(UpTo(s, v - 1)))
      BY <3>1, <3>2
    <3> QED
      BY <1>0, <3>3, <3>4, RankCounts
  <2> QED
    BY <2>1, <2>2
<1>5. v \in {s[i] : i \in 1 .. Len(s)}
  <2>1. Below(s, v) # UpTo(s, v)
    BY <1>0, <1>3, <1>4, RankCounts
  <2>2. PICK i \in 1 .. Len(s) : ~(s[i] < v <=> s[i] <= v)
    BY <2>1 DEF Below, UpTo
  <2>3. s[i] = v
    BY <1>0, <1>3, <2>2
  <2> QED
    BY <2>3
<1> QED
  BY <1>3, <1>4, <1>5 DEF IsRanked

(* sorted() keeps the length, and its k-th element is of rank k.            *)
LEMMA SortedIs ==
    ASSUME NEW s \in Seq(Nat)
    PROVE  /\ Sorted(s) \in Seq(Nat) /\ Len(Sorted(s)) = Len(s)
           /\ \A k \in 1 .. Len(s) : /\ Sorted(s)[k] \in {s[i] : i \in 1 .. Len(s)}
                                     /\ Sorted(s)[k] \in Nat
                                     /\ IsRanked(s, k, Sorted(s)[k])
<1> DEFINE V == {s[i] : i \in 1 .. Len(s)}
           f(k) == CHOOSE v \in V : IsRanked(s, k, v)
<1>0. Len(s) \in Nat /\ V \subseteq Nat
  BY LenProperties, ElementOfSeq
<1>1. ASSUME NEW k \in 1 .. Len(s) PROVE f(k) \in V /\ IsRanked(s, k, f(k))
  <2>1. \E v \in V : IsRanked(s, k, v)
    BY RankExists
  <2> HIDE DEF V
  <2> QED
    BY <2>1, Zenon
<1>2. Sorted(s) = [k \in 1 .. Len(s) |-> f(k)]
  BY Zenon DEF Sorted, IsRanked
<1>3. \A k \in 1 .. Len(s) : Sorted(s)[k] = f(k)
  BY <1>2, Zenon
<1> HIDE DEF V, f
<1>4. \A k \in 1 .. Len(s) : Sorted(s)[k] \in V /\ Sorted(s)[k] \in Nat /\ IsRanked(s, k, Sorted(s)[k])
  BY <1>0, <1>1, <1>3, Zenon
<1>5. Sorted(s) \in [1 .. Len(s) -> Nat]
  BY <1>0, <1>1, <1>2
<1>6. Sorted(s) \in Seq(Nat) /\ Len(Sorted(s)) = Len(s)
  BY <1>0, <1>5
<1> QED
  BY <1>4, <1>6, Zenon DEF V

(* What is sorted is in order.                                              *)
LEMMA SortedInOrder ==
    ASSUME NEW s \in Seq(Nat), NEW j \in 1 .. Len(s), NEW k \in 1 .. Len(s), j <= k
    PROVE  Sorted(s)[j] <= Sorted(s)[k]
<1> DEFINE u == Sorted(s)[j]
           v == Sorted(s)[k]
<1>0. Len(s) \in Nat /\ \A i \in 1 .. Len(s) : s[i] \in Nat
  BY LenProperties, ElementOfSeq
<1>1. u \in Nat /\ v \in Nat /\ IsRanked(s, j, u) /\ IsRanked(s, k, v)
  BY SortedIs, Zenon
<1> HIDE DEF u, v
<1>2. ASSUME v < u PROVE FALSE
  <2>1. UpTo(s, v) \subseteq Below(s, u)
    BY <1>0, <1>1, <1>2 DEF UpTo, Below
  <2>2. Cardinality(UpTo(s, v)) <= Cardinality(Below(s, u))
    BY <1>0, <2>1, RankCounts, FewerPlaces
  <2> QED
    BY <1>1, <2>2, RankCounts DEF IsRanked
<1>3. u <= v
  BY <1>1, <1>2
<1> QED
  BY <1>3 DEF u, v

-----------------------------------------------------------------------------
(* _percentile                                                              *)

LowRank(n, q) == ((n - 1) * q) \div 100
HighRank(n, q) == IF LowRank(n, q) + 1 < n THEN LowRank(n, q) + 1 ELSE n - 1
Fraction(n, q) == ((n - 1) * q) % 100
Mix(a, b, f) == a * (100 - f) + b * f

(* A product of numbers grows with each factor.                             *)
LEMMA TimesMonotone ==
    ASSUME NEW a \in Nat, NEW b \in Nat, NEW c \in Nat, a <= b
    PROVE  a * c <= b * c /\ c * a <= c * b /\ a * c \in Nat
  BY SMT

(* An interpolated value is between its neighbours, by its weight.          *)
LEMMA MixBetween ==
    ASSUME NEW a \in Nat, NEW b \in Nat, NEW f \in 0 .. 100, NEW g \in 0 .. 100, a <= b, f <= g
    PROVE  /\ Mix(a, b, f) \in Nat
           /\ 100 * a <= Mix(a, b, f) /\ Mix(a, b, f) <= 100 * b
           /\ Mix(a, b, f) <= Mix(a, b, g)
<1> DEFINE d == b - a
<1>1. d \in Nat /\ b = a + d
  OBVIOUS
<1>2. \A x \in 0 .. 100 : Mix(a, b, x) = 100 * a + d * x
  BY <1>1, SMT DEF Mix
<1> HIDE DEF d
<1>3. d * f \in Nat /\ d * g \in Nat /\ d * f <= d * g /\ d * f <= d * 100
  BY <1>1, TimesMonotone
<1>4. 100 * b = 100 * a + d * 100
  BY <1>1
<1>5. Mix(a, b, f) = 100 * a + d * f /\ Mix(a, b, g) = 100 * a + d * g
  BY <1>2
<1> DEFINE df == d * f
           dg == d * g
           dh == d * 100
<1>6. /\ df \in Nat /\ dg \in Nat /\ df <= dg /\ df <= dh /\ dh \in Nat
      /\ 100 * b = 100 * a + dh /\ Mix(a, b, f) = 100 * a + df /\ Mix(a, b, g) = 100 * a + dg
  BY <1>1, <1>3, <1>4, <1>5
<1> HIDE DEF df, dg, dh
<1> QED
  BY <1>6

(* The two ranks of _percentile are neighbours within the list.             *)
LEMMA Ranks ==
    ASSUME NEW n \in Nat \ {0}, NEW q \in 0 .. 100
    PROVE  /\ LowRank(n, q) \in 0 .. n - 1
           /\ HighRank(n, q) \in LowRank(n, q) .. n - 1 /\ HighRank(n, q) <= LowRank(n, q) + 1
           /\ Fraction(n, q) \in 0 .. 99
           /\ (n - 1) * q \in Nat /\ (n - 1) * q = 100 * LowRank(n, q) + Fraction(n, q)
<1> DEFINE x == (n - 1) * q
<1>1. x \in Nat /\ x <= (n - 1) * 100
  BY TimesMonotone
<1> HIDE DEF x
<1>2. x \div 100 \in Nat /\ x % 100 \in 0 .. 99 /\ x = 100 * (x \div 100) + (x % 100)
  BY <1>1, SMT
<1>3. x \div 100 <= n - 1
  BY <1>1, <1>2, SMT
<1>4. LowRank(n, q) = x \div 100 /\ Fraction(n, q) = x % 100
  BY DEF LowRank, Fraction, x
<1>5. LowRank(n, q) \in 0 .. n - 1
  BY <1>2, <1>3, <1>4
<1>6. HighRank(n, q) \in LowRank(n, q) .. n - 1 /\ HighRank(n, q) <= LowRank(n, q) + 1
  BY <1>5 DEF HighRank
<1> QED
  BY <1>1, <1>2, <1>4, <1>5, <1>6 DEF x

(* A percentile lies between the two values it mixes.                       *)
LEMMA PercentileIs ==
    ASSUME NEW s \in Seq(Nat), Len(s) >= 1, NEW q \in 0 .. 100
    PROVE  LET n == Len(s)
               low == Sorted(s)[LowRank(n, q) + 1]
               high == Sorted(s)[HighRank(n, q) + 1]
           IN  /\ Percentile(s, q) = Mix(low, high, Fraction(n, q))
               /\ low \in Nat /\ high \in Nat /\ low <= high
               /\ Percentile(s, q) \in Nat
               /\ 100 * low <= Percentile(s, q) /\ Percentile(s, q) <= 100 * high
<1> DEFINE n == Len(s)
           data == Sorted(s)
           low == data[LowRank(n, q) + 1]
           high == data[HighRank(n, q) + 1]
<1>0. n \in Nat \ {0}
  BY LenProperties
<1>1. /\ LowRank(n, q) \in 0 .. n - 1 /\ HighRank(n, q) \in LowRank(n, q) .. n - 1
      /\ Fraction(n, q) \in 0 .. 99
  <2> HIDE DEF n
  <2> QED
    BY <1>0, Ranks, Zenon
<1>2. LowRank(n, q) + 1 \in 1 .. n /\ HighRank(n, q) + 1 \in 1 .. n /\ LowRank(n, q) + 1 <= HighRank(n, q) + 1
  <2> HIDE DEF n
  <2> QED
    BY <1>0, <1>1
<1>3. low \in Nat /\ high \in Nat /\ low <= high
  <2> HIDE DEF n, data
  <2>1. low \in Nat /\ high \in Nat
    BY <1>2, SortedIs, Zenon DEF n, data
  <2>2. low <= high
    BY <1>2, SortedInOrder, Zenon DEF n, data
  <2> QED
    BY <2>1, <2>2
<1>4. Fraction(n, q) \in 0 .. 100 /\ Fraction(n, q) <= Fraction(n, q)
  <2> DEFINE f == Fraction(n, q)
  <2>1. f \in 0 .. 99
    BY <1>1, Zenon
  <2> HIDE DEF f
  <2>2. f \in 0 .. 100 /\ f <= f
    BY <2>1
  <2> QED
    BY <2>2 DEF f
<1>5. data \in Seq(Nat) /\ Len(data) = n /\ data # << >>
  BY <1>0, SortedIs
<1>6. Percentile(s, q) = Mix(low, high, Fraction(n, q))
  <2> HIDE DEF n
  <2> QED
    BY <1>5, Zenon DEF Percentile, Mix, LowRank, HighRank, Fraction
<1> HIDE DEF low, high
<1>7. /\ Mix(low, high, Fraction(n, q)) \in Nat
      /\ 100 * low <= Mix(low, high, Fraction(n, q)) /\ Mix(low, high, Fraction(n, q)) <= 100 * high
  BY <1>3, <1>4, MixBetween
<1> QED
  BY <1>3, <1>6, <1>7, Zenon DEF low, high

(* A higher percentile is not smaller.                                      *)
LEMMA PercentilesMonotone ==
    ASSUME NEW s \in Seq(Nat), Len(s) >= 1, NEW q \in 0 .. 100, NEW r \in 0 .. 100, q <= r
    PROVE  Percentile(s, q) <= Percentile(s, r)
<1> DEFINE n == Len(s)
           at(k) == Sorted(s)[k + 1]
           lq == LowRank(n, q)
           hq == HighRank(n, q)
           fq == Fraction(n, q)
           lr == LowRank(n, r)
           hr == HighRank(n, r)
           fr == Fraction(n, r)
<1>1. n \in Nat \ {0}
  BY LenProperties
<1>2. /\ lq \in 0 .. n - 1 /\ hq \in lq .. n - 1 /\ hq <= lq + 1 /\ fq \in 0 .. 99
      /\ lr \in 0 .. n - 1 /\ hr \in lr .. n - 1 /\ fr \in 0 .. 99
  BY <1>1, Ranks
<1>3. (n - 1) * q <= (n - 1) * r
  <2> DEFINE m == n - 1
  <2>1. m \in Nat
    BY <1>1
  <2> HIDE DEF m
  <2>2. m * q <= m * r
    BY <2>1, TimesMonotone
  <2> QED
    BY <2>2 DEF m
<1>4. 100 * lq + fq <= 100 * lr + fr
  <2>1. (n - 1) * q = 100 * lq + fq /\ (n - 1) * r = 100 * lr + fr
    <3> HIDE DEF n
    <3> QED
      BY <1>1, Ranks, Zenon
  <2> QED
    BY <1>3, <2>1, Zenon
<1>5. lq = lr => hq = hr
  BY DEF HighRank
<1>6. /\ Percentile(s, q) = Mix(at(lq), at(hq), fq)
      /\ at(lq) \in Nat /\ at(hq) \in Nat /\ at(lq) <= at(hq)
      /\ Percentile(s, q) \in Nat /\ Percentile(s, q) <= 100 * at(hq)
  <2> HIDE DEF n
  <2> QED
    BY PercentileIs, Zenon DEF n
<1>7. /\ Percentile(s, r) = Mix(at(lr), at(hr), fr)
      /\ at(lr) \in Nat
      /\ Percentile(s, r) \in Nat /\ 100 * at(lr) <= Percentile(s, r)
  <2> HIDE DEF n
  <2> QED
    BY PercentileIs, Zenon DEF n
<1> HIDE DEF lq, hq, fq, lr, hr, fr
<1>8. CASE lq = lr
  <2>1. fq <= fr /\ fq \in 0 .. 100 /\ fr \in 0 .. 100
    BY <1>2, <1>4, <1>8
  <2>2. Mix(at(lq), at(hq), fq) <= Mix(at(lq), at(hq), fr)
    <3> HIDE DEF at
    <3> QED
      BY <1>6, <2>1, MixBetween
  <2> QED
    BY <1>5, <1>6, <1>7, <1>8, <2>2
<1>9. CASE lq # lr
  <2>1. hq + 1 \in 1 .. n /\ lr + 1 \in 1 .. n /\ hq + 1 <= lr + 1
    <3> HIDE DEF n, at
    <3>1. lq < lr
      BY <1>2, <1>4, <1>9
    <3> QED
      BY <1>1, <1>2, <3>1
  <2>2. at(hq) <= at(lr)
    BY <2>1, SortedInOrder
  <2> HIDE DEF at
  <2> QED
    BY <1>6, <1>7, <2>2
<1> QED
  BY <1>8, <1>9

-----------------------------------------------------------------------------
(* The sample loop                                                          *)

Requests == [scenario : SampleScenarios, answer : QualAnswers, latency : Latencies]

Errors == {x \in Requests : x.answer.error}
Fallbacks == {x \in Requests : x.answer.fallback}
ForOmega == {x \in Requests : ~ExpectedFallback(x.scenario)}
Unexpected == {x \in Requests : ~ExpectedFallback(x.scenario) /\ x.answer.fallback}
Cell(s, v) == {x \in Requests : x.scenario = s /\ MatrixVerdict(x.answer.verdict) = v}

Summary ==
    [total |-> AtLeastOne(Len(latencies)), errors |-> error_count, fallbacks |-> fallback_count,
     unexpected |-> unexpected_fallback_count, matrix |-> verdict_matrix,
     p50 |-> Percentile(latencies, 50), p95 |-> Percentile(latencies, 95),
     p99 |-> Percentile(latencies, 99), blockers |-> Blockers,
     decision |-> IF Blockers = {} THEN "GO" ELSE "NO-GO"]

QualTypeOK ==
    /\ samples \in Int
    /\ phase \in {"sampling", "raised", "written"}
    /\ latencies \in Seq(Nat)
    /\ log \in Seq(Requests)
    /\ verdict_matrix \in [SampleScenarios -> [Verdicts -> Nat]]

(* Every counter is the number of requests it is about.                     *)
CountersInv ==
    /\ error_count = Hits(log, Errors)
    /\ fallback_count = Hits(log, Fallbacks)
    /\ non_fallback_expected_total = Hits(log, ForOmega)
    /\ unexpected_fallback_count = Hits(log, Unexpected)
    /\ \A s \in SampleScenarios, v \in Verdicts : verdict_matrix[s][v] = Hits(log, Cell(s, v))

LatenciesInv ==
    /\ Len(latencies) = Len(log)
    /\ \A i \in 1 .. Len(log) : latencies[i] = log[i].latency

(* A report is that of the requests made, and nothing comes after it.       *)
ReportInv ==
    /\ phase = "sampling" => report = {}
    /\ \A p \in report : p = Summary /\ Len(log) >= 1

QualInv == QualTypeOK /\ CountersInv /\ LatenciesInv /\ ReportInv

(* Before the first sample.                                                 *)
LEMMA InitQualInv ==
    ASSUME QualificationConstants, Init
    PROVE  QualInv
<1>1. QualTypeOK
  BY DEF Init, QualTypeOK, QualificationConstants
<1>2. CountersInv
  BY HitsOfNone DEF Init, CountersInv
<1>3. LatenciesInv /\ ReportInv
  BY DEF Init, LatenciesInv, ReportInv
<1> QED
  BY <1>1, <1>2, <1>3 DEF QualInv

(* A sample keeps the counters those of the samples.                        *)
LEMMA SampleQualInv ==
    ASSUME QualificationConstants, QualInv,
           NEW s \in SampleScenarios, NEW a \in QualAnswers, NEW ms \in Latencies, Sample(s, a, ms)
    PROVE  QualInv'
<1> DEFINE x == [scenario |-> s, answer |-> a, latency |-> ms]
           mv == MatrixVerdict(a.verdict)
<1>0. x \in Requests /\ ms \in Nat /\ mv \in Verdicts
  BY DEF Requests, QualificationConstants, MatrixVerdict, Verdicts
<1>1. log \in Seq(Requests) /\ log' = Append(log, x) /\ latencies' = Append(latencies, ms)
  BY DEF QualInv, QualTypeOK, Sample
<1>2. \A A : Hits(log, A) \in Nat /\ Hits(log', A) = Plus(Hits(log, A), x \in A)
  <2> HIDE DEF x
  <2> QED
    BY <1>0, <1>1, HitsAppend, Zenon
<1>3. /\ x \in Errors <=> a.error
      /\ x \in Fallbacks <=> a.fallback
      /\ x \in ForOmega <=> ~ExpectedFallback(s)
      /\ x \in Unexpected <=> ~ExpectedFallback(s) /\ a.fallback
      /\ \A t, v : x \in Cell(t, v) <=> s = t /\ mv = v
  BY <1>0 DEF Errors, Fallbacks, ForOmega, Unexpected, Cell
<1>4. /\ verdict_matrix' = [verdict_matrix EXCEPT ![s] = [verdict_matrix[s] EXCEPT ![mv] = verdict_matrix[s][mv] + 1]]
      /\ verdict_matrix \in [SampleScenarios -> [Verdicts -> Nat]]
  BY DEF Sample, QualInv, QualTypeOK
<1>5. QualTypeOK'
  <2>1. log' \in Seq(Requests)
    <3> HIDE DEF x
    <3> QED
      BY <1>0, <1>1
  <2>2. latencies' \in Seq(Nat)
    BY <1>0, <1>1 DEF QualInv, QualTypeOK
  <2>3. verdict_matrix' \in [SampleScenarios -> [Verdicts -> Nat]]
    <3> HIDE DEF mv
    <3> QED
      BY <1>0, <1>4
  <2> QED
    BY <2>1, <2>2, <2>3 DEF QualTypeOK, QualInv, Sample
<1> HIDE DEF x, mv
<1>6. CountersInv'
  <2>1. error_count' = Hits(log, Errors)'
    BY <1>2, <1>3 DEF Sample, QualInv, CountersInv, Plus
  <2>2. fallback_count' = Hits(log', Fallbacks)
    BY <1>2, <1>3 DEF Sample, QualInv, CountersInv, Plus
  <2>3. non_fallback_expected_total' = Hits(log', ForOmega)
    BY <1>2, <1>3 DEF Sample, QualInv, CountersInv, Plus
  <2>4. unexpected_fallback_count' = Hits(log', Unexpected)
    BY <1>2, <1>3 DEF Sample, QualInv, CountersInv, Plus
  <2>5. ASSUME NEW t \in SampleScenarios, NEW v \in Verdicts
        PROVE  verdict_matrix'[t][v] = Hits(log', Cell(t, v))
    <3>1. verdict_matrix[t][v] = Hits(log, Cell(t, v))
      BY DEF QualInv, CountersInv
    <3>2. Hits(log', Cell(t, v)) = IF s = t /\ mv = v THEN Hits(log, Cell(t, v)) + 1 ELSE Hits(log, Cell(t, v))
      BY <1>2, <1>3 DEF Plus
    <3>3. verdict_matrix'[t][v] = IF s = t /\ mv = v THEN verdict_matrix[t][v] + 1 ELSE verdict_matrix[t][v]
      BY <1>0, <1>4
    <3> QED
      BY <3>1, <3>2, <3>3
  <2> QED
    BY <2>1, <2>2, <2>3, <2>4, <2>5, Zenon DEF CountersInv, Errors, Fallbacks, ForOmega, Unexpected, Cell
<1>7. LatenciesInv'
  <2>1. Len(latencies) \in Nat /\ Len(log) = Len(latencies) /\ latencies \in Seq(Nat)
    BY LenProperties DEF QualInv, QualTypeOK, LatenciesInv
  <2>2. x.latency = ms
    BY DEF x
  <2>3. /\ Len(log') = Len(log) + 1 /\ Len(latencies') = Len(log) + 1
        /\ log'[Len(log) + 1] = x /\ latencies'[Len(log) + 1] = ms
        /\ \A i \in 1 .. Len(log) : log'[i] = log[i] /\ latencies'[i] = latencies[i]
    BY <1>0, <1>1, <2>1
  <2>4. ASSUME NEW i \in 1 .. Len(log) + 1 PROVE latencies'[i] = log'[i].latency
    <3>1. CASE i = Len(log) + 1
      BY <2>2, <2>3, <3>1
    <3>2. CASE i # Len(log) + 1
      <4>1. i \in 1 .. Len(log)
        BY <2>1, <3>2
      <4> QED
        BY <2>3, <4>1 DEF QualInv, LatenciesInv
    <3> QED
      BY <3>1, <3>2
  <2> QED
    BY <2>3, <2>4, Zenon DEF LatenciesInv
<1>8. ReportInv'
  BY DEF Sample, QualInv, ReportInv
<1> QED
  BY <1>5, <1>6, <1>7, <1>8 DEF QualInv

(* The summary depends on nothing but the counters and the latencies.       *)
LEMMA SummaryFollows ==
    ASSUME latencies' = latencies, error_count' = error_count, fallback_count' = fallback_count,
           unexpected_fallback_count' = unexpected_fallback_count,
           non_fallback_expected_total' = non_fallback_expected_total,
           verdict_matrix' = verdict_matrix
    PROVE  Summary' = Summary
<1>1. Blockers' = Blockers
  BY Zenon DEF Blockers
<1> QED
  BY <1>1, Zenon DEF Summary

(* Every step of the report keeps the invariant.                            *)
LEMMA NextQualInv ==
    ASSUME QualificationConstants, QualInv, [Next]_qualVars
    PROVE  QualInv'
<1>1. ASSUME NEW s \in SampleScenarios, NEW a \in QualAnswers, NEW ms \in Latencies, Sample(s, a, ms)
      PROVE  QualInv'
  BY <1>1, SampleQualInv
<1>2. CASE SampleRaises
  <2>1. QualTypeOK'
    BY <1>2 DEF QualInv, QualTypeOK, SampleRaises
  <2>2. CountersInv' /\ LatenciesInv'
    BY <1>2, Zenon DEF QualInv, CountersInv, LatenciesInv, SampleRaises, counters
  <2>3. ReportInv'
    BY <1>2 DEF QualInv, ReportInv, SampleRaises
  <2> QED
    BY <2>1, <2>2, <2>3 DEF QualInv
<1>3. CASE Write
  <2>1. QualTypeOK'
    BY <1>3 DEF QualInv, QualTypeOK, Write
  <2>2. CountersInv' /\ LatenciesInv'
    BY <1>3, Zenon DEF QualInv, CountersInv, LatenciesInv, Write, counters
  <2>3. report' = {Summary} /\ Summary' = Summary
    <3>1. /\ latencies' = latencies /\ error_count' = error_count /\ fallback_count' = fallback_count
        /\ unexpected_fallback_count' = unexpected_fallback_count
        /\ non_fallback_expected_total' = non_fallback_expected_total
        /\ verdict_matrix' = verdict_matrix
      BY <1>3 DEF Write, counters
    <3>2. Summary' = Summary
      BY <3>1, SummaryFollows
    <3> QED
      BY <1>3, <3>2, Zenon DEF Write, Summary
  <2>4. Len(log') >= 1
    <3>1. Len(log) = AtLeastOne(samples) /\ log' = log
      BY <1>3 DEF QualInv, LatenciesInv, Write
    <3>2. samples \in Int
      BY DEF QualInv, QualTypeOK
    <3>3. AtLeastOne(samples) >= 1
      BY <3>2 DEF AtLeastOne
    <3> QED
      BY <3>1, <3>3, Zenon
  <2>5. phase' # "sampling"
    BY <1>3 DEF Write
  <2>6. ReportInv'
    BY <2>3, <2>4, <2>5, Zenon DEF ReportInv
  <2> QED
    BY <2>1, <2>2, <2>6 DEF QualInv
<1>4. CASE UNCHANGED qualVars
  <2>1. Summary' = Summary
    <3>1. /\ latencies' = latencies /\ error_count' = error_count /\ fallback_count' = fallback_count
        /\ unexpected_fallback_count' = unexpected_fallback_count
        /\ non_fallback_expected_total' = non_fallback_expected_total
        /\ verdict_matrix' = verdict_matrix
      BY <1>4 DEF qualVars, counters
    <3> QED
      BY <3>1, SummaryFollows
  <2>2. QualTypeOK'
    BY <1>4 DEF QualInv, QualTypeOK, qualVars
  <2>3. CountersInv' /\ LatenciesInv'
    BY <1>4, Zenon DEF QualInv, CountersInv, LatenciesInv, qualVars, counters
  <2>4. ReportInv'
    BY <1>4, <2>1, Zenon DEF QualInv, ReportInv, qualVars
  <2> QED
    BY <2>2, <2>3, <2>4 DEF QualInv
<1> QED
  BY <1>1, <1>2, <1>3, <1>4, Zenon DEF Next

(* The invariant of the qualification report.                               *)
LEMMA QualInvariant ==
    ASSUME QualificationConstants
    PROVE  Spec => []QualInv
<1>1. Init => QualInv
  BY InitQualInv
<1>2. QualInv /\ [Next]_qualVars => QualInv'
  BY NextQualInv
<1> QED
  BY <1>1, <1>2, PTL DEF Spec

-----------------------------------------------------------------------------
(* Theorems                                                                 *)

(* A report is the summary of the requests made.                            *)
LEMMA ReportFacts ==
    ASSUME QualificationConstants, QualInv, NEW p \in report
    PROVE  /\ p = Summary
           /\ Len(log) \in Nat /\ Len(log) >= 1
           /\ Len(latencies) = Len(log) /\ latencies \in Seq(Nat)
           /\ \A i \in 1 .. Len(log) : /\ log[i] \in Requests /\ log[i].latency \in Nat
                                        /\ latencies[i] = log[i].latency
<1>1. log \in Seq(Requests) /\ latencies \in Seq(Nat)
  BY DEF QualInv, QualTypeOK
<1>2. Len(log) \in Nat /\ \A i \in 1 .. Len(log) : log[i] \in Requests
  BY <1>1, LenProperties, ElementOfSeq
<1>3. p = Summary /\ Len(log) >= 1
  BY DEF QualInv, ReportInv
<1>4. Len(latencies) = Len(log) /\ \A i \in 1 .. Len(log) : latencies[i] = log[i].latency
  BY DEF QualInv, LatenciesInv
<1>5. \A i \in 1 .. Len(log) : log[i].latency \in Nat
  BY <1>2 DEF Requests, QualificationConstants
<1> QED
  BY <1>1, <1>2, <1>3, <1>4, <1>5, Zenon

(* The report accounts for every request: the counters and the matrix are   *)
(* those of the requests made, an answer without a verdict of its own under *)
(* quarantine, for every number of samples and all answers.                 *)
THEOREM ReportCountsTheSamplesHolds ==
    ASSUME QualificationConstants
    PROVE  Spec => []ReportCountsTheSamples
<1>1. ASSUME QualInv PROVE ReportCountsTheSamples
  <2> SUFFICES ASSUME NEW p \in report
               PROVE  /\ p.total = Len(log) /\ Len(log) >= 1
                      /\ p.errors = Count(LAMBDA x : x.answer.error)
                      /\ p.fallbacks = Count(LAMBDA x : x.answer.fallback)
                      /\ p.unexpected = Count(LAMBDA x : x.answer.fallback /\ x.scenario # "quarantine")
                      /\ \A s \in SampleScenarios :
                           /\ p.matrix[s]["allow"] = Count(LAMBDA x : x.scenario = s /\ x.answer.verdict = "allow")
                           /\ p.matrix[s]["block"] = Count(LAMBDA x : x.scenario = s /\ x.answer.verdict = "block")
                           /\ p.matrix[s]["quarantine"] =
                                 Count(LAMBDA x : x.scenario = s /\ x.answer.verdict \notin {"allow", "block"})
    BY Zenon DEF ReportCountsTheSamples
  <2>0. \A i \in 1 .. Len(log) : log[i] \in Requests
    BY <1>1, ReportFacts, Zenon
  <2>1. p.total = Len(log) /\ Len(log) >= 1
    BY <1>1, ReportFacts DEF Summary, AtLeastOne
  <2>2. /\ p.errors = Hits(log, Errors) /\ p.fallbacks = Hits(log, Fallbacks)
        /\ p.unexpected = Hits(log, Unexpected)
        /\ \A s \in SampleScenarios, v \in Verdicts : p.matrix[s][v] = Hits(log, Cell(s, v))
    BY <1>1, ReportFacts DEF Summary, QualInv, CountersInv
  <2>3. {i \in 1 .. Len(log) : log[i] \in Errors} = {i \in 1 .. Len(log) : log[i].answer.error}
    BY <2>0 DEF Errors
  <2>4. {i \in 1 .. Len(log) : log[i] \in Fallbacks} = {i \in 1 .. Len(log) : log[i].answer.fallback}
    BY <2>0 DEF Fallbacks
  <2>5. {i \in 1 .. Len(log) : log[i] \in Unexpected}
          = {i \in 1 .. Len(log) : log[i].answer.fallback /\ log[i].scenario # "quarantine"}
    BY <2>0 DEF Unexpected, ExpectedFallback
  <2>6. ASSUME NEW s \in SampleScenarios
        PROVE  /\ p.matrix[s]["allow"] = Count(LAMBDA x : x.scenario = s /\ x.answer.verdict = "allow")
               /\ p.matrix[s]["block"] = Count(LAMBDA x : x.scenario = s /\ x.answer.verdict = "block")
               /\ p.matrix[s]["quarantine"] =
                     Count(LAMBDA x : x.scenario = s /\ x.answer.verdict \notin {"allow", "block"})
    <3>1. {i \in 1 .. Len(log) : log[i] \in Cell(s, "allow")}
            = {i \in 1 .. Len(log) : log[i].scenario = s /\ log[i].answer.verdict = "allow"}
      BY <2>0 DEF Cell, MatrixVerdict, Verdicts
    <3>2. {i \in 1 .. Len(log) : log[i] \in Cell(s, "block")}
            = {i \in 1 .. Len(log) : log[i].scenario = s /\ log[i].answer.verdict = "block"}
      BY <2>0 DEF Cell, MatrixVerdict, Verdicts
    <3>3. {i \in 1 .. Len(log) : log[i] \in Cell(s, "quarantine")}
            = {i \in 1 .. Len(log) : log[i].scenario = s /\ log[i].answer.verdict \notin {"allow", "block"}}
      BY <2>0 DEF Cell, MatrixVerdict, Verdicts
    <3>4. /\ p.matrix[s]["allow"] = Hits(log, Cell(s, "allow"))
          /\ p.matrix[s]["block"] = Hits(log, Cell(s, "block"))
          /\ p.matrix[s]["quarantine"] = Hits(log, Cell(s, "quarantine"))
      BY <2>2 DEF Verdicts
    <3> QED
      BY <3>1, <3>2, <3>3, <3>4, Zenon DEF Count, Hits
  <2> QED
    BY <2>1, <2>2, <2>3, <2>4, <2>5, <2>6, Zenon DEF Count, Hits
<1> QED
  BY <1>1, QualInvariant, PTL

(* The percentiles of a report are in order and within the latencies that   *)
(* were measured, for every number of samples and all latencies.            *)
THEOREM PercentilesInOrderHolds ==
    ASSUME QualificationConstants
    PROVE  Spec => []PercentilesInOrder
<1>1. ASSUME QualInv PROVE PercentilesInOrder
  <2> SUFFICES ASSUME NEW p \in report
               PROVE  /\ \E i \in 1 .. Len(log) : 100 * log[i].latency <= p.p50
                      /\ p.p50 <= p.p95 /\ p.p95 <= p.p99
                      /\ \E i \in 1 .. Len(log) : p.p99 <= 100 * log[i].latency
    BY Zenon DEF PercentilesInOrder
  <2> DEFINE n == Len(latencies)
             low == Sorted(latencies)[LowRank(n, 50) + 1]
             high == Sorted(latencies)[HighRank(n, 99) + 1]
  <2>0. n \in Nat \ {0} /\ n >= 1 /\ n = Len(log) /\ latencies \in Seq(Nat)
    BY <1>1, ReportFacts
  <2>1. /\ p.p50 = Percentile(latencies, 50) /\ p.p95 = Percentile(latencies, 95)
        /\ p.p99 = Percentile(latencies, 99)
    BY <1>1, ReportFacts DEF Summary
  <2>2. p.p50 <= p.p95 /\ p.p95 <= p.p99
    BY <2>0, <2>1, PercentilesMonotone
  <2>3. LowRank(n, 50) + 1 \in 1 .. n /\ HighRank(n, 99) + 1 \in 1 .. n
    <3> HIDE DEF n
    <3>1. LowRank(n, 50) \in 0 .. n - 1 /\ LowRank(n, 99) \in 0 .. n - 1
      BY <2>0, Ranks
    <3>2. HighRank(n, 99) \in LowRank(n, 99) .. n - 1
      BY <2>0, Ranks
    <3> QED
      BY <2>0, <3>1, <3>2
  <2>4. 100 * low <= p.p50 /\ p.p99 <= 100 * high
    <3>0. 50 \in 0 .. 100 /\ 99 \in 0 .. 100
      OBVIOUS
    <3>1. 100 * low <= Percentile(latencies, 50)
      BY <2>0, <3>0, PercentileIs, Zenon
    <3>2. Percentile(latencies, 99) <= 100 * high
      BY <2>0, <3>0, PercentileIs, Zenon
    <3> QED
      BY <2>1, <3>1, <3>2, Zenon
  <2>5. PICK i \in 1 .. n : low = latencies[i]
    BY <2>0, <2>3, SortedIs
  <2>6. PICK j \in 1 .. n : high = latencies[j]
    BY <2>0, <2>3, SortedIs
  <2>7. i \in 1 .. Len(log) /\ j \in 1 .. Len(log)
    BY <2>0, Zenon
  <2>8. low = log[i].latency /\ high = log[j].latency
    BY <1>1, <2>5, <2>6, <2>7, ReportFacts, Zenon
  <2> HIDE DEF low, high, n
  <2> QED
    BY <2>2, <2>4, <2>7, <2>8, Zenon
<1> QED
  BY <1>1, QualInvariant, PTL

(* A p95 below the limit bounds the slow latencies: those up to the lower   *)
(* of the two ranks it mixes are fast.                                      *)
LEMMA FewAreSlow ==
    ASSUME NEW s \in Seq(Nat), Len(s) >= 1, NEW slow \in Nat, Percentile(s, 95) < 100 * slow
    PROVE  Cardinality({i \in 1 .. Len(s) : s[i] >= slow}) <= Len(s) - 1 - LowRank(Len(s), 95)
<1> DEFINE n == Len(s)
           k == LowRank(n, 95) + 1
           v == Sorted(s)[k]
           Slow == {i \in 1 .. n : s[i] >= slow}
<1>0. n \in Nat \ {0} /\ 95 \in 0 .. 100 /\ \A i \in 1 .. n : s[i] \in Nat
  BY LenProperties, ElementOfSeq
<1>1. k \in 1 .. n
  <2> HIDE DEF n
  <2>1. LowRank(n, 95) \in 0 .. n - 1
    BY <1>0, Ranks
  <2> QED
    BY <1>0, <2>1
<1>2. v \in Nat /\ 100 * v <= Percentile(s, 95) /\ Percentile(s, 95) \in Nat
  BY <1>0, PercentileIs, Zenon
<1>3. k <= Cardinality(UpTo(s, v))
  BY <1>1, SortedIs, Zenon DEF IsRanked
<1> HIDE DEF v, k
<1>4. v < slow
  BY <1>2
<1>5. UpTo(s, v) \cap Slow = {}
  BY <1>0, <1>2, <1>4 DEF UpTo
<1>6. UpTo(s, v) \in SUBSET (1 .. n) /\ Slow \in SUBSET (1 .. n)
  BY DEF UpTo
<1> HIDE DEF Slow, n
<1>7. /\ IsFiniteSet(UpTo(s, v)) /\ Cardinality(UpTo(s, v)) \in Nat
      /\ IsFiniteSet(Slow) /\ Cardinality(Slow) \in Nat
      /\ Cardinality(UpTo(s, v) \cup Slow) <= n
  <2>1. UpTo(s, v) \cup Slow \in SUBSET (1 .. n)
    BY <1>6
  <2> QED
    BY <1>0, <1>6, <2>1, Places
<1>8. Cardinality(UpTo(s, v) \cup Slow) = Cardinality(UpTo(s, v)) + Cardinality(Slow)
  <2>1. Cardinality(UpTo(s, v) \cup Slow)
          = Cardinality(UpTo(s, v)) + Cardinality(Slow) - Cardinality(UpTo(s, v) \cap Slow)
    BY <1>7, FS_Union, Zenon
  <2>2. Cardinality(UpTo(s, v) \cap Slow) = 0
    BY <1>5, FS_EmptySet, Zenon
  <2> QED
    BY <1>7, <2>1, <2>2
<1>9. Cardinality(Slow) <= n - k
  BY <1>0, <1>1, <1>3, <1>7, <1>8
<1>10. n - k = n - 1 - LowRank(n, 95)
  <2>1. LowRank(n, 95) \in Int
    BY <1>0, Ranks
  <2> QED
    BY <1>0, <2>1 DEF k
<1> QED
  BY <1>9, <1>10, Zenon DEF Slow, n

(* Two limits on rates bound the requests that meet one of them.            *)
LEMMA RatesAdd ==
    ASSUME NEW r \in Nat, NEW u \in Nat, NEW e \in Nat, NEW b \in Nat,
           NEW f \in Nat, NEW n \in Nat, b <= u + e, r * u <= f, r * e < n
    PROVE  r * b < f + n
<1>1. r * b <= r * (u + e)
  BY TimesMonotone
<1>2. r * (u + e) = r * u + r * e
  OBVIOUS
<1>3. r * b \in Nat /\ r * u \in Nat /\ r * e \in Nat
  OBVIOUS
<1> QED
  BY <1>1, <1>2, <1>3

(* What GO is worth: of the requests that should reach Omega no more than   *)
(* the two rates allow were left without its verdict, and of all requests   *)
(* no more were slow than p95 can hide, for all limits.                     *)
THEOREM GoIsEarnedHolds ==
    ASSUME QualificationConstants
    PROVE  Spec => []GoIsEarned
<1>1. ASSUME QualInv PROVE GoIsEarned
  <2> DEFINE n == Len(log)
             Bad == {i \in 1 .. n : log[i].scenario # "quarantine" /\ (log[i].answer.fallback \/ log[i].answer.error)}
             Sent == {i \in 1 .. n : log[i].scenario # "quarantine"}
             Late == {i \in 1 .. n : log[i].latency >= SlowMs}
  <2> SUFFICES ASSUME NEW p \in report, p.decision = "GO"
               PROVE  /\ RateScale * Cardinality(Bad) < AtLeastOne(Cardinality(Sent)) + n
                      /\ Cardinality(Late) <= n - 1 - (95 * (n - 1)) \div 100
    BY Zenon DEF GoIsEarned, Count
  <2>0. /\ n \in Nat /\ n >= 1 /\ Len(latencies) = n /\ latencies \in Seq(Nat)
        /\ \A i \in 1 .. n : /\ log[i] \in Requests /\ log[i].latency \in Nat
                              /\ latencies[i] = log[i].latency
    BY <1>1, ReportFacts, Zenon
  <2>1. Blockers = {}
    BY <1>1, ReportFacts DEF Summary
  <2>2. /\ ~(RateScale * unexpected_fallback_count > AtLeastOne(non_fallback_expected_total))
        /\ ~(RateScale * error_count >= AtLeastOne(n))
        /\ ~(Percentile(latencies, 95) >= 100 * SlowMs)
    BY <2>0, <2>1 DEF Blockers
  <2>3. RateScale * Cardinality(Bad) < AtLeastOne(Cardinality(Sent)) + n
    <3> DEFINE U == {i \in 1 .. n : log[i] \in Unexpected}
               E == {i \in 1 .. n : log[i] \in Errors}
    <3>1. /\ unexpected_fallback_count = Cardinality(U) /\ error_count = Cardinality(E)
      BY <1>1, Zenon DEF QualInv, CountersInv, Hits
    <3>2. {i \in 1 .. n : log[i] \in ForOmega} = Sent
      BY <2>0 DEF ForOmega, ExpectedFallback
    <3>3. non_fallback_expected_total = Cardinality(Sent)
      BY <1>1, <3>2, Zenon DEF QualInv, CountersInv, Hits
    <3>4. Bad \subseteq U \cup E
      BY <2>0 DEF Unexpected, Errors, ExpectedFallback
    <3>5. /\ U \in SUBSET (1 .. n) /\ E \in SUBSET (1 .. n) /\ U \cup E \in SUBSET (1 .. n)
          /\ Bad \in SUBSET (1 .. n) /\ Sent \in SUBSET (1 .. n) /\ U \cap E \in SUBSET (1 .. n)
      OBVIOUS
    <3> HIDE DEF U, E, Bad, Sent, n
    <3>6. /\ Cardinality(U) \in Nat /\ Cardinality(E) \in Nat /\ Cardinality(Bad) \in Nat
          /\ Cardinality(Sent) \in Nat /\ Cardinality(U \cap E) \in Nat
          /\ IsFiniteSet(U) /\ IsFiniteSet(E)
      BY <2>0, <3>5, Places
    <3>7. Cardinality(Bad) <= Cardinality(U \cup E)
      BY <2>0, <3>4, <3>5, FewerPlaces
    <3>8. Cardinality(U \cup E) = Cardinality(U) + Cardinality(E) - Cardinality(U \cap E)
      BY <3>6, FS_Union, Zenon
    <3>9. Cardinality(Bad) <= Cardinality(U) + Cardinality(E)
      BY <3>6, <3>7, <3>8
    <3>10. RateScale \in Nat /\ AtLeastOne(n) = n /\ AtLeastOne(Cardinality(Sent)) \in Nat
      BY <2>0, <3>6 DEF QualificationConstants, AtLeastOne
    <3>11. RateScale * Cardinality(U) <= AtLeastOne(Cardinality(Sent)) /\ RateScale * Cardinality(E) < n
      BY <2>0, <2>2, <3>1, <3>3, <3>6, <3>10
    <3> QED
      BY <2>0, <3>6, <3>9, <3>10, <3>11, RatesAdd
  <2>4. Cardinality(Late) <= n - 1 - (95 * (n - 1)) \div 100
    <3>1. SlowMs \in Nat
      BY DEF QualificationConstants
    <3>2. 95 \in 0 .. 100
      OBVIOUS
    <3>3. Percentile(latencies, 95) \in Nat
      BY <2>0, <3>2, PercentileIs, Zenon
    <3>4. Percentile(latencies, 95) < 100 * SlowMs
      BY <2>2, <3>1, <3>3
    <3>5. Late = {i \in 1 .. Len(latencies) : latencies[i] >= SlowMs}
      BY <2>0
    <3>6. Cardinality(Late) <= n - 1 - LowRank(n, 95)
      <4> HIDE DEF Late, n
      <4> QED
        BY <2>0, <3>1, <3>4, <3>5, FewAreSlow, Zenon
    <3>7. LowRank(n, 95) = (95 * (n - 1)) \div 100
      BY <2>0 DEF LowRank
    <3> QED
      BY <3>6, <3>7, Zenon
  <2> QED
    BY <2>3, <2>4
<1> QED
  BY <1>1, QualInvariant, PTL
=============================================================================
