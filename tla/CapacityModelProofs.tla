------------------------- MODULE CapacityModelProofs -------------------------
(***************************************************************************)
(* What a row can change of the answers of obs-advisor: theorems about     *)
(* module CapacityModel, for every set of rows, of loads and of            *)
(* retentions, and for tables of every length.                             *)
(***************************************************************************)
EXTENDS CapacityModel, FiniteSetTheorems, SequenceTheorems, TLAPS

-----------------------------------------------------------------------------
(* Induction over a set of numbers: a set that is closed under the successor *)
(* leaves out no least number.                                              *)

LEMMA NatSetInduction ==
  ASSUME NEW S, 0 \in S, \A n \in Nat : n \in S => n + 1 \in S
  PROVE  \A n \in Nat : n \in S
<1> DEFINE T == Nat \ S
<1>1. SUFFICES ASSUME T # {} PROVE FALSE
  OBVIOUS
<1>2. IsWellFoundedOn(OpToRel(<, Nat), Nat)
  BY NatLessThanWellFounded
<1>3. T \subseteq Nat
  OBVIOUS
<1> HIDE DEF T
<1>4. PICK x \in T : \A y \in T : ~ (<< y, x >> \in OpToRel(<, Nat))
  BY <1>1, <1>2, <1>3, WFMin
<1>5. \A y \in T : ~ (y < x)
  BY <1>3, <1>4 DEF OpToRel
<1>6. x # 0 /\ x \in Nat
  BY <1>3 DEF T
<1>7. x - 1 \in Nat /\ x - 1 < x
  BY <1>6
<1>8. x - 1 \in S
  BY <1>5, <1>7 DEF T
<1> QED
  BY <1>6, <1>7, <1>8 DEF T

\* A finite set of numbers that is not empty has a least one.
LEMMA LeastExists ==
  ASSUME NEW S \in SUBSET Nat, S # {}
  PROVE  Min(S) \in S /\ \A n \in S : Min(S) <= n
<1>1. IsWellFoundedOn(OpToRel(<, Nat), Nat)
  BY NatLessThanWellFounded
<1>2. PICK x \in S : \A y \in S : ~ (<< y, x >> \in OpToRel(<, Nat))
  BY <1>1, WFMin
<1>3. ASSUME NEW y \in S PROVE x <= y
  <2>1. x \in Nat /\ y \in Nat
    OBVIOUS
  <2>2. ~ (y < x)
    BY <1>2, <2>1 DEF OpToRel
  <2> QED
    BY <2>1, <2>2
<1> QED
  BY <1>3 DEF Min

-----------------------------------------------------------------------------
(* Sorting. *)

\* A finite set that is not empty has a greatest value.
LEMMA GreatestExists ==
  ASSUME NEW D, IsFiniteSet(D), D # {}, NEW v \in [D -> Int]
  PROVE  \E m \in D : \A d \in D : v[d] <= v[m]
<1> DEFINE Has(E, w) == \E m \in E : \A d \in E : w[d] <= w[m]
           N == { n \in Nat : \A E : \A w \in [E -> Int] :
                    IsFiniteSet(E) /\ Cardinality(E) = n + 1 => Has(E, w) }
<1>1. 0 \in N
  <2>1. SUFFICES ASSUME NEW E, NEW w \in [E -> Int], IsFiniteSet(E), Cardinality(E) = 1
                 PROVE  Has(E, w)
    OBVIOUS
  <2>2. PICK x : E = {x}
    BY <2>1, FS_Singleton
  <2> QED
    BY <2>2
<1>2. ASSUME NEW n \in Nat, n \in N PROVE n + 1 \in N
  <2>1. SUFFICES ASSUME NEW E, NEW w \in [E -> Int], IsFiniteSet(E), Cardinality(E) = n + 2
                 PROVE  Has(E, w)
    OBVIOUS
  <2>2. PICK x \in E : TRUE
    BY <2>1, FS_EmptySet
  <2>3. IsFiniteSet(E \ {x}) /\ Cardinality(E \ {x}) = n + 1
    BY <2>1, <2>2, FS_RemoveElement
  <2> DEFINE u == [d \in E \ {x} |-> w[d]]
  <2>4. u \in [E \ {x} -> Int]
    OBVIOUS
  <2>5. Has(E \ {x}, u)
    BY <1>2, <2>3, <2>4
  <2>6. PICK m \in E \ {x} : \A d \in E \ {x} : w[d] <= w[m]
    BY <2>5
  <2>7. CASE w[x] <= w[m]
    BY <2>6, <2>7
  <2>8. CASE ~(w[x] <= w[m])
    <3>1. \A d \in E : w[d] <= w[x]
      BY <2>6, <2>8
    <3> QED
      BY <3>1
  <2> QED
    BY <2>7, <2>8
<1> HIDE DEF N
<1>3. \A n \in Nat : n \in N
  BY <1>1, <1>2, NatSetInduction
<1>4. Cardinality(D) \in Nat /\ Cardinality(D) # 0
  BY FS_CardinalityType, FS_EmptySet
<1>5. PICK n \in Nat : Cardinality(D) = n + 1
  <2>1. Cardinality(D) - 1 \in Nat /\ Cardinality(D) = (Cardinality(D) - 1) + 1
    BY <1>4
  <2> QED
    BY <2>1
<1>6. Has(D, v)
  BY <1>3, <1>5 DEF N
<1> QED
  BY <1>6

Ascending(s, v) == \A i, j \in DOMAIN s : i <= j => v[s[i]] <= v[s[j]]

\* Finitely many values can be sorted.
LEMMA OrderExists ==
  ASSUME NEW D, IsFiniteSet(D), NEW v \in [D -> Int]
  PROVE  \E s \in [1..Cardinality(D) -> D] : IsInjective(s) /\ Ascending(s, v)
<1> DEFINE Has(n, E, w) == \E s \in [1..n -> E] : IsInjective(s) /\ Ascending(s, w)
           N == { n \in Nat : \A E : \A w \in [E -> Int] :
                    IsFiniteSet(E) /\ Cardinality(E) = n => Has(n, E, w) }
<1>1. 0 \in N
  <2>1. SUFFICES ASSUME NEW E, NEW w \in [E -> Int]
                 PROVE  Has(0, E, w)
    OBVIOUS
  <2> DEFINE s == [k \in 1..0 |-> 0]
  <2>2. s \in [1..0 -> E] /\ DOMAIN s = {}
    OBVIOUS
  <2>3. IsInjective(s) /\ Ascending(s, w)
    BY <2>2 DEF IsInjective, Ascending
  <2> QED
    BY <2>2, <2>3
<1>2. ASSUME NEW n \in Nat, n \in N PROVE n + 1 \in N
  <2>1. SUFFICES ASSUME NEW E, NEW w \in [E -> Int], IsFiniteSet(E), Cardinality(E) = n + 1
                 PROVE  Has(n + 1, E, w)
    OBVIOUS
  <2>2. E # {}
    BY <2>1, FS_EmptySet
  <2>3. PICK m \in E : \A d \in E : w[d] <= w[m]
    BY <2>1, <2>2, GreatestExists
  <2>4. IsFiniteSet(E \ {m}) /\ Cardinality(E \ {m}) = n
    <3>1. IsFiniteSet(E \ {m}) /\ Cardinality(E \ {m}) = Cardinality(E) - 1
      BY <2>1, FS_RemoveElement
    <3> QED
      BY <2>1, <3>1
  <2> DEFINE u == [d \in E \ {m} |-> w[d]]
  <2>5. u \in [E \ {m} -> Int]
    OBVIOUS
  <2>6. Has(n, E \ {m}, u)
    BY <1>2, <2>4, <2>5
  <2>7. PICK s \in [1..n -> E \ {m}] : IsInjective(s) /\ Ascending(s, u)
    BY <2>6
  <2> DEFINE t == [k \in 1..(n + 1) |-> IF k = n + 1 THEN m ELSE s[k]]
  <2>8. t \in [1..(n + 1) -> E]
    BY <2>7
  <2>9. IsInjective(t)
    BY <2>7 DEF IsInjective
  <2>10. ASSUME NEW i \in 1..(n + 1), NEW j \in 1..(n + 1), i <= j
         PROVE  w[t[i]] <= w[t[j]]
    <3>1. CASE j = n + 1
      BY <2>3, <2>8, <3>1
    <3>2. CASE j # n + 1
      <4>1. i \in 1..n /\ j \in 1..n /\ t[i] = s[i] /\ t[j] = s[j]
        BY <2>10, <3>2
      <4>2. u[s[i]] <= u[s[j]]
        BY <2>7, <2>10, <4>1 DEF Ascending
      <4> QED
        BY <2>7, <4>1, <4>2
    <3> QED
      BY <3>1, <3>2
  <2>11. Ascending(t, w)
    BY <2>10 DEF Ascending
  <2> QED
    BY <2>8, <2>9, <2>11
<1> HIDE DEF N
<1>3. \A n \in Nat : n \in N
  BY <1>1, <1>2, NatSetInduction
<1>4. Cardinality(D) \in Nat
  BY FS_CardinalityType
<1> QED
  BY <1>3, <1>4 DEF N

\* What Sorted returns: each of the keys once, in the order of their values.
LEMMA SortedProperties ==
  ASSUME NEW D, IsFiniteSet(D), NEW v \in [D -> Int]
  PROVE  /\ Sorted(v) \in [1..Cardinality(D) -> D] /\ Cardinality(D) \in Nat
         /\ IsInjective(Sorted(v)) /\ Ascending(Sorted(v), v)
         /\ \A d \in D : \E k \in 1..Cardinality(D) : Sorted(v)[k] = d
<1> DEFINE n == Cardinality(D)
           s == Sorted(v)
<1>0. DOMAIN v = D /\ n \in Nat
  BY FS_CardinalityType
<1>1. \E t \in SetToSeqs(D) : \A i, j \in DOMAIN t : i <= j => v[t[i]] <= v[t[j]]
  <2>1. PICK t \in [1..n -> D] : IsInjective(t) /\ Ascending(t, v)
    BY OrderExists
  <2>2. t \in SetToSeqs(D)
    BY <2>1 DEF SetToSeqs, IsInjective
  <2> QED
    BY <2>1, <2>2 DEF Ascending
<1>2. s \in SetToSeqs(D) /\ \A i, j \in DOMAIN s : i <= j => v[s[i]] <= v[s[j]]
  BY <1>0, <1>1 DEF Sorted
<1>3. s \in [1..n -> D] /\ IsInjective(s)
  BY <1>2 DEF SetToSeqs, IsInjective
<1>4. ASSUME NEW d \in D PROVE \E k \in 1..n : s[k] = d
  <2>1. SUFFICES ASSUME \A k \in 1..n : s[k] # d PROVE FALSE
    OBVIOUS
  <2>2. s \in [1..n -> D \ {d}]
    BY <1>3, <2>1
  <2>3. IsFiniteSet(D \ {d}) /\ Cardinality(D \ {d}) = n - 1
    BY FS_RemoveElement
  <2>4. IsFiniteSet(1..n) /\ Cardinality(1..n) = n
    BY <1>0, FS_Interval
  <2>5. Cardinality(D \ {d}) < Cardinality(1..n)
    BY <1>0, <2>3, <2>4
  <2>6. \E x, y \in 1..n : x # y /\ s[x] = s[y]
    BY <2>2, <2>3, <2>4, <2>5, FS_PigeonHole
  <2> QED
    BY <1>3, <2>6 DEF IsInjective
<1> QED
  BY <1>0, <1>2, <1>3, <1>4 DEF Ascending

-----------------------------------------------------------------------------
(* The segment of a load. *)

PointSet == [load : Nat, value : Int]

\* The point of a load.
PointAt(points, l) == [load |-> l, value |-> Median(AtLoad(points, l))]

\* A multiple is divided exactly.
LEMMA DivisionExact ==
  ASSUME NEW d \in Nat, d > 0, NEW e \in Int
  PROVE  (d * e) \div d = e
  OBVIOUS

\* At its ends a segment goes through its points.
LEMMA SegmentEnds ==
  ASSUME NEW p \in PointSet, NEW q \in PointSet, p.load < q.load
  PROVE  Segment(p, q, p.load) = p.value /\ Segment(p, q, q.load) = q.value
<1> DEFINE d == q.load - p.load
           e == q.value - p.value
<1>1. d \in Nat /\ d > 0 /\ e \in Int /\ p.value \in Int /\ q.value \in Int
  BY DEF PointSet
<1>2. (d * e) \div d = e /\ (d * 0) \div d = 0
  BY <1>1, DivisionExact
<1>3. p.load - p.load = 0 /\ 0 * e = 0 /\ d * 0 = 0
  BY <1>1 DEF PointSet
<1>4. Segment(p, q, p.load) = p.value + 0
  BY <1>2, <1>3 DEF Segment
<1>5. Segment(p, q, q.load) = p.value + e
  BY <1>2 DEF Segment
<1> QED
  BY <1>1, <1>4, <1>5

\* The median of integers is one.
LEMMA MedianType ==
  ASSUME NEW D, IsFiniteSet(D), D # {}, NEW vals \in [D -> Int]
  PROVE  Median(vals) \in Int
<1> DEFINE n == Cardinality(D)
           s == Sorted(vals)
<1>1. n \in Nat /\ n # 0 /\ s \in [1..n -> D] /\ DOMAIN vals = D
  BY SortedProperties, FS_EmptySet
<1> HIDE DEF n, s
<1>2. (n + 1) \div 2 \in 1..n /\ n \div 2 + 1 \in 1..n
  BY <1>1
<1>3. vals[s[(n + 1) \div 2]] \in Int /\ vals[s[n \div 2 + 1]] \in Int
  BY <1>1, <1>2
<1>4. Median(vals) = (vals[s[(n + 1) \div 2]] + vals[s[n \div 2 + 1]]) \div 2
  BY <1>1 DEF Median, n, s
<1> QED
  BY <1>3, <1>4

\* Finitely many points have finitely many loads.
LEMMA LoadsFinite ==
  ASSUME NEW D, IsFiniteSet(D), NEW points \in [D -> PointSet]
  PROVE  IsFiniteSet(LoadsOf(points)) /\ LoadsOf(points) \in SUBSET Nat
<1> DEFINE f == [i \in D |-> points[i].load]
<1>1. LoadsOf(points) \in SUBSET Nat
  BY DEF LoadsOf, PointSet
<1>2. f \in Surjection(D, LoadsOf(points))
  BY DEF Surjection, LoadsOf
<1> QED
  BY <1>1, <1>2, FS_Surjection

\* deduplicateByLoad and the sorting of interpolate: one point for each load, in their order.
LEMMA DeduplicateProperties ==
  ASSUME NEW D, IsFiniteSet(D), NEW points \in [D -> PointSet]
  PROVE  LET p == DeduplicateByLoad(points)
             n == Cardinality(LoadsOf(points))
         IN /\ n \in Nat /\ p \in [1..n -> PointSet] /\ Len(p) = n
            /\ \A k \in 1..n : p[k].load \in LoadsOf(points) /\ p[k] = PointAt(points, p[k].load)
            /\ \A j, k \in 1..n : j < k => p[j].load < p[k].load
            /\ \A l \in LoadsOf(points) : \E k \in 1..n : p[k].load = l
<1> DEFINE L == LoadsOf(points)
           v == [l \in L |-> l]
           s == Sorted(v)
           n == Cardinality(L)
           p == DeduplicateByLoad(points)
<1>1. IsFiniteSet(L) /\ L \in SUBSET Nat
  BY LoadsFinite
<1>2. v \in [L -> Int]
  BY <1>1
<1>3. /\ s \in [1..n -> L] /\ n \in Nat /\ IsInjective(s) /\ Ascending(s, v)
      /\ \A l \in L : \E k \in 1..n : s[k] = l
  BY <1>1, <1>2, SortedProperties
<1>4. p = [i \in 1..n |-> PointAt(points, s[i])]
  BY <1>3 DEF DeduplicateByLoad, PointAt
<1>5. ASSUME NEW l \in L PROVE PointAt(points, l) \in PointSet /\ PointAt(points, l).load = l
  <2> DEFINE E == { j \in DOMAIN points : points[j].load = l }
  <2>1. E \in SUBSET D /\ E # {}
    BY DEF LoadsOf
  <2>2. IsFiniteSet(E)
    BY <2>1, FS_Subset
  <2>3. AtLoad(points, l) \in [E -> Int]
    BY DEF AtLoad, PointSet
  <2>4. Median(AtLoad(points, l)) \in Int
    BY <2>1, <2>2, <2>3, MedianType
  <2> QED
    BY <1>1, <2>4 DEF PointAt, PointSet
<1> HIDE DEF L, v, s, n, p
<1>6. p \in [1..n -> PointSet] /\ \A k \in 1..n : p[k].load = s[k]
  BY <1>3, <1>4, <1>5
<1>7. Len(p) = n
  BY <1>3, <1>6
<1>8. \A k \in 1..n : p[k].load \in L /\ p[k] = PointAt(points, p[k].load)
  BY <1>3, <1>4, <1>6
<1>9. ASSUME NEW j \in 1..n, NEW k \in 1..n, j < k PROVE p[j].load < p[k].load
  <2>1. s[j] \in L /\ s[k] \in L /\ s[j] # s[k]
    BY <1>3, <1>9 DEF IsInjective
  <2>2. v[s[j]] <= v[s[k]]
    BY <1>3, <1>9 DEF Ascending
  <2>3. s[j] <= s[k] /\ s[j] \in Nat /\ s[k] \in Nat
    BY <1>1, <2>1, <2>2 DEF v
  <2> QED
    BY <1>6, <2>1, <2>3
<1>10. \A l \in L : \E k \in 1..n : p[k].load = l
  BY <1>3, <1>6
<1> QED
  BY <1>3, <1>6, <1>7, <1>8, <1>9, <1>10 DEF L, n, p

\* An estimate is on the line through the points of two adjacent loads: of those around it,
\* or of the first or the last two (interpolate).
LEMMA InterpolateLine ==
  ASSUME NEW D, IsFiniteSet(D), NEW points \in [D -> PointSet], NEW a, NEW b,
         Adjacent(a, b, LoadsOf(points)), NEW x \in Int,
         x < a => \A l \in LoadsOf(points) : a <= l,
         x > b => \A l \in LoadsOf(points) : l <= b
  PROVE  /\ Interpolate(DeduplicateByLoad(points), x)
              = Segment(PointAt(points, a), PointAt(points, b), x)
         /\ PointAt(points, a) \in PointSet /\ PointAt(points, b) \in PointSet
<1> DEFINE L == LoadsOf(points)
           n == Cardinality(L)
           p == DeduplicateByLoad(points)
<1>1. /\ n \in Nat /\ p \in [1..n -> PointSet] /\ Len(p) = n
      /\ \A k \in 1..n : p[k].load \in L /\ p[k] = PointAt(points, p[k].load)
      /\ \A j, k \in 1..n : j < k => p[j].load < p[k].load
      /\ \A l \in L : \E k \in 1..n : p[k].load = l
  BY DeduplicateProperties
<1>2. L \in SUBSET Nat
  BY LoadsFinite
<1> HIDE DEF L, n, p
<1>3. a \in L /\ b \in L /\ a < b /\ L \cap ((a + 1)..(b - 1)) = {} /\ a \in Nat /\ b \in Nat
  BY <1>2 DEF Adjacent, L
<1>4. PICK k \in 1..n : p[k].load = a
  BY <1>1, <1>3
<1>4a. n \in Nat /\ k \in Nat /\ 1 <= k /\ k <= n /\ \A j \in 1..n : p[j].load \in Nat
  BY <1>1, <1>4 DEF PointSet
<1>5. k < n /\ p[k + 1].load = b
  <2>1. PICK m \in 1..n : p[m].load = b
    BY <1>1, <1>3
  <2>1a. m \in Nat /\ m <= n
    BY <1>4a, <2>1
  <2>2. k < m
    <3>1. CASE m = k
      BY <1>3, <1>4, <2>1, <3>1
    <3>2. CASE m < k
      <4>1. p[m].load < p[k].load
        BY <1>1, <1>4, <2>1, <3>2
      <4> QED
        BY <1>3, <1>4, <2>1, <4>1
    <3> QED
      BY <1>4a, <2>1a, <3>1, <3>2
  <2>3. CASE m = k + 1
    BY <1>4a, <2>1a, <2>1, <2>2, <2>3
  <2>4. CASE k + 1 < m
    <3>1. k + 1 \in 1..n /\ k < k + 1
      BY <1>4a, <2>1a, <2>4
    <3>2. p[k].load < p[k + 1].load /\ p[k + 1].load < p[m].load /\ p[k + 1].load \in L
      BY <1>1, <1>4, <2>1, <2>4, <3>1
    <3>3. p[k + 1].load \in (a + 1)..(b - 1)
      BY <1>4a, <1>3, <1>4, <2>1, <3>1, <3>2
    <3> QED
      BY <1>3, <3>2, <3>3
  <2> QED
    BY <1>4a, <2>1a, <2>2, <2>3, <2>4
<1>6. /\ p[k] = PointAt(points, a) /\ p[k + 1] = PointAt(points, b)
      /\ k + 1 \in 1..n /\ p[k] \in PointSet /\ p[k + 1] \in PointSet
  <2>1. k + 1 \in 1..n
    BY <1>4a, <1>5
  <2> QED
    BY <1>1, <1>4, <1>5, <2>1
<1> DEFINE S == { j \in 1..(n - 1) : j = n - 1 \/ p[j + 1].load >= x }
<1>7. Interpolate(p, x) = Segment(p[Min(S)], p[Min(S) + 1], x)
  BY <1>1, <1>5 DEF Interpolate
<1>8. ASSUME NEW i \in S, \A j \in S : i <= j PROVE Min(S) = i
  <2>1. \A j \in S : j \in Nat
    BY <1>4a
  <2>2. S \in SUBSET Nat /\ S # {} /\ i \in Nat
    BY <1>8, <2>1
  <2>3. Min(S) \in S /\ Min(S) <= i
    BY <1>8, <2>2, LeastExists
  <2>4. i <= Min(S) /\ Min(S) \in Nat
    BY <1>8, <2>1, <2>3
  <2> HIDE DEF S
  <2> QED
    BY <2>2, <2>3, <2>4
<1>9. /\ x < a => k = 1
      /\ x > b => k = n - 1
  <2>1. ASSUME x < a, k # 1 PROVE FALSE
    <3>1. k - 1 \in 1..n /\ k - 1 < k
      BY <1>4a, <2>1
    <3>2. p[k - 1].load < a /\ p[k - 1].load \in L
      BY <1>1, <1>4, <3>1
    <3>3. a <= p[k - 1].load
      BY <2>1, <3>2 DEF L
    <3> QED
      BY <1>3, <1>4a, <3>1, <3>2, <3>3
  <2>2. ASSUME x > b, k # n - 1 PROVE FALSE
    <3>1. n \in 1..n /\ k + 1 \in 1..n /\ k + 1 < n
      BY <1>4a, <1>5, <2>2
    <3>2. b < p[n].load /\ p[n].load \in L
      BY <1>1, <1>5, <3>1
    <3>3. p[n].load <= b
      BY <2>2, <3>2 DEF L
    <3> QED
      BY <1>3, <1>4a, <3>1, <3>2, <3>3
  <2> QED
    BY <2>1, <2>2
<1>10. CASE a < x
  <2>1. k \in S
    <3>1. CASE x <= b
      BY <1>4a, <1>3, <1>5, <3>1
    <3>2. CASE ~(x <= b)
      BY <1>4a, <1>3, <1>5, <1>9, <3>2
    <3> QED
      BY <3>1, <3>2
  <2>2. ASSUME NEW j \in S, ~(k <= j) PROVE FALSE
    <3>1. j + 1 \in 1..n /\ j + 1 <= k /\ p[j + 1].load >= x
      BY <1>4a, <1>5, <2>2
    <3>2. p[j + 1].load <= a /\ p[j + 1].load \in Nat
      <4>1. CASE j + 1 = k
        BY <1>4a, <1>4, <3>1, <4>1
      <4>2. CASE j + 1 < k
        <5>1. p[j + 1].load < p[k].load
          BY <1>1, <1>4, <3>1, <4>2
        <5> QED
          BY <1>4a, <1>3, <1>4, <3>1, <5>1
      <4> QED
        BY <1>4a, <3>1, <4>1, <4>2
    <3> QED
      BY <1>3, <1>10, <3>1, <3>2
  <2>3. Min(S) = k
    BY <1>8, <2>1, <2>2
  <2> QED
    BY <1>6, <1>7, <1>10, <2>3 DEF p
<1>11. CASE x <= a /\ k = 1
  <2>1. 1 \in S /\ \A j \in S : 1 <= j
    BY <1>4a, <1>3, <1>5, <1>11
  <2>2. Min(S) = 1
    BY <1>8, <2>1
  <2> QED
    BY <1>6, <1>7, <1>11, <2>2 DEF p
<1>12. CASE x = a /\ k # 1
  <2>1. k - 1 \in 1..n /\ (k - 1) + 1 = k /\ k - 1 \in 1..(n - 1)
    BY <1>4a, <1>5, <1>12
  <2>2. k - 1 \in S
    BY <1>4a, <1>3, <1>4, <1>12, <2>1
  <2>3. ASSUME NEW j \in S, ~(k - 1 <= j) PROVE FALSE
    <3>1. j + 1 \in 1..n /\ j + 1 < k /\ p[j + 1].load >= x
      BY <1>4a, <1>5, <2>3
    <3>2. p[j + 1].load < a /\ p[j + 1].load \in Nat
      BY <1>4a, <1>1, <1>4, <3>1
    <3> QED
      BY <1>3, <1>12, <3>1, <3>2
  <2>4. Min(S) = k - 1
    BY <1>8, <2>2, <2>3
  <2>5. p[k - 1] \in PointSet /\ p[k - 1].load < p[k].load
    BY <1>1, <2>1
  <2>6. Segment(p[k - 1], p[k], a) = p[k].value
    BY <1>4, <1>6, <2>5, SegmentEnds
  <2>7. Segment(p[k], p[k + 1], a) = p[k].value
    BY <1>3, <1>4, <1>5, <1>6, SegmentEnds
  <2> QED
    BY <1>6, <1>7, <1>12, <2>1, <2>4, <2>6, <2>7 DEF p
<1>13. x < a \/ x = a \/ a < x
  BY <1>3
<1>14. Interpolate(p, x) = Segment(PointAt(points, a), PointAt(points, b), x)
  BY <1>3, <1>9, <1>10, <1>11, <1>12, <1>13 DEF p
<1> QED
  BY <1>6, <1>14 DEF p

-----------------------------------------------------------------------------
(* The rows that an answer is made of. *)

\* The rows of the stack that is asked for, by their numbers in the table (BuildReport)
LEMMA SubsetIs ==
  ASSUME NEW rows
  PROVE  Subset(rows) =
           [i \in { j \in DOMAIN rows : rows[j].instrument = Instrument } |-> rows[i]]
BY DEF Subset, RestrictValues, Restrict

\* The rows that tell of cpu, by their numbers (rowsForResourceModel)
LEMMA ShortIs ==
  ASSUME NEW rows
  PROVE  RowsForResourceModel(rows, "cpu") =
           [i \in { j \in DOMAIN rows : rows[j].period < 0 } |-> rows[i]]
BY DEF RowsForResourceModel, RestrictValues, Restrict

\* The rows with a figure, by their numbers
LEMMA MeasuredIs ==
  ASSUME NEW rows, NEW key
  PROVE  Measured(rows, key) = [i \in { j \in DOMAIN rows : rows[j][key] > 0 } |-> rows[i]]
BY DEF Measured, RestrictValues, Restrict

\* An estimate is made of the rows of its stack.
LEMMA EstimateIs ==
  ASSUME NEW rows, NEW x, NEW T, NEW key \in Keys, DOMAIN Subset(rows) # {}
  PROVE  Estimate(rows, x, T, key) = EstimateResource(Subset(rows), x, T, key)
BY DEF Estimate, BuildReport

\* The short rows of the stack with a figure of cpu
Telling(rows) == Measured(RowsForResourceModel(Subset(rows), "cpu"), "cpu")

\* They are what passes all three filters.
LEMMA TellingIs ==
  ASSUME NEW rows
  PROVE  Telling(rows) =
           [i \in { j \in DOMAIN rows : /\ rows[j].instrument = Instrument
                                        /\ rows[j].period < 0
                                        /\ rows[j]["cpu"] > 0 } |-> rows[i]]
<1> DEFINE A == Subset(rows)
           B == RowsForResourceModel(A, "cpu")
<1>1. A = [i \in { j \in DOMAIN rows : rows[j].instrument = Instrument } |-> rows[i]]
  BY SubsetIs
<1>2. B = [i \in { j \in DOMAIN A : A[j].period < 0 } |-> A[i]]
  BY ShortIs
<1>3. Telling(rows) = [i \in { j \in DOMAIN B : B[j]["cpu"] > 0 } |-> B[i]]
  BY MeasuredIs DEF Telling
<1> HIDE DEF A, B
<1> QED
  BY <1>1, <1>2, <1>3

\* Their points are as many, at their loads.
LEMMA PointsAre ==
  ASSUME NEW rows, NEW T, \A j \in DOMAIN rows : rows[j] \in Row
  PROVE  LET points == Points(RowsForResourceModel(Subset(rows), "cpu"), "cpu", T)
             D == DOMAIN Telling(rows)
         IN /\ points \in [D -> PointSet]
            /\ \A i \in D : points[i] = [load |-> rows[i].load, value |-> rows[i].cpu * Unit]
            /\ LoadsOf(points) = LoadsOf(Telling(rows))
<1> DEFINE M == Telling(rows)
           points == Points(RowsForResourceModel(Subset(rows), "cpu"), "cpu", T)
<1>1. /\ DOMAIN M \subseteq DOMAIN rows
      /\ \A i \in DOMAIN M : M[i] = rows[i]
  BY TellingIs
<1>2. points = [i \in DOMAIN M |-> [load |-> M[i].load, value |-> M[i]["cpu"] * Unit]]
  BY DEF Points, Scaled, Telling
<1> HIDE DEF M, points
<1>3. \A i \in DOMAIN M : rows[i].load \in Nat /\ rows[i].cpu * Unit \in Int
  BY <1>1, CapacityAssumption DEF Row
<1>4. points \in [DOMAIN M -> PointSet]
  BY <1>1, <1>2, <1>3 DEF PointSet
<1>5. \A i \in DOMAIN M : points[i] = [load |-> rows[i].load, value |-> rows[i].cpu * Unit]
  BY <1>1, <1>2
<1>6. LoadsOf(points) = LoadsOf(M)
  BY <1>2 DEF LoadsOf
<1> QED
  BY <1>4, <1>5, <1>6 DEF M, points

-----------------------------------------------------------------------------
(* Only neighbours matter. *)

TableInv == table \in Seq(Rows)

\* The table is a sequence of rows: at first,
LEMMA TableInit == Init => TableInv
BY DEF Init, TableInv

\* and after every save.
LEMMA TableStep == TableInv /\ [Next]_table => TableInv'
<1> SUFFICES ASSUME TableInv, [Next]_table PROVE TableInv'
  OBVIOUS
<1>1. ASSUME NEW r \in Rows, Save(r) PROVE TableInv'
  BY <1>1 DEF TableInv, Save
<1>2. CASE table' = table
  BY <1>2 DEF TableInv
<1> QED
  BY <1>1, <1>2 DEF Next, Terminating

\* The row of another stack changes no answer.
LEMMA OtherStacks ==
  ASSUME TableInv, NEW i \in DOMAIN table, table[i].instrument # Instrument
  PROVE  Subset(table) = Subset(Train(table, i))
<1> DEFINE others == Train(table, i)
<1>1. others = [j \in DOMAIN table \ {i} |-> table[j]]
  BY DEF Train, Restrict
<1>2. /\ Subset(table) = [k \in { j \in DOMAIN table : table[j].instrument = Instrument } |-> table[k]]
      /\ Subset(others) = [k \in { j \in DOMAIN others : others[j].instrument = Instrument } |-> others[k]]
  BY SubsetIs
<1> HIDE DEF others
<1>3. { j \in DOMAIN table : table[j].instrument = Instrument }
        = { j \in DOMAIN others : others[j].instrument = Instrument }
  BY <1>1
<1> QED
  BY <1>1, <1>2, <1>3 DEF others

\* A request that is not refused without a row is not refused with it.
LEMMA SubsetGrows ==
  ASSUME TableInv, NEW i \in DOMAIN table, DOMAIN Subset(Train(table, i)) # {}
  PROVE  DOMAIN Subset(table) # {}
<1> DEFINE others == Train(table, i)
<1>1. others = [j \in DOMAIN table \ {i} |-> table[j]]
  BY DEF Train, Restrict
<1>2. PICK j \in DOMAIN others : others[j].instrument = Instrument
  BY SubsetIs
<1> HIDE DEF others
<1>3. j \in DOMAIN table /\ table[j].instrument = Instrument
  BY <1>1, <1>2
<1>4. j \in DOMAIN Subset(table)
  BY <1>3, SubsetIs
<1> QED
  BY <1>4

\* A long run tells nothing of cpu.
LEMMA LongRuns ==
  ASSUME TableInv, NEW i \in DOMAIN table, table[i].period >= 0
  PROVE  RowsForResourceModel(Subset(table), "cpu")
           = RowsForResourceModel(Subset(Train(table, i)), "cpu")
<1> DEFINE others == Train(table, i)
           A == Subset(table)
           B == Subset(others)
<1>0. table[i].period \in Int
  BY CapacityAssumption DEF TableInv, Row
<1>1. others = [j \in DOMAIN table \ {i} |-> table[j]]
  BY DEF Train, Restrict
<1>2. /\ A = [k \in { j \in DOMAIN table : table[j].instrument = Instrument } |-> table[k]]
      /\ B = [k \in { j \in DOMAIN others : others[j].instrument = Instrument } |-> others[k]]
  BY SubsetIs
<1>3. /\ RowsForResourceModel(A, "cpu") = [k \in { j \in DOMAIN A : A[j].period < 0 } |-> A[k]]
      /\ RowsForResourceModel(B, "cpu") = [k \in { j \in DOMAIN B : B[j].period < 0 } |-> B[k]]
  BY ShortIs
<1> HIDE DEF others, A, B
<1>4. { j \in DOMAIN A : A[j].period < 0 } = { j \in DOMAIN B : B[j].period < 0 }
  BY <1>0, <1>1, <1>2
<1>5. \A j \in DOMAIN B : A[j] = B[j]
  BY <1>1, <1>2
<1> QED
  BY <1>3, <1>4, <1>5 DEF others, A, B

\* A row whose load is not between two adjacent ones leaves the line between them.
LEMMA Elsewhere ==
  ASSUME TableInv, NEW i \in DOMAIN table, NEW a, NEW b, NEW T,
         Adjacent(a, b, LoadsOf(Telling(Train(table, i)))),
         table[i].load \notin a..b, NEW x \in a..b
  PROVE  Line(Subset(table), x, T, "cpu") = Line(Subset(Train(table, i)), x, T, "cpu")
<1> DEFINE others == Train(table, i)
           P == Points(RowsForResourceModel(Subset(table), "cpu"), "cpu", T)
           Q == Points(RowsForResourceModel(Subset(others), "cpu"), "cpu", T)
           D == DOMAIN Telling(table)
           E == DOMAIN Telling(others)
<1>1. others = [j \in DOMAIN table \ {i} |-> table[j]]
  BY DEF Train, Restrict
<1>2. /\ \A j \in DOMAIN table : table[j] \in Row
      /\ \A j \in DOMAIN others : others[j] \in Row
  BY <1>1, CapacityAssumption DEF TableInv
<1>3. /\ P \in [D -> PointSet] /\ LoadsOf(P) = LoadsOf(Telling(table))
      /\ \A j \in D : P[j] = [load |-> table[j].load, value |-> table[j].cpu * Unit]
  BY <1>2, PointsAre
<1>4. /\ Q \in [E -> PointSet] /\ LoadsOf(Q) = LoadsOf(Telling(others))
      /\ \A j \in E : Q[j] = [load |-> others[j].load, value |-> others[j].cpu * Unit]
  BY <1>2, PointsAre
<1>5. D \subseteq DOMAIN table /\ E = D \ {i}
  BY <1>1, TellingIs
<1>6. IsFiniteSet(D) /\ IsFiniteSet(E)
  <2>1. DOMAIN table = 1..Len(table) /\ Len(table) \in Nat
    BY DEF TableInv
  <2>2. IsFiniteSet(DOMAIN table)
    BY <2>1, FS_Interval
  <2> QED
    BY <1>5, <2>2, FS_Subset
<1>7. \A j \in E : P[j] = Q[j]
  BY <1>1, <1>3, <1>4, <1>5
<1>8. Adjacent(a, b, LoadsOf(Q))
  BY <1>4
<1> HIDE DEF others, P, Q, D, E
<1>9. i \in D => P[i].load = table[i].load
  BY <1>3
<1>10. LoadsOf(Q) \subseteq LoadsOf(P) /\ LoadsOf(P) \subseteq LoadsOf(Q) \cup {table[i].load}
  BY <1>3, <1>4, <1>5, <1>7, <1>9 DEF LoadsOf
<1>11. /\ LoadsOf(Q) \in SUBSET Nat
       /\ a \in Nat /\ b \in Nat /\ a < b /\ table[i].load \in Nat
  <2>1. LoadsOf(Q) \in SUBSET Nat
    BY <1>4, <1>6, LoadsFinite
  <2> QED
    BY <1>2, <1>8, <2>1 DEF Adjacent, Row
<1>12. Adjacent(a, b, LoadsOf(P))
  BY <1>8, <1>10, <1>11 DEF Adjacent
<1>13. ASSUME NEW l \in {a, b} PROVE PointAt(P, l) = PointAt(Q, l)
  <2>1. table[i].load # l
    BY <1>11
  <2>2. { j \in DOMAIN P : P[j].load = l } = { j \in DOMAIN Q : Q[j].load = l }
    BY <1>3, <1>4, <1>5, <1>7, <1>9, <2>1
  <2>3. AtLoad(P, l) = AtLoad(Q, l)
    BY <1>4, <1>7, <2>2 DEF AtLoad
  <2> QED
    BY <2>3 DEF PointAt
<1>14. Interpolate(DeduplicateByLoad(P), x) = Interpolate(DeduplicateByLoad(Q), x)
  <2>1. x \in Int /\ ~(x < a) /\ ~(x > b)
    BY <1>11
  <2>2. Interpolate(DeduplicateByLoad(P), x) = Segment(PointAt(P, a), PointAt(P, b), x)
    BY <1>3, <1>6, <1>12, <2>1, InterpolateLine
  <2>3. Interpolate(DeduplicateByLoad(Q), x) = Segment(PointAt(Q, a), PointAt(Q, b), x)
    BY <1>4, <1>6, <1>8, <2>1, InterpolateLine
  <2> QED
    BY <1>13, <2>2, <2>3
<1> QED
  BY <1>14 DEF Line, others, P, Q

\* The invariant at any table, from the three cases of a row that does not matter
LEMMA NeighboursMatter == TableInv => OnlyNeighboursMatter
<1> SUFFICES ASSUME TableInv PROVE OnlyNeighboursMatter
  OBVIOUS
<1>1. SUFFICES ASSUME NEW i \in DOMAIN table, NEW x \in Loads, NEW T \in Horizons
      PROVE  LET r == table[i]
                 others == Train(table, i)
                 loads == LoadsOf(Telling(others))
                 Unrelated ==
                   \E a, b \in loads : Adjacent(a, b, loads) /\ x \in a..b /\ r.load \notin a..b
             IN /\ r.instrument # Instrument => BuildReport(table, x, T) = BuildReport(others, x, T)
                /\ DOMAIN Subset(others) # {} /\ (r.period >= 0 \/ Unrelated)
                     => Estimate(table, x, T, "cpu") = Estimate(others, x, T, "cpu")
  BY DEF OnlyNeighboursMatter, Telling
<1> DEFINE others == Train(table, i)
<1>2. ASSUME table[i].instrument # Instrument
      PROVE  BuildReport(table, x, T) = BuildReport(others, x, T)
  BY <1>2, OtherStacks DEF BuildReport
<1>3. ASSUME DOMAIN Subset(others) # {},
             Line(Subset(table), x, T, "cpu") = Line(Subset(others), x, T, "cpu")
      PROVE  Estimate(table, x, T, "cpu") = Estimate(others, x, T, "cpu")
  <2>1. "cpu" \in Keys
    BY DEF Keys
  <2>2. Estimate(others, x, T, "cpu") = EstimateResource(Subset(others), x, T, "cpu")
    BY <1>3, <2>1, EstimateIs
  <2>3. Estimate(table, x, T, "cpu") = EstimateResource(Subset(table), x, T, "cpu")
    BY <1>3, <2>1, SubsetGrows, EstimateIs
  <2> QED
    BY <1>3, <2>2, <2>3 DEF EstimateResource
<1>4. ASSUME table[i].period >= 0
      PROVE  Line(Subset(table), x, T, "cpu") = Line(Subset(others), x, T, "cpu")
  BY <1>4, LongRuns DEF Line
<1>5. ASSUME NEW a, NEW b, Adjacent(a, b, LoadsOf(Telling(others))), x \in a..b,
             table[i].load \notin a..b
      PROVE  Line(Subset(table), x, T, "cpu") = Line(Subset(others), x, T, "cpu")
  BY <1>5, Elsewhere
<1> QED
  BY <1>2, <1>3, <1>4, <1>5

\* Whatever rows are saved in whatever order, a row changes only the answers it has to do
\* with: those of its stack, those of cpu when it is a short run, and of these not the ones
\* between two adjacent measured loads that it lies outside of (filterResourceModelRows,
\* deduplicateByLoad, interpolate of model.go).
THEOREM ForeignRowsDoNotMatter == Spec => []OnlyNeighboursMatter
<1>1. Spec => []TableInv
  BY TableInit, TableStep, PTL DEF Spec
<1> QED
  BY <1>1, NeighboursMatter, PTL

-----------------------------------------------------------------------------
(* The validation. *)

\* The invariant at any table: without its last row the subset is that of the table before.
LEMMA ForecastOfLast == TableInv => HoldoutIsForecast
<1> DEFINE n == Len(table)
           r == Last(table)
           before == Front(table)
           subset == Subset(table)
<1>1. SUFFICES ASSUME TableInv, table # << >>, r.instrument = Instrument, r.period < 0,
                      Cardinality(DOMAIN Subset(before)) >= 2, NEW key \in Keys
      PROVE  BuildReport(table, r.load, r.period).holdout[key][n] =
               [true |-> r[key] * Unit, predicted |-> Estimate(before, r.load, r.period, key)]
  BY DEF HoldoutIsForecast
<1>2. /\ n \in Nat \ {0} /\ DOMAIN table = 1..n /\ r = table[n]
      /\ before = [j \in 1..(n - 1) |-> table[j]]
  <2>1. n \in Nat \ {0} /\ DOMAIN table = 1..n /\ \A j \in 1..n : table[j] \in Rows
    BY <1>1 DEF TableInv
  <2>2. /\ before \in Seq(Rows) /\ Len(before) = n - 1
        /\ \A j \in 1..(n - 1) : before[j] = table[j]
    <3>1. 1 \in Int /\ n - 1 \in Int /\ \A j \in 1..(n - 1) : table[j] \in Rows
      BY <2>1
    <3>2. /\ before \in Seq(Rows)
          /\ Len(before) = IF 1 <= n - 1 THEN (n - 1) - 1 + 1 ELSE 0
          /\ \A j \in 1..((n - 1) - 1 + 1) : before[j] = table[1 + j - 1]
      BY <3>1, SubSeqProperties DEF Front
    <3>3. Len(before) = n - 1
      <4>1. CASE n = 1
        BY <3>2, <4>1
      <4>2. CASE n # 1
        <5>1. 1 <= n - 1 /\ (n - 1) - 1 + 1 = n - 1
          BY <2>1, <4>2
        <5> QED
          BY <3>2, <5>1
      <4> QED
        BY <4>1, <4>2
    <3>4. ASSUME NEW j \in 1..(n - 1) PROVE before[j] = table[j]
      <4>1. j \in 1..((n - 1) - 1 + 1) /\ 1 + j - 1 = j
        BY <2>1
      <4> QED
        BY <3>2, <4>1
    <3> QED
      BY <3>2, <3>3, <3>4
  <2>3. before = [j \in 1..(n - 1) |-> before[j]]
    BY <2>2
  <2>4. before = [j \in 1..(n - 1) |-> table[j]]
    BY <2>2, <2>3
  <2> QED
    BY <2>1, <2>4 DEF Last
<1> HIDE DEF n, r, before
<1>3. /\ subset = [k \in { j \in DOMAIN table : table[j].instrument = Instrument } |-> table[k]]
      /\ Subset(before) = [k \in { j \in DOMAIN before : before[j].instrument = Instrument } |-> before[k]]
  BY SubsetIs
<1> HIDE DEF subset
<1>4. /\ n \in DOMAIN subset /\ subset[n] = r
      /\ DOMAIN Subset(before) = DOMAIN subset \ {n}
      /\ \A j \in DOMAIN Subset(before) : Subset(before)[j] = subset[j]
      /\ DOMAIN subset \subseteq 1..n
  <2>1. /\ n \in 1..n /\ \A j : j \in 1..(n - 1) <=> j \in 1..n /\ j # n
        /\ DOMAIN before = 1..(n - 1) /\ \A j \in 1..(n - 1) : before[j] = table[j]
    BY <1>2
  <2>2. DOMAIN subset = { j \in 1..n : table[j].instrument = Instrument }
    BY <1>2, <1>3
  <2>3. DOMAIN Subset(before) = { j \in 1..(n - 1) : table[j].instrument = Instrument }
    BY <1>3, <2>1
  <2>4. n \in DOMAIN subset /\ subset[n] = r
    BY <1>1, <1>2, <1>3, <2>1, <2>2
  <2>5. DOMAIN Subset(before) = DOMAIN subset \ {n}
    BY <2>1, <2>2, <2>3
  <2>6. \A j \in DOMAIN Subset(before) : Subset(before)[j] = subset[j]
    BY <1>2, <1>3, <2>1, <2>5
  <2> QED
    BY <2>2, <2>4, <2>5, <2>6
<1>5. Train(subset, n) = Subset(before)
  BY <1>3, <1>4 DEF Train, Restrict
<1>6. Cardinality(DOMAIN subset) >= 3 /\ DOMAIN Subset(before) # {}
  <2>1. IsFiniteSet(1..n)
    BY <1>2, FS_Interval
  <2>2. IsFiniteSet(DOMAIN subset)
    BY <1>4, <2>1, FS_Subset
  <2>3. Cardinality(DOMAIN subset) \in Nat
        /\ Cardinality(DOMAIN subset \ {n}) = Cardinality(DOMAIN subset) - 1
    BY <1>4, <2>2, FS_CardinalityType, FS_RemoveElement
  <2>4. Cardinality(DOMAIN subset) - 1 >= 2
    BY <1>1, <1>4, <2>3
  <2>5. DOMAIN Subset(before) # {}
    <3>1. DOMAIN Subset(before) = {} => Cardinality(DOMAIN Subset(before)) = 0
      BY FS_EmptySet
    <3> QED
      BY <1>1, <3>1
  <2> QED
    BY <2>3, <2>4, <2>5
<1>7. BuildReport(table, r.load, r.period).holdout[key] = Holdout(subset, key)
  BY <1>4 DEF BuildReport, subset
<1>8. Holdout(subset, key)[n] =
        [true |-> subset[n][key] * Unit,
         predicted |-> EstimateResource(Train(subset, n), subset[n].load, subset[n].period, key)]
  BY <1>1, <1>4, <1>6 DEF Holdout
<1>9. Estimate(before, r.load, r.period, key)
        = EstimateResource(Subset(before), r.load, r.period, key)
  BY <1>6, EstimateIs
<1> QED
  BY <1>4, <1>5, <1>7, <1>8, <1>9

\* Whatever rows are saved in whatever order, the validation answers for the last of them
\* what a request for its load and its period was answered before it was there: no row helps
\* to predict itself, in no figure (validateHoldout, estimateResource of model.go).
THEOREM NoRowPredictsItself == Spec => []HoldoutIsForecast
<1>1. Spec => []TableInv
  BY TableInit, TableStep, PTL DEF Spec
<1> QED
  BY <1>1, ForecastOfLast, PTL

-----------------------------------------------------------------------------
(* The median is in the middle. *)

\* How many values are not above v
AtMost(vals, v) == Cardinality({ i \in DOMAIN vals : vals[i] <= v })

\* Of the k-th value k are not above it, and fewer than k not above a smaller one.
LEMMA Rank ==
  ASSUME NEW D, IsFiniteSet(D), NEW vals \in [D -> Int], NEW k \in 1..Cardinality(D)
  PROVE  LET m == vals[Sorted(vals)[k]]
         IN /\ m \in Int /\ AtMost(vals, m) \in Nat /\ AtMost(vals, m) >= k
            /\ \A v \in Int : v < m => AtMost(vals, v) \in Nat /\ AtMost(vals, v) <= k - 1
<1> DEFINE n == Cardinality(D)
           s == Sorted(vals)
           m == vals[s[k]]
           E(v) == { i \in D : vals[i] <= v }
<1>1. /\ s \in [1..n -> D] /\ n \in Nat /\ IsInjective(s) /\ Ascending(s, vals)
      /\ \A d \in D : \E j \in 1..n : s[j] = d
  BY SortedProperties
<1>2. \A v : IsFiniteSet(E(v)) /\ Cardinality(E(v)) \in Nat
  BY FS_Subset, FS_CardinalityType
<1>3. \A v : AtMost(vals, v) = Cardinality(E(v))
  BY DEF AtMost
<1> HIDE DEF n, s
<1>4. s[k] \in D /\ m \in Int /\ k \in Nat /\ k >= 1
  BY <1>1 DEF n
<1>5. k <= Cardinality(E(m))
  <2> DEFINE f == [j \in 1..k |-> s[j]]
  <2>1. \A j \in 1..k : j \in 1..n /\ s[j] \in E(m)
    BY <1>1 DEF Ascending, n
  <2>2. f \in [1..k -> E(m)]
    BY <2>1
  <2>3. \A i, j \in 1..k : f[i] = f[j] => i = j
    BY <1>1, <2>1 DEF IsInjective
  <2> HIDE DEF f
  <2>4. f \in Injection(1..k, E(m))
    BY <2>2, <2>3 DEF Injection, IsInjective
  <2>5. Cardinality(1..k) <= Cardinality(E(m))
    BY <1>2, <2>4, FS_Injection
  <2>6. Cardinality(1..k) = k
    BY <1>4, FS_Interval
  <2> QED
    BY <2>5, <2>6
<1>6. ASSUME NEW v \in Int, v < m PROVE Cardinality(E(v)) <= k - 1
  <2> DEFINE J == { j \in 1..(k - 1) : s[j] \in E(v) }
             f == [j \in J |-> s[j]]
  <2>1. IsFiniteSet(1..(k - 1)) /\ Cardinality(1..(k - 1)) = k - 1
    BY <1>4, FS_Interval
  <2>2. IsFiniteSet(J) /\ Cardinality(J) <= k - 1 /\ Cardinality(J) \in Nat
    BY <2>1, FS_Subset, FS_CardinalityType
  <2>3. ASSUME NEW i \in E(v) PROVE \E j \in J : f[j] = i
    <3>1. PICK j \in 1..n : s[j] = i
      BY <1>1
    <3>2. vals[i] \in Int /\ vals[i] < m
      BY <1>4, <1>6
    <3>3. j < k
      <4>1. ASSUME k <= j PROVE FALSE
        BY <1>1, <1>4, <3>1, <3>2, <4>1 DEF Ascending, n
      <4> QED
        BY <1>4, <3>1, <4>1
    <3>4. j \in J
      BY <3>1, <3>3
    <3> QED
      BY <3>1, <3>4
  <2>4. f \in Surjection(J, E(v))
    BY <2>3 DEF Surjection
  <2>5. Cardinality(E(v)) <= Cardinality(J)
    BY <2>2, <2>4, FS_Surjection
  <2>6. Cardinality(E(v)) \in Nat
    BY <1>2
  <2> HIDE DEF J, E, m
  <2> QED
    BY <1>4, <2>2, <2>5, <2>6
<1> QED
  BY <1>2, <1>3, <1>4, <1>5, <1>6 DEF s

\* The least value that enough values are not above is the k-th, if k are enough and
\* k - 1 are not.
LEMMA LeastWithRank ==
  ASSUME NEW D, IsFiniteSet(D), NEW vals \in [D -> Int], NEW k \in 1..Cardinality(D),
         NEW Enough \in SUBSET Nat,
         \A c \in Nat : c >= k => c \in Enough,
         \A c \in Nat : c <= k - 1 => c \notin Enough
  PROVE  Min({ v \in { vals[i] : i \in DOMAIN vals } : AtMost(vals, v) \in Enough })
           = vals[Sorted(vals)[k]]
<1> DEFINE m == vals[Sorted(vals)[k]]
           S == { v \in { vals[i] : i \in DOMAIN vals } : AtMost(vals, v) \in Enough }
<1>1. /\ m \in Int /\ AtMost(vals, m) \in Nat /\ AtMost(vals, m) >= k
      /\ \A v \in Int : v < m => AtMost(vals, v) \in Nat /\ AtMost(vals, v) <= k - 1
  BY Rank
<1>2. Sorted(vals)[k] \in D
  BY SortedProperties
<1>3. S \subseteq Int /\ m \in S
  BY <1>1, <1>2
<1>4. \A v \in S : m <= v
  BY <1>1, <1>3
<1> HIDE DEF S, m
<1>5. \A y \in S : y \in Int /\ (y <= m => y = m)
  BY <1>3, <1>4
<1>6. Min(S) \in S /\ \A y \in S : Min(S) <= y
  BY <1>3, <1>4 DEF Min
<1>7. Min(S) = m
  BY <1>3, <1>5, <1>6
<1> QED
  BY <1>7 DEF S, m

\* The median of even numbers is their middle.
LEMMA MedianIsMiddle ==
  ASSUME NEW D, IsFiniteSet(D), D # {}, NEW vals \in [D -> Int],
         \A i \in D : \E u \in Int : vals[i] = 2 * u
  PROVE  IsMiddle(Median(vals), vals)
<1> DEFINE n == Cardinality(D)
           s == Sorted(vals)
           low == (n + 1) \div 2
           high == n \div 2 + 1
           values == { vals[i] : i \in DOMAIN vals }
<1>1. n \in Nat /\ n # 0 /\ s \in [1..n -> D] /\ DOMAIN vals = D
  BY SortedProperties, FS_EmptySet
<1> HIDE DEF n, s
<1>2. low \in 1..n /\ high \in 1..n
  BY <1>1
<1>3. Min({ v \in values : 2 * AtMost(vals, v) >= n }) = vals[s[low]]
  <2> DEFINE Enough == { c \in Nat : 2 * c >= n }
  <2>1. /\ \A c \in Nat : c >= low => c \in Enough
        /\ \A c \in Nat : c <= low - 1 => c \notin Enough
    BY <1>1
  <2>2. Min({ v \in values : AtMost(vals, v) \in Enough }) = vals[s[low]]
    BY <1>2, <2>1, LeastWithRank DEF n, s
  <2>3. \A v : AtMost(vals, v) \in Nat
    BY <1>1, FS_Subset, FS_CardinalityType DEF AtMost
  <2>4. { v \in values : AtMost(vals, v) \in Enough } = { v \in values : 2 * AtMost(vals, v) >= n }
    BY <2>3
  <2> QED
    BY <2>2, <2>4
<1>4. Min({ v \in values : 2 * AtMost(vals, v) > n }) = vals[s[high]]
  <2> DEFINE Enough == { c \in Nat : 2 * c > n }
  <2>1. /\ \A c \in Nat : c >= high => c \in Enough
        /\ \A c \in Nat : c <= high - 1 => c \notin Enough
    BY <1>1
  <2>2. Min({ v \in values : AtMost(vals, v) \in Enough }) = vals[s[high]]
    BY <1>2, <2>1, LeastWithRank DEF n, s
  <2>3. \A v : AtMost(vals, v) \in Nat
    BY <1>1, FS_Subset, FS_CardinalityType DEF AtMost
  <2>4. { v \in values : AtMost(vals, v) \in Enough } = { v \in values : 2 * AtMost(vals, v) > n }
    BY <2>3
  <2> QED
    BY <2>2, <2>4
<1>5. Median(vals) = (vals[s[low]] + vals[s[high]]) \div 2
  BY <1>1 DEF Median, n, s
<1>6. 2 * Median(vals) = vals[s[low]] + vals[s[high]]
  <2>1. s[low] \in D /\ s[high] \in D
    BY <1>1, <1>2
  <2>2. PICK u \in Int : vals[s[low]] = 2 * u
    BY <2>1
  <2>3. PICK w \in Int : vals[s[high]] = 2 * w
    BY <2>1
  <2> QED
    BY <1>5, <2>2, <2>3
<1> QED
  BY <1>1, <1>3, <1>4, <1>6 DEF IsMiddle, AtMost, n

\* It is half the sum of two of the values.
LEMMA MedianOfTwo ==
  ASSUME NEW D, IsFiniteSet(D), D # {}, NEW vals \in [D -> Int]
  PROVE  \E i, j \in D : Median(vals) = (vals[i] + vals[j]) \div 2
<1> DEFINE n == Cardinality(D)
           s == Sorted(vals)
<1>1. n \in Nat /\ n # 0 /\ s \in [1..n -> D] /\ DOMAIN vals = D
  BY SortedProperties, FS_EmptySet
<1> HIDE DEF n, s
<1>2. (n + 1) \div 2 \in 1..n /\ n \div 2 + 1 \in 1..n
  BY <1>1
<1>3. s[(n + 1) \div 2] \in D /\ s[n \div 2 + 1] \in D
  BY <1>1, <1>2
<1>4. Median(vals) = (vals[s[(n + 1) \div 2]] + vals[s[n \div 2 + 1]]) \div 2
  BY <1>1 DEF Median, n, s
<1> QED
  BY <1>3, <1>4

-----------------------------------------------------------------------------
(* An estimate is what the method says.                                     *)

\* v is a multiple of m.
Multiple(v, m) == \E u \in Int : v = m * u

\* The figures are natural numbers that are divided exactly, and so are distances of loads.
Exact(points) ==
  /\ \A i \in DOMAIN points :
       points[i].value \in Nat /\ \A d \in Distances : Multiple(points[i].value, 2 * d)
  /\ \A a, b \in LoadsOf(points) : a < b => b - a \in Distances

\* Whatever the slopes are, what is taken for them is within the bounds.
LEMMA ClampedType == \A slopes : Clamped(slopes) \in 3..7
BY DEF Clamped

\* So is the exponent of any rows, also when no load tells one.
LEMMA AlphaType == \A rows : AlphaByRetention(rows) \in 3..7
<1> SUFFICES ASSUME NEW rows PROVE AlphaByRetention(rows) \in 3..7
  OBVIOUS
<1> DEFINE seen == Measured(rows, "disk")
           Of(load) == RestrictValues(seen, LAMBDA r : r.load = load)
           Spread(load) == Covariance(Times(Of(load)), Times(Of(load)))
           Slope(load) == Covariance(Times(Of(load)), Sizes(Of(load))) \div Spread(load)
           loads == { l \in LoadsOf(seen) : Spread(l) # 0 }
           slopes == [l \in loads |-> Slope(l)]
<1>1. AlphaByRetention(rows) = IF loads = {} THEN 5 ELSE Clamped(slopes)
  BY DEF AlphaByRetention
<1> HIDE DEF loads, slopes
<1> QED
  BY <1>1, ClampedType

\* The points of a table are finitely many, and exact.
LEMMA PointsExact ==
  ASSUME TableInv, NEW key \in Keys, NEW T \in Horizons
  PROVE  LET points == Points(RowsForResourceModel(Subset(table), key), key, T)
             D == DOMAIN points
         IN IsFiniteSet(D) /\ points \in [D -> PointSet] /\ Exact(points)
<1> DEFINE A == Subset(table)
           B == RowsForResourceModel(A, key)
           M == Measured(B, key)
           points == Points(B, key, T)
<1>1. DOMAIN A \subseteq DOMAIN table /\ \A i \in DOMAIN A : A[i] = table[i]
  BY SubsetIs
<1> HIDE DEF A
<1>2. DOMAIN B \subseteq DOMAIN A /\ \A i \in DOMAIN B : B[i] = A[i]
  BY DEF RowsForResourceModel, RestrictValues, Restrict
<1> HIDE DEF B
<1>3. DOMAIN M \subseteq DOMAIN B /\ \A i \in DOMAIN M : M[i] = B[i] /\ B[i][key] > 0
  BY MeasuredIs
<1> HIDE DEF M
<1>4. \A i \in DOMAIN M : M[i] \in Rows /\ M[i] \in Row /\ M[i][key] > 0
  BY <1>1, <1>2, <1>3, CapacityAssumption DEF TableInv
<1>5. IsFiniteSet(DOMAIN M)
  <2>1. DOMAIN table = 1..Len(table) /\ Len(table) \in Nat
    BY DEF TableInv
  <2>2. IsFiniteSet(DOMAIN table)
    BY <2>1, FS_Interval
  <2>3. DOMAIN M \subseteq DOMAIN table
    BY <1>1, <1>2, <1>3
  <2> QED
    BY <2>2, <2>3, FS_Subset
<1>6. PICK slope \in 3..7 :
        points = [i \in DOMAIN M |-> [load |-> M[i].load, value |-> Scaled(M[i], key, slope, T)]]
  <2>1. CASE key = "disk"
    <3>1. points = [i \in DOMAIN M |->
                      [load |-> M[i].load, value |-> Scaled(M[i], key, AlphaByRetention(B), T)]]
      BY <2>1 DEF Points, M
    <3> QED
      BY <3>1, AlphaType
  <2>2. CASE key # "disk"
    <3>1. points = [i \in DOMAIN M |-> [load |-> M[i].load, value |-> Scaled(M[i], key, 0, T)]]
      BY <2>2 DEF Points, M
    <3>2. \A r : Scaled(r, key, 0, T) = Scaled(r, key, 3, T)
      BY <2>2 DEF Scaled
    <3> QED
      BY <3>1, <3>2
  <2> QED
    BY <2>1, <2>2
<1> HIDE DEF points
<1>7. ASSUME NEW i \in DOMAIN M
      PROVE  /\ points[i].load = M[i].load /\ points[i].load \in Nat
             /\ points[i].value \in Nat
             /\ \A d \in Distances : Multiple(points[i].value, 2 * d)
  <2> DEFINE v == Scaled(M[i], key, slope, T)
  <2>1. v \in Nat /\ \A d \in Distances : (v \div (2 * d)) * (2 * d) = v
    BY <1>4, UnitAssumption
  <2>2. points[i] = [load |-> M[i].load, value |-> v]
    BY <1>6
  <2> HIDE DEF v
  <2>3. ASSUME NEW d \in Distances PROVE Multiple(v, 2 * d)
    <3>1. d \in Nat /\ d > 0
      BY DEF Distances
    <3>2. v \div (2 * d) \in Int
      BY <2>1, <3>1
    <3>3. v = (2 * d) * (v \div (2 * d))
      BY <2>1, <3>1, <3>2
    <3> QED
      BY <3>2, <3>3 DEF Multiple
  <2> QED
    BY <1>4, <2>1, <2>2, <2>3 DEF Row
<1>8. DOMAIN points = DOMAIN M /\ points \in [DOMAIN M -> PointSet]
  BY <1>4, <1>6, <1>7 DEF PointSet
<1>9. ASSUME NEW a \in LoadsOf(points), NEW b \in LoadsOf(points), a < b
      PROVE  b - a \in Distances
  <2>1. PICK i \in DOMAIN M : M[i].load = a
    BY <1>7, <1>8 DEF LoadsOf
  <2>2. PICK j \in DOMAIN M : M[j].load = b
    BY <1>7, <1>8 DEF LoadsOf
  <2>3. a \in Nat /\ b \in Nat /\ b - a \in Nat \ {0}
    BY <1>4, <1>9, <2>1, <2>2 DEF Row
  <2>4. b - a \in { s.load - r.load : r, s \in Rows }
    BY <1>4, <2>1, <2>2
  <2> QED
    BY <2>3, <2>4 DEF Distances
<1> QED
  BY <1>5, <1>7, <1>8, <1>9 DEF Exact, points, B, A

\* The median at a load is in the middle, is no less than zero and is divided exactly.
LEMMA PointExact ==
  ASSUME NEW D, IsFiniteSet(D), NEW points \in [D -> PointSet], Exact(points),
         NEW l \in LoadsOf(points)
  PROVE  LET m == Median(AtLoad(points, l))
         IN m \in Nat /\ IsMiddle(m, AtLoad(points, l)) /\ \A d \in Distances : Multiple(m, d)
<1> DEFINE E == { j \in DOMAIN points : points[j].load = l }
           vals == AtLoad(points, l)
           m == Median(vals)
<1>1. E \in SUBSET D /\ E # {} /\ IsFiniteSet(E)
  <2>1. E \in SUBSET D /\ E # {}
    BY DEF LoadsOf
  <2> QED
    BY <2>1, FS_Subset
<1>2. vals \in [E -> Int] /\ \A i \in E : vals[i] = points[i].value
  BY DEF AtLoad, PointSet
<1>3. \A i \in E : vals[i] \in Nat /\ \A d \in Distances : Multiple(vals[i], 2 * d)
  BY <1>1, <1>2 DEF Exact
<1> HIDE DEF E, vals
<1>4. IsMiddle(m, vals)
  <2>1. \A i \in E : \E u \in Int : vals[i] = 2 * u
    <3>1. 1 \in Distances /\ 2 * 1 = 2
      BY DEF Distances
    <3> QED
      BY <1>3, <3>1 DEF Multiple
  <2> QED
    BY <1>1, <1>2, <2>1, MedianIsMiddle
<1>5. PICK i \in E, j \in E : m = (vals[i] + vals[j]) \div 2
  BY <1>1, <1>2, MedianOfTwo
<1>6. m \in Nat
  BY <1>3, <1>5
<1>7. ASSUME NEW d \in Distances PROVE Multiple(m, d)
  <2>1. d \in Nat /\ d > 0
    BY DEF Distances
  <2>2. PICK u \in Int : vals[i] = (2 * d) * u
    BY <1>3 DEF Multiple
  <2>3. PICK w \in Int : vals[j] = (2 * d) * w
    BY <1>3 DEF Multiple
  <2>4. vals[i] + vals[j] = 2 * (d * (u + w))
    BY <2>1, <2>2, <2>3
  <2>5. d * (u + w) \in Int
    BY <2>1
  <2>6. m = d * (u + w)
    BY <1>5, <2>4, <2>5
  <2> QED
    BY <2>6 DEF Multiple
<1> QED
  BY <1>4, <1>6, <1>7 DEF vals

\* The line through two points whose figures the distance divides
LEMMA LineExact ==
  ASSUME NEW p \in PointSet, NEW q \in PointSet, p.load < q.load, NEW x \in Int,
         Multiple(p.value, q.load - p.load), Multiple(q.value, q.load - p.load)
  PROVE  LET e == Segment(p, q, x)
             d == q.load - p.load
         IN /\ e \in Int
            /\ Max({0, e}) * d = Max({0, p.value * (q.load - x) + q.value * (x - p.load)})
<1> DEFINE d == q.load - p.load
           e == Segment(p, q, x)
           z == x - p.load
           line == p.value * (q.load - x) + q.value * (x - p.load)
<1>1. d \in Nat /\ d > 0 /\ z \in Int /\ p.value \in Int /\ q.value \in Int
  BY DEF PointSet
<1>2. PICK u \in Int : p.value = d * u
  BY DEF Multiple
<1>3. PICK w \in Int : q.value = d * w
  BY DEF Multiple
<1>4. q.load - x = d - z
  BY DEF PointSet
<1>5. e = p.value + (z * (q.value - p.value)) \div d
  BY DEF Segment
<1>6. line = p.value * (d - z) + q.value * z
  BY <1>4
<1> HIDE DEF d, e, z, line
<1>7. z * (q.value - p.value) = d * (z * (w - u)) /\ z * (w - u) \in Int
  BY <1>1, <1>2, <1>3
<1>8. e = d * u + z * (w - u) /\ e \in Int
  BY <1>1, <1>2, <1>5, <1>7, DivisionExact
<1>9. line = d * e
  <2>1. line = (d * u) * (d - z) + (d * w) * z
    BY <1>2, <1>3, <1>6
  <2>2. (d * u) * (d - z) + (d * w) * z = d * (u * (d - z) + w * z)
    BY <1>1
  <2>3. u * (d - z) + w * z = d * u + z * (w - u)
    BY <1>1
  <2> QED
    BY <1>8, <2>1, <2>2, <2>3
<1>10. Max({0, e}) * d = Max({0, line})
  <2>1. CASE e >= 0
    <3>1. line >= 0 /\ line \in Int
      BY <1>1, <1>8, <1>9, <2>1
    <3>2. Max({0, e}) = e /\ Max({0, line}) = line
      BY <1>8, <2>1, <3>1 DEF Max
    <3> QED
      BY <1>1, <1>8, <1>9, <3>2
  <2>2. CASE e < 0
    <3>1. line < 0 /\ line \in Int
      BY <1>1, <1>8, <1>9, <2>2
    <3>2. Max({0, e}) = 0 /\ Max({0, line}) = 0
      BY <1>8, <2>2, <3>1 DEF Max
    <3> QED
      BY <1>1, <3>2
  <2> QED
    BY <1>8, <2>1, <2>2
<1> QED
  BY <1>8, <1>10 DEF d, e, line

\* A load is next to another one, if there is another one.
LEMMA NextLoad ==
  ASSUME NEW L \in SUBSET Nat, IsFiniteSet(L), NEW l \in L, L # {l}
  PROVE  \E a, b \in L : Adjacent(a, b, L) /\ l \in a..b /\ l \in {a, b}
<1>1. PICK m \in L : m # l
  OBVIOUS
<1>2. CASE l < m
  <2> DEFINE S == { y \in L : l < y }
  <2>1. S \in SUBSET Nat /\ S # {}
    BY <1>2
  <2>2. Min(S) \in S /\ \A y \in S : Min(S) <= y
    BY <2>1, LeastExists
  <2>3. PICK b \in S : \A y \in S : b <= y
    BY <2>2
  <2>4. Adjacent(l, b, L)
    BY <2>3 DEF Adjacent
  <2>5. l \in l..b
    BY <2>3
  <2> QED
    BY <2>4, <2>5
<1>3. CASE m < l
  <2> DEFINE S == { y \in L : y < l }
             v == [y \in S |-> y]
  <2>1. S # {} /\ v \in [S -> Int] /\ IsFiniteSet(S)
    <3>1. S # {} /\ S \in SUBSET L /\ \A y \in S : y \in Int
      BY <1>3
    <3>2. IsFiniteSet(S)
      BY <3>1, FS_Subset
    <3> HIDE DEF S
    <3>3. v \in [S -> Int]
      BY <3>1
    <3> QED
      BY <3>1, <3>2, <3>3
  <2>2. PICK a \in S : \A y \in S : v[y] <= v[a]
    BY <2>1, GreatestExists
  <2>3. \A y \in S : y <= a
    BY <2>2
  <2>4. Adjacent(a, l, L)
    BY <2>3 DEF Adjacent
  <2>5. l \in a..l
    OBVIOUS
  <2> QED
    BY <2>4, <2>5
<1> QED
  BY <1>1, <1>2, <1>3

\* A finite set of numbers that is not empty has a maximum.
LEMMA MaxExists ==
  ASSUME NEW L \in SUBSET Nat, IsFiniteSet(L), L # {}
  PROVE  Max(L) \in L /\ \A y \in L : y <= Max(L)
<1> DEFINE v == [y \in L |-> y]
<1>1. v \in [L -> Int]
  OBVIOUS
<1>2. PICK m \in L : \A y \in L : v[y] <= v[m]
  BY <1>1, GreatestExists
<1>3. \A y \in L : m >= y
  BY <1>2
<1>4. Max(L) \in L /\ \A y \in L : Max(L) >= y
  BY <1>3 DEF Max
<1> QED
  BY <1>4

\* Without a load there is nothing to answer; with one the answer is its figure.
LEMMA FewLoads ==
  ASSUME NEW D, IsFiniteSet(D), NEW points \in [D -> PointSet], NEW x
  PROVE  /\ LoadsOf(points) = {} => Interpolate(DeduplicateByLoad(points), x) = 0
         /\ \A l : LoadsOf(points) = {l} =>
              Interpolate(DeduplicateByLoad(points), x) = Median(AtLoad(points, l))
<1> DEFINE L == LoadsOf(points)
           n == Cardinality(L)
           p == DeduplicateByLoad(points)
<1>1. /\ n \in Nat /\ p \in [1..n -> PointSet] /\ Len(p) = n
      /\ \A k \in 1..n : p[k].load \in L /\ p[k] = PointAt(points, p[k].load)
  BY DeduplicateProperties
<1> HIDE DEF L, n, p
<1>2. ASSUME L = {} PROVE Interpolate(p, x) = 0
  <2>1. Len(p) = 0
    BY <1>1, <1>2, FS_EmptySet DEF n
  <2> QED
    BY <2>1 DEF Interpolate
<1>3. ASSUME NEW l, L = {l} PROVE Interpolate(p, x) = Median(AtLoad(points, l))
  <2>1. n = 1
    BY <1>3, FS_Singleton DEF n
  <2>2. 1 \in 1..n /\ p[1].load = l
    BY <1>1, <1>3, <2>1
  <2>3. p[1].value = Median(AtLoad(points, l))
    BY <1>1, <2>2 DEF PointAt
  <2> QED
    BY <1>1, <2>1, <2>3 DEF Interpolate
<1> QED
  BY <1>2, <1>3 DEF L, p

\* At a measured load the answer is its figure.
LEMMA AtMeasuredLoad ==
  ASSUME NEW D, IsFiniteSet(D), NEW points \in [D -> PointSet], NEW x \in LoadsOf(points)
  PROVE  Interpolate(DeduplicateByLoad(points), x) = Median(AtLoad(points, x))
<1> DEFINE L == LoadsOf(points)
<1>1. L \in SUBSET Nat /\ IsFiniteSet(L) /\ x \in Nat
  BY LoadsFinite
<1>2. CASE L = {x}
  BY <1>2, FewLoads
<1>3. CASE L # {x}
  <2>1. PICK a \in L, b \in L : Adjacent(a, b, L) /\ x \in a..b /\ x \in {a, b}
    BY <1>1, <1>3, NextLoad
  <2>2. x \in Int /\ ~(x < a) /\ ~(x > b) /\ a < b
    BY <1>1, <2>1 DEF Adjacent
  <2>3. /\ Interpolate(DeduplicateByLoad(points), x)
             = Segment(PointAt(points, a), PointAt(points, b), x)
        /\ PointAt(points, a) \in PointSet /\ PointAt(points, b) \in PointSet
    BY <2>1, <2>2, InterpolateLine
  <2>4. PointAt(points, a).load = a /\ PointAt(points, b).load = b
    BY DEF PointAt
  <2>5. Segment(PointAt(points, a), PointAt(points, b), x) = PointAt(points, x).value
    BY <2>1, <2>2, <2>3, <2>4, SegmentEnds
  <2> QED
    BY <2>3, <2>5 DEF PointAt
<1> QED
  BY <1>2, <1>3

\* The invariant at any table: no load, one load, a measured load, a load between two
LEMMA ReferenceHolds == TableInv => EstimateIsReference
<1>1. SUFFICES ASSUME TableInv, DOMAIN Subset(table) # {}, NEW key \in Keys, NEW T \in Horizons
      PROVE  LET points == Points(RowsForResourceModel(Subset(table), key), key, T)
                 loads == LoadsOf(points)
                 At(l, v) == IsMiddle(v, AtLoad(points, l))
                 point == [l \in loads |-> Median(AtLoad(points, l))]
             IN /\ \A l \in loads : At(l, point[l])
                /\ \A x \in Loads : LET e == Estimate(table, x, T, key) IN
                     /\ x \in loads => At(x, e)
                     /\ loads = {} => e = 0
                     /\ \A l \in loads : loads = {l} => e = point[l]
                     /\ \A a, b \in loads :
                          /\ Adjacent(a, b, loads)
                          /\ x < a => a = Min(loads)
                          /\ x > b => b = Max(loads)
                          => e * (b - a) = Max({0, point[a] * (b - x) + point[b] * (x - a)})
  BY DEF EstimateIsReference
<1> DEFINE points == Points(RowsForResourceModel(Subset(table), key), key, T)
           D == DOMAIN points
           loads == LoadsOf(points)
           M(l) == Median(AtLoad(points, l))
<1>2. IsFiniteSet(D) /\ points \in [D -> PointSet] /\ Exact(points)
  BY <1>1, PointsExact
<1>3. \A x : Estimate(table, x, T, key) = Max({0, Interpolate(DeduplicateByLoad(points), x)})
  BY <1>1, EstimateIs DEF EstimateResource, Line
<1> HIDE DEF points
<1>4. \A l \in loads : /\ M(l) \in Nat /\ IsMiddle(M(l), AtLoad(points, l))
                       /\ \A d \in Distances : Multiple(M(l), d)
  BY <1>2, PointExact
<1>5. loads \in SUBSET Nat /\ IsFiniteSet(loads)
  BY <1>2, LoadsFinite
<1>6. \A m \in Nat : Max({0, m}) = m
  BY DEF Max
<1>7. ASSUME NEW x \in loads PROVE IsMiddle(Estimate(table, x, T, key), AtLoad(points, x))
  <2>1. Interpolate(DeduplicateByLoad(points), x) = M(x)
    BY <1>2, AtMeasuredLoad
  <2>2. Estimate(table, x, T, key) = M(x)
    BY <1>3, <1>4, <1>6, <2>1
  <2> QED
    BY <1>4, <2>2
<1>8. ASSUME NEW x, loads = {} PROVE Estimate(table, x, T, key) = 0
  <2>1. Interpolate(DeduplicateByLoad(points), x) = 0
    BY <1>2, <1>8, FewLoads
  <2>2. Max({0, 0}) = 0
    BY <1>6
  <2> HIDE DEF D, loads
  <2> QED
    BY <1>3, <2>1, <2>2
<1>9. ASSUME NEW x, NEW l \in loads, loads = {l} PROVE Estimate(table, x, T, key) = M(l)
  <2>1. Interpolate(DeduplicateByLoad(points), x) = M(l)
    BY <1>2, <1>9, FewLoads
  <2> QED
    BY <1>3, <1>4, <1>6, <2>1
<1>10. ASSUME NEW x \in Loads, NEW a \in loads, NEW b \in loads, Adjacent(a, b, loads),
              x < a => a = Min(loads), x > b => b = Max(loads)
       PROVE  Estimate(table, x, T, key) * (b - a) = Max({0, M(a) * (b - x) + M(b) * (x - a)})
  <2> DEFINE p == PointAt(points, a)
             q == PointAt(points, b)
  <2>1. x \in Int /\ a \in Nat /\ b \in Nat /\ a < b
    BY <1>5, <1>10, CapacityAssumption DEF Adjacent
  <2>2. /\ x < a => \A l \in loads : a <= l
        /\ x > b => \A l \in loads : l <= b
    BY <1>5, <1>10, LeastExists, MaxExists
  <2>3. /\ Interpolate(DeduplicateByLoad(points), x) = Segment(p, q, x)
        /\ p \in PointSet /\ q \in PointSet
    BY <1>2, <1>10, <2>1, <2>2, InterpolateLine
  <2>4. p.load = a /\ q.load = b /\ p.value = M(a) /\ q.value = M(b)
    BY DEF PointAt
  <2>5. b - a \in Distances
    BY <1>2, <2>1 DEF Exact
  <2>6. Multiple(M(a), b - a) /\ Multiple(M(b), b - a)
    BY <1>4, <2>5
  <2> HIDE DEF p, q
  <2>7. Max({0, Segment(p, q, x)}) * (b - a) = Max({0, M(a) * (b - x) + M(b) * (x - a)})
    BY <2>1, <2>3, <2>4, <2>6, LineExact
  <2> QED
    BY <1>3, <2>3, <2>7
<1> HIDE DEF M
<1>11. \A l \in loads : [k \in loads |-> Median(AtLoad(points, k))][l] = M(l)
  BY DEF M
<1> QED
  BY <1>4, <1>7, <1>8, <1>9, <1>10, <1>11 DEF points

\* Whatever rows are saved in whatever order, every answer is what the method says it is:
\* the middle of the figures at a measured load, the line through the two measured loads
\* around it elsewhere, or through the first or the last two, and never below zero
\* (median, deduplicateByLoad, interpolate, segment, estimateResource of model.go). The
\* divisions have to be exact (UnitAssumption), the code's are those of floats.
THEOREM EveryEstimateIsReference == Spec => []EstimateIsReference
<1>1. Spec => []TableInv
  BY TableInit, TableStep, PTL DEF Spec
<1> QED
  BY <1>1, ReferenceHolds, PTL

-----------------------------------------------------------------------------
(* Growth. *)

\* Powers of two are numbers.
LEMMA PowerType == \A n \in Nat : 2^n \in Nat /\ 2^n # 0
<1> SUFFICES ASSUME NEW n \in Nat PROVE 2^n \in Nat /\ 2^n # 0
  OBVIOUS
<1>1. IsFiniteSet(1..n) /\ Cardinality(1..n) = n
  BY FS_Interval
<1>2. IsFiniteSet(SUBSET (1..n)) /\ Cardinality(SUBSET (1..n)) = 2^n
  BY <1>1, FS_SUBSET
<1>3. SUBSET (1..n) # {}
  OBVIOUS
<1>4. Cardinality(SUBSET (1..n)) \in Nat /\ Cardinality(SUBSET (1..n)) # 0
  BY <1>2, <1>3, FS_CardinalityType, FS_EmptySet
<1> QED
  BY <1>2, <1>4

\* Powers multiply.
LEMMA PowerSum ==
  ASSUME NEW m \in Nat, NEW n \in Nat
  PROVE  2^(m + n) = 2^m * 2^n
<1> DEFINE A == 1..m
           B == (m + 1)..(m + n)
           f == [x \in (SUBSET A) \X (SUBSET B) |-> x[1] \cup x[2]]
<1>1. /\ IsFiniteSet(A) /\ Cardinality(A) = m
      /\ IsFiniteSet(B) /\ Cardinality(B) = n
      /\ IsFiniteSet(A \cup B) /\ Cardinality(A \cup B) = m + n
  <2>1. A \cup B = 1..(m + n)
    OBVIOUS
  <2>2. IsFiniteSet(1..m) /\ Cardinality(1..m) = m
    BY FS_Interval
  <2>3. IsFiniteSet((m + 1)..(m + n)) /\ Cardinality((m + 1)..(m + n)) = n
    <3>1. /\ IsFiniteSet((m + 1)..(m + n))
          /\ Cardinality((m + 1)..(m + n)) =
               IF m + 1 > m + n THEN 0 ELSE (m + n) - (m + 1) + 1
      BY FS_Interval
    <3> QED
      BY <3>1
  <2>4. IsFiniteSet(1..(m + n)) /\ Cardinality(1..(m + n)) = m + n
    <3>1. /\ IsFiniteSet(1..(m + n))
          /\ Cardinality(1..(m + n)) = IF 1 > m + n THEN 0 ELSE (m + n) - 1 + 1
      BY FS_Interval
    <3> QED
      BY <3>1
  <2> QED
    BY <2>1, <2>2, <2>3, <2>4
<1>2. A \cap B = {}
  OBVIOUS
<1> HIDE DEF A, B
<1>3. /\ IsFiniteSet(SUBSET A) /\ Cardinality(SUBSET A) = 2^m
      /\ IsFiniteSet(SUBSET B) /\ Cardinality(SUBSET B) = 2^n
      /\ IsFiniteSet(SUBSET (A \cup B)) /\ Cardinality(SUBSET (A \cup B)) = 2^(m + n)
  BY <1>1, FS_SUBSET
<1>4. /\ IsFiniteSet((SUBSET A) \X (SUBSET B))
      /\ Cardinality((SUBSET A) \X (SUBSET B)) = 2^m * 2^n
  BY <1>3, FS_Product
<1>5. f \in [(SUBSET A) \X (SUBSET B) -> SUBSET (A \cup B)]
  OBVIOUS
<1>6. ASSUME NEW x \in (SUBSET A) \X (SUBSET B), NEW y \in (SUBSET A) \X (SUBSET B), f[x] = f[y]
      PROVE  x = y
  <2>1. x[1] \cup x[2] = y[1] \cup y[2]
    BY <1>6
  <2>2. x[1] = y[1] /\ x[2] = y[2]
    BY <1>2, <2>1
  <2> QED
    BY <2>2
<1>7. ASSUME NEW S \in SUBSET (A \cup B)
      PROVE  \E x \in (SUBSET A) \X (SUBSET B) : f[x] = S
  <2>1. << S \cap A, S \cap B >> \in (SUBSET A) \X (SUBSET B)
    OBVIOUS
  <2>2. f[<< S \cap A, S \cap B >>] = S
    BY <2>1
  <2> QED
    BY <2>1, <2>2
<1> HIDE DEF f
<1>8. f \in Bijection((SUBSET A) \X (SUBSET B), SUBSET (A \cup B))
  BY <1>5, <1>6, <1>7 DEF Bijection, Injection, Surjection, IsInjective
<1>9. Cardinality(SUBSET (A \cup B)) = Cardinality((SUBSET A) \X (SUBSET B))
  <2>1. ExistsBijection((SUBSET A) \X (SUBSET B), SUBSET (A \cup B))
    BY <1>8 DEF ExistsBijection
  <2> QED
    BY <1>4, <2>1, FS_Bijection
<1> QED
  BY <1>3, <1>4, <1>9

\* What may be multiplied by may be left out.
LEMMA Cancel ==
  ASSUME NEW q \in Nat, q > 0, NEW a \in Int, NEW b \in Int, q * a = q * b
  PROVE  a = b
<1>1. (q * a) \div q = a /\ (q * b) \div q = b
  BY DivisionExact
<1> QED
  BY <1>1

\* A figure brought one step further grows by the power of the slope.
LEMMA PowerGrows ==
  ASSUME NEW slope \in Nat, NEW time \in Int, NEW c \in Nat, NEW v \in Nat, NEW w \in Nat,
         v * Power(slope, time)[2] = c * Power(slope, time)[1],
         w * Power(slope, time + 1)[2] = c * Power(slope, time + 1)[1]
  PROVE  w = 2^slope * v
<1> DEFINE k == slope * time
<1>1. k \in Int /\ slope * (time + 1) = k + slope
  OBVIOUS
<1>2. /\ k >= 0 => Power(slope, time) = << 2^k, 1 >>
      /\ k < 0 => Power(slope, time) = << 1, 2^(-k) >>
      /\ k + slope >= 0 => Power(slope, time + 1) = << 2^(k + slope), 1 >>
      /\ k + slope < 0 => Power(slope, time + 1) = << 1, 2^(-(k + slope)) >>
  BY <1>1 DEF Power
<1> HIDE DEF k
<1> DEFINE f == 2^slope
<1>3. f \in Nat /\ f # 0
  BY PowerType
<1>4. CASE k >= 0
  <2>1. 2^k \in Nat /\ 2^(k + slope) = 2^k * f
    BY <1>1, <1>4, PowerType, PowerSum
  <2> DEFINE p == 2^k
  <2>2. v = c * p /\ w = c * (p * f)
    BY <1>1, <1>2, <1>4, <2>1
  <2> HIDE DEF p, f
  <2> QED
    BY <1>3, <2>1, <2>2 DEF p, f
<1>5. CASE k < 0 /\ k + slope >= 0
  <2>1. -k \in Nat /\ k + slope \in Nat /\ (-k) + (k + slope) = slope
    BY <1>1, <1>5
  <2> DEFINE p == 2^(-k)
             q == 2^(k + slope)
  <2>2. p \in Nat /\ q \in Nat /\ f = p * q
    <3>1. 2^((-k) + (k + slope)) = 2^(-k) * 2^(k + slope)
      BY <2>1, PowerSum
    <3> QED
      BY <2>1, <3>1, PowerType
  <2>3. v * p = c /\ w = c * q
    BY <1>2, <1>5, <2>2
  <2> HIDE DEF p, q, f
  <2>4. w = (v * p) * q
    BY <2>3
  <2> QED
    BY <2>2, <2>4 DEF f
<1>6. CASE k + slope < 0
  <2>1. -k \in Nat /\ -(k + slope) \in Nat /\ -(k + slope) + slope = -k /\ k < 0
    BY <1>1, <1>6
  <2> DEFINE p == 2^(-k)
             q == 2^(-(k + slope))
  <2>2. p \in Nat /\ q \in Nat /\ q # 0 /\ p = q * f
    <3>1. 2^(-(k + slope) + slope) = 2^(-(k + slope)) * 2^slope
      BY <2>1, PowerSum
    <3> QED
      BY <2>1, <3>1, PowerType
  <2>3. v * p = c /\ w * q = c
    BY <1>2, <1>6, <2>1, <2>2
  <2> HIDE DEF p, q, f
  <2>4. q * w = q * (f * v)
    BY <1>3, <2>2, <2>3
  <2>5. f * v \in Int /\ q > 0
    BY <1>3, <2>2
  <2>6. w = f * v
    BY <2>2, <2>4, <2>5, Cancel
  <2> QED
    BY <2>6 DEF f
<1> QED
  BY <1>1, <1>4, <1>5, <1>6

\* A factor keeps the order.
LEMMA ScaleOrder ==
  ASSUME NEW f \in Nat, f > 0, NEW a \in Int, NEW b \in Int
  PROVE  (f * a < f * b <=> a < b) /\ (f * a <= f * b <=> a <= b)
<1>1. ASSUME NEW c \in Int, NEW d \in Int, c < d PROVE f * c < f * d
  <2>1. d - c \in Nat /\ d - c >= 1
    BY <1>1
  <2>2. f * (d - c) >= 1
    BY <2>1
  <2>3. f * (d - c) = f * d - f * c
    OBVIOUS
  <2> QED
    BY <2>2, <2>3
<1>2. a = b => f * a = f * b
  OBVIOUS
<1>3. (a < b => f * a < f * b) /\ (b < a => f * b < f * a)
  BY <1>1
<1>4. f * a \in Int /\ f * b \in Int
  OBVIOUS
<1> QED
  BY <1>2, <1>3, <1>4

\* The k-th of the sorted values is one of them.
LEMMA SortedType ==
  ASSUME NEW D, IsFiniteSet(D), NEW vals \in [D -> Int], NEW k \in 1..Cardinality(D)
  PROVE  Sorted(vals)[k] \in D /\ vals[Sorted(vals)[k]] \in Int /\ k \in Nat
<1>1. Sorted(vals) \in [1..Cardinality(D) -> D] /\ Cardinality(D) \in Nat
  BY SortedProperties
<1> QED
  BY <1>1

\* The two in the middle are there.
LEMMA InTheMiddle ==
  \A n \in Nat : n # 0 => (n + 1) \div 2 \in 1..n /\ n \div 2 + 1 \in 1..n
OBVIOUS

\* The mean of two even numbers is a number.
LEMMA HalfOfEven ==
  ASSUME NEW u \in Int, NEW w \in Int
  PROVE  (2 * u + 2 * w) \div 2 = u + w
OBVIOUS

\* The median grows with the values.
LEMMA MedianGrows ==
  ASSUME NEW D, IsFiniteSet(D), D # {}, NEW vals \in [D -> Int], NEW big \in [D -> Int],
         NEW f \in Nat, f > 0, \A i \in D : big[i] = f * vals[i],
         \A i \in D : \E u \in Int : vals[i] = 2 * u
  PROVE  Median(big) = f * Median(vals)
<1> DEFINE n == Cardinality(D)
           s == Sorted(vals)
           t == Sorted(big)
<1>1. /\ n \in Nat /\ n # 0 /\ DOMAIN vals = D /\ DOMAIN big = D
      /\ s \in [1..n -> D] /\ t \in [1..n -> D]
  BY SortedProperties, FS_EmptySet
<1> HIDE DEF n, s, t
<1>2. ASSUME NEW v \in Int PROVE AtMost(big, f * v) = AtMost(vals, v)
  <2>1. { i \in D : big[i] <= f * v } = { i \in D : vals[i] <= v }
    BY ScaleOrder
  <2> QED
    BY <1>1, <2>1 DEF AtMost
<1>3. ASSUME NEW k \in 1..n PROVE big[t[k]] = f * vals[s[k]]
  <2> DEFINE m == vals[s[k]]
             u == vals[t[k]]
  <2>1. s[k] \in D /\ t[k] \in D /\ m \in Int /\ u \in Int /\ big[t[k]] = f * u /\ k \in Nat
    <3>1. s[k] \in D /\ t[k] \in D /\ k \in Nat
      BY SortedType DEF n, s, t
    <3> QED
      BY <3>1
  <2>2. /\ AtMost(vals, m) \in Nat /\ AtMost(vals, m) >= k
        /\ \A v \in Int : v < m => AtMost(vals, v) \in Nat /\ AtMost(vals, v) <= k - 1
    BY Rank DEF n, s
  <2>3. /\ AtMost(big, f * u) \in Nat /\ AtMost(big, f * u) >= k
        /\ \A v \in Int : v < f * u => AtMost(big, v) \in Nat /\ AtMost(big, v) <= k - 1
    <3>1. big[t[k]] = f * u
      BY <2>1
    <3> QED
      BY <3>1, Rank DEF n, t
  <2> HIDE DEF m, u
  <2>4. ASSUME u < m PROVE FALSE
    <3>1. AtMost(vals, u) <= k - 1 /\ AtMost(vals, u) >= k /\ AtMost(vals, u) \in Nat
      BY <1>2, <2>1, <2>2, <2>3, <2>4
    <3> QED
      BY <2>1, <3>1
  <2>5. ASSUME m < u PROVE FALSE
    <3>1. f * m < f * u /\ f * m \in Int
      BY <2>1, <2>5, ScaleOrder
    <3>2. AtMost(vals, m) <= k - 1
      BY <1>2, <2>1, <2>3, <3>1
    <3> QED
      BY <2>1, <2>2, <3>2
  <2>6. u = m
    BY <2>1, <2>4, <2>5
  <2> QED
    BY <2>1, <2>6 DEF m
<1> DEFINE low == (n + 1) \div 2
           high == n \div 2 + 1
<1>4. /\ Median(vals) = (vals[s[low]] + vals[s[high]]) \div 2
      /\ Median(big) = (big[t[low]] + big[t[high]]) \div 2
  BY <1>1 DEF Median, n, s, t
<1>5. low \in 1..n /\ high \in 1..n
  BY <1>1, InTheMiddle
<1>6. s[low] \in D /\ s[high] \in D
  BY <1>1, <1>5
<1>7. PICK u \in Int : vals[s[low]] = 2 * u
  BY <1>6
<1>8. PICK w \in Int : vals[s[high]] = 2 * w
  BY <1>6
<1>9. Median(vals) = u + w
  <2>1. Median(vals) = (2 * u + 2 * w) \div 2
    BY <1>4, <1>7, <1>8
  <2> QED
    BY <2>1, HalfOfEven
<1>10. big[t[low]] + big[t[high]] = 2 * (f * (u + w)) /\ f * (u + w) \in Int
  BY <1>3, <1>5, <1>7, <1>8
<1>11. Median(big) = f * (u + w)
  BY <1>4, <1>10
<1> QED
  BY <1>9, <1>11

\* So does the line through two points.
LEMMA SegmentGrows ==
  ASSUME NEW p \in PointSet, NEW q \in PointSet, p.load < q.load, NEW x \in Int,
         Multiple(p.value, q.load - p.load), Multiple(q.value, q.load - p.load),
         NEW f \in Nat
  PROVE  Segment([load |-> p.load, value |-> f * p.value],
                 [load |-> q.load, value |-> f * q.value], x) = f * Segment(p, q, x)
<1> DEFINE d == q.load - p.load
           z == x - p.load
           e == Segment(p, q, x)
           g == Segment([load |-> p.load, value |-> f * p.value],
                        [load |-> q.load, value |-> f * q.value], x)
<1>1. d \in Nat /\ d > 0 /\ z \in Int /\ p.value \in Int /\ q.value \in Int
  BY DEF PointSet
<1>2. PICK u \in Int : p.value = d * u
  BY DEF Multiple
<1>3. PICK w \in Int : q.value = d * w
  BY DEF Multiple
<1>4. e = p.value + (z * (q.value - p.value)) \div d
  BY DEF Segment
<1>5. g = f * p.value + (z * (f * q.value - f * p.value)) \div d
  BY DEF Segment
<1> HIDE DEF d, z, e, g
<1>6. z * (q.value - p.value) = d * (z * (w - u)) /\ z * (w - u) \in Int
  BY <1>1, <1>2, <1>3
<1>7. z * (f * q.value - f * p.value) = d * (f * (z * (w - u))) /\ f * (z * (w - u)) \in Int
  <2>1. f * q.value - f * p.value = f * (q.value - p.value)
    BY <1>1
  <2>2. z * (f * (q.value - p.value)) = f * (z * (q.value - p.value))
    BY <1>1
  <2>3. f * (d * (z * (w - u))) = d * (f * (z * (w - u)))
    BY <1>1, <1>6
  <2> QED
    BY <1>6, <2>1, <2>2, <2>3
<1>8. e = p.value + z * (w - u)
  BY <1>1, <1>4, <1>6, DivisionExact
<1>9. g = f * p.value + f * (z * (w - u))
  BY <1>1, <1>5, <1>7, DivisionExact
<1>10. g = f * e
  BY <1>1, <1>6, <1>8, <1>9
<1> QED
  BY <1>10 DEF e, g

\* So does every answer.
LEMMA InterpolateGrows ==
  ASSUME NEW D, IsFiniteSet(D), NEW points \in [D -> PointSet], NEW big \in [D -> PointSet],
         Exact(points), NEW f \in Nat, f > 0, NEW x \in Int,
         \A i \in D : big[i] = [load |-> points[i].load, value |-> f * points[i].value]
  PROVE  /\ Interpolate(DeduplicateByLoad(points), x) \in Int
         /\ Interpolate(DeduplicateByLoad(big), x)
              = f * Interpolate(DeduplicateByLoad(points), x)
<1> DEFINE L == LoadsOf(points)
           n == Cardinality(L)
           s == Sorted([l \in L |-> l])
           p == DeduplicateByLoad(points)
           q == DeduplicateByLoad(big)
<1>1. LoadsOf(big) = L
  BY DEF LoadsOf
<1>2. /\ n \in Nat /\ p \in [1..n -> PointSet] /\ Len(p) = n
      /\ \A k \in 1..n : p[k].load \in L /\ p[k] = PointAt(points, p[k].load)
      /\ \A j, k \in 1..n : j < k => p[j].load < p[k].load
  BY DeduplicateProperties
<1>3. p = [i \in DOMAIN s |-> PointAt(points, s[i])]
  BY DEF DeduplicateByLoad, PointAt
<1>4. q = [i \in DOMAIN s |-> PointAt(big, s[i])]
  BY <1>1 DEF DeduplicateByLoad, PointAt
<1>5. ASSUME NEW l \in L
      PROVE  PointAt(big, l) = [load |-> l, value |-> f * PointAt(points, l).value]
  <2> DEFINE E == { j \in DOMAIN points : points[j].load = l }
             vals == AtLoad(points, l)
             large == AtLoad(big, l)
  <2>1. E \in SUBSET D /\ E # {} /\ IsFiniteSet(E)
    <3>1. E \in SUBSET D /\ E # {}
      BY DEF LoadsOf
    <3> QED
      BY <3>1, FS_Subset
  <2>2. vals \in [E -> Int] /\ \A i \in E : vals[i] = points[i].value
    BY DEF AtLoad, PointSet
  <2>3. { j \in DOMAIN big : big[j].load = l } = E
    OBVIOUS
  <2>4. large = [i \in E |-> big[i].value]
    BY <2>3 DEF AtLoad
  <2>5. large \in [E -> Int] /\ \A i \in E : large[i] = f * vals[i]
    BY <2>1, <2>2, <2>4 DEF PointSet
  <2>6. \A i \in E : \E u \in Int : vals[i] = 2 * u
    <3>1. 1 \in Distances /\ 2 * 1 = 2
      BY DEF Distances
    <3>2. \A i \in E : Multiple(points[i].value, 2)
      BY <2>1, <3>1 DEF Exact
    <3> QED
      BY <2>2, <3>2 DEF Multiple
  <2> HIDE DEF E, vals, large
  <2>7. Median(large) = f * Median(vals)
    <3>1. IsFiniteSet(E) /\ E # {} /\ vals \in [E -> Int] /\ large \in [E -> Int]
      BY <2>1, <2>2, <2>5
    <3>2. \A i \in E : large[i] = f * vals[i]
      BY <2>5
    <3> QED
      BY <2>6, <3>1, <3>2, MedianGrows
  <2> QED
    BY <2>7 DEF PointAt, vals, large
<1>6. \A l \in L : /\ PointAt(points, l).load = l
                   /\ \A d \in Distances : Multiple(PointAt(points, l).value, d)
  BY PointExact DEF PointAt
<1>7. L \in SUBSET Nat /\ \A a, b \in L : a < b => b - a \in Distances
  BY LoadsFinite DEF Exact
<1> HIDE DEF L, n, s, p, q
<1>8. DOMAIN s = 1..n
  BY <1>2, <1>3
<1>9. /\ Len(q) = n
      /\ \A k \in 1..n : q[k] = [load |-> p[k].load, value |-> f * p[k].value]
  <2>1. DOMAIN q = 1..n /\ Len(q) = n
    BY <1>2, <1>4, <1>8
  <2>2. ASSUME NEW k \in 1..n PROVE q[k] = [load |-> p[k].load, value |-> f * p[k].value]
    <3>1. p[k] = PointAt(points, s[k]) /\ q[k] = PointAt(big, s[k])
      BY <1>3, <1>4, <1>8
    <3>2. p[k].load = s[k] /\ s[k] \in L
      BY <1>2, <3>1 DEF PointAt
    <3> QED
      BY <1>5, <3>1, <3>2
  <2> QED
    BY <2>1, <2>2
<1>10. CASE n = 0
  <2>1. Interpolate(p, x) = 0 /\ Interpolate(q, x) = 0
    BY <1>2, <1>9, <1>10 DEF Interpolate
  <2> QED
    BY <2>1 DEF p, q
<1>11. CASE n = 1
  <2>1. 1 \in 1..n /\ p[1].value \in Int
    BY <1>2, <1>11 DEF PointSet
  <2>2. Interpolate(p, x) = p[1].value /\ Interpolate(q, x) = q[1].value
    BY <1>2, <1>9, <1>11 DEF Interpolate
  <2>3. q[1].value = f * p[1].value
    BY <1>9, <2>1
  <2> QED
    BY <2>1, <2>2, <2>3 DEF p, q
<1>12. CASE n > 1
  <2> DEFINE S == { j \in 1..(n - 1) : j = n - 1 \/ p[j + 1].load >= x }
  <2>1. S = { j \in 1..(n - 1) : j = n - 1 \/ q[j + 1].load >= x }
    <3>1. \A j \in 1..(n - 1) : j + 1 \in 1..n
      BY <1>2
    <3>2. \A j \in 1..(n - 1) : q[j + 1].load = p[j + 1].load
      BY <1>9, <3>1
    <3> QED
      BY <3>2
  <2>2. S \in SUBSET Nat /\ n - 1 \in S
    BY <1>2, <1>12
  <2> DEFINE i == Min(S)
  <2>3. i \in S
    BY <2>2, LeastExists
  <2>4. i \in 1..n /\ i + 1 \in 1..n /\ i < i + 1
    BY <1>2, <2>3
  <2>5. /\ Interpolate(p, x) = Segment(p[i], p[i + 1], x)
        /\ Interpolate(q, x) = Segment(q[i], q[i + 1], x)
    <3>1. Interpolate(p, x) = Segment(p[i], p[i + 1], x)
      BY <1>2, <1>12 DEF Interpolate
    <3>2. Interpolate(q, x) = Segment(q[i], q[i + 1], x)
      <4> DEFINE R == { j \in 1..(n - 1) : j = n - 1 \/ q[j + 1].load >= x }
      <4>1. Interpolate(q, x) = Segment(q[Min(R)], q[Min(R) + 1], x)
        BY <1>2, <1>9, <1>12 DEF Interpolate
      <4>2. R = S
        BY <2>1
      <4> HIDE DEF R, S
      <4> QED
        BY <4>1, <4>2
    <3> QED
      BY <3>1, <3>2
  <2> HIDE DEF i
  <2>6. /\ p[i] \in PointSet /\ p[i + 1] \in PointSet
        /\ p[i].load < p[i + 1].load /\ p[i].load \in L /\ p[i + 1].load \in L
    BY <1>2, <2>4
  <2>7. p[i + 1].load - p[i].load \in Distances
    BY <1>7, <2>6
  <2>8. /\ Multiple(p[i].value, p[i + 1].load - p[i].load)
        /\ Multiple(p[i + 1].value, p[i + 1].load - p[i].load)
    <3>1. p[i] = PointAt(points, p[i].load) /\ p[i + 1] = PointAt(points, p[i + 1].load)
      BY <1>2, <2>4
    <3> QED
      BY <1>6, <2>6, <2>7, <3>1
  <2>9. Segment(q[i], q[i + 1], x) = f * Segment(p[i], p[i + 1], x)
    BY <1>9, <2>4, <2>6, <2>8, SegmentGrows
  <2>10. Segment(p[i], p[i + 1], x) \in Int
    BY <2>6, <2>8, LineExact
  <2> QED
    BY <2>5, <2>9, <2>10 DEF p, q
<1> QED
  BY <1>2, <1>10, <1>11, <1>12

\* The points of disk at one retention later are larger by the same factor.
LEMMA PointsGrow ==
  ASSUME TableInv, NEW T \in Horizons, T + 1 \in Horizons
  PROVE  LET rows == RowsForResourceModel(Subset(table), "disk")
             points == Points(rows, "disk", T)
             big == Points(rows, "disk", T + 1)
             f == 2^AlphaByRetention(rows)
         IN /\ DOMAIN big = DOMAIN points
            /\ \A i \in DOMAIN points :
                 big[i] = [load |-> points[i].load, value |-> f * points[i].value]
<1> DEFINE A == Subset(table)
           M == Measured(A, "disk")
           slope == AlphaByRetention(A)
           points == Points(A, "disk", T)
           big == Points(A, "disk", T + 1)
<1>1. RowsForResourceModel(A, "disk") = A
  BY DEF RowsForResourceModel
<1>2. DOMAIN A \subseteq DOMAIN table /\ \A i \in DOMAIN A : A[i] = table[i]
  BY SubsetIs
<1>3. slope \in 3..7 /\ "disk" \in Keys /\ T + 1 \in Int /\ T \in Int
  BY AlphaType, CapacityAssumption DEF Keys
<1>4. /\ points = [i \in DOMAIN M |-> [load |-> M[i].load, value |-> Scaled(M[i], "disk", slope, T)]]
      /\ big = [i \in DOMAIN M |-> [load |-> M[i].load, value |-> Scaled(M[i], "disk", slope, T + 1)]]
  BY DEF Points
<1> HIDE DEF A, slope
<1>5. DOMAIN M \subseteq DOMAIN A /\ \A i \in DOMAIN M : M[i] = A[i] /\ A[i]["disk"] > 0
  BY MeasuredIs
<1> HIDE DEF M, points, big
<1>6. \A i \in DOMAIN M : M[i] \in Rows /\ M[i] \in Row /\ M[i]["disk"] > 0
  BY <1>2, <1>5, CapacityAssumption DEF TableInv
<1>7. ASSUME NEW i \in DOMAIN M
      PROVE  Scaled(M[i], "disk", slope, T + 1) = 2^slope * Scaled(M[i], "disk", slope, T)
  <2> DEFINE v == Scaled(M[i], "disk", slope, T)
             w == Scaled(M[i], "disk", slope, T + 1)
             time == T - M[i].period
             c == M[i].disk * Unit
  <2>1. /\ v \in Nat /\ w \in Nat
        /\ v * Power(slope, time)[2] = c * Power(slope, time)[1]
        /\ w * Power(slope, (T + 1) - M[i].period)[2] = c * Power(slope, (T + 1) - M[i].period)[1]
    <3>1. \A t \in Horizons :
            LET u == Scaled(M[i], "disk", slope, t)
                p == Power(slope, t - M[i].period)
            IN u \in Nat /\ u * p[2] = M[i].disk * Unit * p[1]
      BY <1>3, <1>6, UnitAssumption
    <3>2. v \in Nat /\ v * Power(slope, time)[2] = c * Power(slope, time)[1]
      BY <3>1
    <3>3. /\ w \in Nat
          /\ w * Power(slope, (T + 1) - M[i].period)[2] = c * Power(slope, (T + 1) - M[i].period)[1]
      BY <3>1
    <3> HIDE DEF v, w, time, c
    <3> QED
      BY <3>2, <3>3
  <2>2. time \in Int /\ (T + 1) - M[i].period = time + 1 /\ c \in Nat /\ slope \in Nat
    BY <1>3, <1>6, CapacityAssumption DEF Row
  <2> HIDE DEF v, w, time, c
  <2>3. w = 2^slope * v
    BY <2>1, <2>2, PowerGrows
  <2> QED
    BY <2>3 DEF v, w
<1>8. /\ DOMAIN big = DOMAIN points
      /\ \A i \in DOMAIN points :
           big[i] = [load |-> points[i].load, value |-> 2^slope * points[i].value]
  BY <1>4, <1>7
<1> QED
  BY <1>1, <1>8 DEF A, slope, points, big

\* The factors that the bounds of the slope admit.
LEMMA PowerRange ==
  ASSUME NEW k \in 3..7
  PROVE  2^k \in 2^3..2^7 /\ 2^k \in Nat /\ 2^k > 0
<1>1. 2^k \in {2^3, 2^4, 2^5, 2^6, 2^7}
  <2>1. k = 3 \/ k = 4 \/ k = 5 \/ k = 6 \/ k = 7
    OBVIOUS
  <2> QED
    BY <2>1, Zenon
<1>2. 2^3 = 8 /\ 2^4 = 16 /\ 2^5 = 32 /\ 2^6 = 64 /\ 2^7 = 128
  OBVIOUS
<1> DEFINE f == 2^k
<1>3. f = 8 \/ f = 16 \/ f = 32 \/ f = 64 \/ f = 128
  BY <1>1, <1>2
<1> HIDE DEF f
<1>4. f \in 2^3..2^7 /\ f \in Nat /\ f > 0
  BY <1>2, <1>3
<1> QED
  BY <1>4 DEF f

\* The invariant at any table: one factor for every load
LEMMA GrowthHolds == TableInv => GrowthIsBounded
<1>1. SUFFICES ASSUME TableInv, DOMAIN Subset(table) # {},
                      NEW T \in Horizons, T + 1 \in Horizons
      PROVE  LET now == [x \in Loads |-> Estimate(table, x, T, "disk")]
                 later == [x \in Loads |-> Estimate(table, x, T + 1, "disk")]
                 factors == { later[x] \div now[x] : x \in { y \in Loads : now[y] > 0 } }
             IN \A f \in factors : f \in 2^3..2^7 /\ \A x \in Loads : later[x] = f * now[x]
  BY DEF GrowthIsBounded
<1> DEFINE rows == RowsForResourceModel(Subset(table), "disk")
           points == Points(rows, "disk", T)
           big == Points(rows, "disk", T + 1)
           D == DOMAIN points
           slope == AlphaByRetention(rows)
           f == 2^slope
           now == [x \in Loads |-> Estimate(table, x, T, "disk")]
           later == [x \in Loads |-> Estimate(table, x, T + 1, "disk")]
<1>2. "disk" \in Keys
  BY DEF Keys
<1>3. IsFiniteSet(D) /\ points \in [D -> PointSet] /\ Exact(points)
  BY <1>1, <1>2, PointsExact
<1>4. big \in [DOMAIN big -> PointSet]
  BY <1>1, <1>2, PointsExact
<1>5. /\ DOMAIN big = D
      /\ \A i \in D : big[i] = [load |-> points[i].load, value |-> f * points[i].value]
  BY <1>1, PointsGrow
<1>6. slope \in 3..7
  BY AlphaType
<1>7. f \in 2^3..2^7 /\ f \in Nat /\ f > 0
  <2> HIDE DEF slope
  <2> QED
    BY <1>6, PowerRange
<1>8. \A x : /\ Estimate(table, x, T, "disk") = Max({0, Interpolate(DeduplicateByLoad(points), x)})
             /\ Estimate(table, x, T + 1, "disk") = Max({0, Interpolate(DeduplicateByLoad(big), x)})
  BY <1>1, <1>2, EstimateIs DEF EstimateResource, Line
<1> HIDE DEF points, big, D, f, slope, rows
<1>9. ASSUME NEW x \in Loads PROVE now[x] \in Int /\ later[x] = f * now[x]
  <2> DEFINE e == Interpolate(DeduplicateByLoad(points), x)
             g == Interpolate(DeduplicateByLoad(big), x)
  <2>1. x \in Int
    BY CapacityAssumption
  <2>2. e \in Int /\ g = f * e
    BY <1>3, <1>4, <1>5, <1>7, <2>1, InterpolateGrows
  <2>3. now[x] = Max({0, e}) /\ later[x] = Max({0, g})
    BY <1>8
  <2> HIDE DEF e, g, now, later
  <2>4. CASE e >= 0
    <3>1. g \in Int /\ g >= 0
      BY <1>7, <2>2, <2>4
    <3>2. Max({0, e}) = e /\ Max({0, g}) = g
      BY <2>2, <2>4, <3>1 DEF Max
    <3> QED
      BY <2>2, <2>3, <3>2
  <2>5. CASE e < 0
    <3>1. g \in Int /\ g < 0
      <4>1. f * e < f * 0 /\ f * 0 = 0
        BY <1>7, <2>2, <2>5, ScaleOrder
      <4> QED
        BY <1>7, <2>2, <4>1
    <3>2. Max({0, e}) = 0 /\ Max({0, g}) = 0
      BY <2>2, <2>5, <3>1 DEF Max
    <3> QED
      BY <1>7, <2>3, <3>2
  <2> QED
    BY <2>2, <2>4, <2>5
<1> HIDE DEF now, later
<1>10. ASSUME NEW y \in Loads, now[y] > 0 PROVE later[y] \div now[y] = f
  <2>1. later[y] = now[y] * f /\ now[y] \in Nat
    BY <1>7, <1>9, <1>10
  <2> QED
    BY <1>7, <1>10, <2>1, DivisionExact
<1> QED
  BY <1>7, <1>9, <1>10 DEF now, later

\* Whatever rows are saved in whatever order, keeping data 32 times as long costs the same
\* factor at every load, and one within the bounds: an odd measurement of one load does not
\* reach the disk estimates of the others in any other way (estimateAlphaByRetention,
\* estimateResource of model.go).
THEOREM GrowthStaysBounded == Spec => []GrowthIsBounded
<1>1. Spec => []TableInv
  BY TableInit, TableStep, PTL DEF Spec
<1> QED
  BY <1>1, GrowthHolds, PTL
=============================================================================
