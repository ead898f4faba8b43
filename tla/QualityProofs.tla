--------------------------- MODULE QualityProofs ---------------------------
(***************************************************************************)
(* What holds of every data quality run, for any file, settings, hints and *)
(* rules: the score and its weights; that every measure is a percentage;   *)
(* that the AI run keeps the floor of the Standard one; and that excluded  *)
(* columns play no part.  A report is one application of AnalyzeQuality,   *)
(* so the invariant (QualityInv) says which, and the rest is about that    *)
(* operator.                                                               *)
(***************************************************************************)
EXTENDS Quality, FiniteSetTheorems, TLAPS

\* A dimension that is always measured is a percentage, any other may be None.
LEMMA MeasureTypes ==
    ASSUME NEW m \in Measures
    PROVE  /\ \A d \in Always : m[d] \in Percent
           /\ \A d \in Optional : m[d] \in Percent \cup {None}
           /\ DOMAIN m = Always \cup Optional
  BY DEF Measures

\* The weight of completeness is one of finitely many positive numbers.
LEMMA WeightType ==
    ASSUME NEW m \in Measures
    PROVE  CompletenessWeight(m) \in 10..50
  BY MeasureTypes DEF CompletenessWeight

\* What an optional dimension takes of the 5000 points that the measured ones and
\* completeness share.
Portion(v, w) == IF v = None THEN 0 ELSE 100 * w

\* An optional dimension counts for at most its share, and for all of it when it is perfect.
LEMMA CountedBounds ==
    ASSUME NEW v \in Percent \cup {None}, NEW w \in {5, 8, 17}
    PROVE  /\ Counted(v, w) \in 0..Portion(v, w)
           /\ v = 100 => Counted(v, w) = Portion(v, w)
  BY NoneAssumption DEF Counted, Percent, Portion

\* What no optional dimension takes is left to completeness.
LEMMA SharesAddUp ==
    ASSUME NEW m \in Measures
    PROVE  /\ 100 * CompletenessWeight(m) + Portion(m.precision, 8) + Portion(m.timeliness, 5)
                + Portion(m.accuracy, 17) + Portion(m.integrity, 5) + Portion(m.reasonableness, 5) = 5000
           /\ Portion(m.precision, 8) \in Nat /\ Portion(m.timeliness, 5) \in Nat
           /\ Portion(m.accuracy, 17) \in Nat /\ Portion(m.integrity, 5) \in Nat
           /\ Portion(m.reasonableness, 5) \in Nat /\ CompletenessWeight(m) \in Nat
  BY WeightType DEF CompletenessWeight, Portion

\* Rounding to tenths.
LEMMA Rounded ==
    \A n \in Int : /\ n \div 10 \in Int
                   /\ 10 * (n \div 10) <= n
                   /\ n < 10 * (n \div 10) + 10
  OBVIOUS

\* Rounding keeps the order.
LEMMA Tenths ==
    ASSUME NEW a \in Int, NEW b \in Int, a <= b
    PROVE  a \div 10 <= b \div 10
<1> DEFINE p == a \div 10
           q == b \div 10
<1>1. /\ p \in Int /\ 10 * p <= a /\ a < 10 * p + 10
      /\ q \in Int /\ 10 * q <= b /\ b < 10 * q + 10
  BY Rounded
<1> HIDE DEF p, q
<1>2. p <= q
  <2>1. SUFFICES ASSUME q + 1 <= p PROVE FALSE
    BY <1>1
  <2>2. 10 * (q + 1) <= 10 * p
    BY <1>1, <2>1
  <2>3. QED
    BY <1>1, <2>2
<1>3. QED
  BY <1>2 DEF p, q

\* A tenth of ten thousand points is a thousand.
LEMMA TenthsRange ==
    ASSUME NEW a \in Int, 0 <= a, a <= 10000
    PROVE  a \div 10 \in 0..1000
<1> DEFINE p == a \div 10
<1>1. p \in Int /\ 10 * p <= a /\ a < 10 * p + 10
  BY Rounded
<1> HIDE DEF p
<1>2. p \in 0..1000
  BY <1>1
<1>3. QED
  BY <1>2 DEF p

\* Every score is between zero and a hundred percent.
THEOREM ScoreInRange ==
    ASSUME NEW m \in Measures
    PROVE  Score(m) \in 0..1000
<1> DEFINE w == CompletenessWeight(m)
<1>1. /\ m.completeness \in 0..100 /\ m.uniqueness \in 0..100 /\ m.validity \in 0..100
      /\ m.consistency \in 0..100 /\ m.conformity \in 0..100
  BY MeasureTypes DEF Always, Percent
<1>2. /\ Counted(m.precision, 8) \in 0..Portion(m.precision, 8)
      /\ Counted(m.timeliness, 5) \in 0..Portion(m.timeliness, 5)
      /\ Counted(m.accuracy, 17) \in 0..Portion(m.accuracy, 17)
      /\ Counted(m.integrity, 5) \in 0..Portion(m.integrity, 5)
      /\ Counted(m.reasonableness, 5) \in 0..Portion(m.reasonableness, 5)
  <2>1. /\ m.precision \in Percent \cup {None} /\ m.timeliness \in Percent \cup {None}
        /\ m.accuracy \in Percent \cup {None} /\ m.integrity \in Percent \cup {None}
        /\ m.reasonableness \in Percent \cup {None}
    BY MeasureTypes DEF Optional, Weighted, Carved
  <2>2. QED
    BY <2>1, CountedBounds
<1>3. m.completeness * w \in 0..(100 * w)
  <2>1. w \in 10..50
    BY WeightType
  <2>2. QED
    BY <2>1, <1>1
<1>4. Points(m) \in Int /\ 0 <= Points(m) /\ Points(m) <= 10000
  <2> DEFINE c == m.completeness * w
             u == m.uniqueness  v == m.validity  s == m.consistency  f == m.conformity
             A == Portion(m.precision, 8)       a == Counted(m.precision, 8)
             B == Portion(m.timeliness, 5)      b == Counted(m.timeliness, 5)
             C == Portion(m.accuracy, 17)       g == Counted(m.accuracy, 17)
             D == Portion(m.integrity, 5)       d == Counted(m.integrity, 5)
             E == Portion(m.reasonableness, 5)  e == Counted(m.reasonableness, 5)
  <2>1. /\ 100 * w + A + B + C + D + E = 5000
        /\ A \in Nat /\ B \in Nat /\ C \in Nat /\ D \in Nat /\ E \in Nat /\ w \in Nat
    BY SharesAddUp
  <2>2. Points(m) = c + u * 12 + v * 18 + s * 12 + f * 8 + a + b + g + d + e
    BY DEF Points
  <2>3. /\ a \in 0..A /\ b \in 0..B /\ g \in 0..C /\ d \in 0..D /\ e \in 0..E
        /\ u \in 0..100 /\ v \in 0..100 /\ s \in 0..100 /\ f \in 0..100
        /\ c \in 0..(100 * w)
    BY <1>1, <1>2, <1>3
  <2> HIDE DEF w, c, u, v, s, f, A, B, C, D, E, a, b, g, d, e
  <2> DEFINE sum == c + u * 12 + v * 18 + s * 12 + f * 8 + a + b + g + d + e
  <2>4. sum \in Int /\ 0 <= sum /\ sum <= 10000
    BY <2>1, <2>3
  <2>5. QED
    BY <2>2, <2>4
<1>5. QED
  BY <1>4, TenthsRange DEF Score

\* Whatever is measured, a report that is perfect in all of it scores a hundred percent:
\* the weights always add up.
THEOREM PerfectScore ==
    ASSUME NEW m \in Measures, \A d \in Always \cup Optional : m[d] \in {100, None}
    PROVE  Score(m) = 1000
<1>1. /\ m.completeness = 100 /\ m.uniqueness = 100 /\ m.validity = 100
      /\ m.consistency = 100 /\ m.conformity = 100
  BY NoneAssumption, MeasureTypes DEF Always, Percent
<1>2. /\ Counted(m.precision, 8) = Portion(m.precision, 8)
      /\ Counted(m.timeliness, 5) = Portion(m.timeliness, 5)
      /\ Counted(m.accuracy, 17) = Portion(m.accuracy, 17)
      /\ Counted(m.integrity, 5) = Portion(m.integrity, 5)
      /\ Counted(m.reasonableness, 5) = Portion(m.reasonableness, 5)
  <2>1. /\ m.precision \in {100, None} /\ m.timeliness \in {100, None} /\ m.accuracy \in {100, None}
        /\ m.integrity \in {100, None} /\ m.reasonableness \in {100, None}
    BY DEF Optional, Weighted, Carved
  <2>2. QED
    BY <2>1, NoneAssumption DEF Counted, Portion
<1>3. Points(m) = 10000
  BY <1>1, <1>2, SharesAddUp DEF Points
<1>4. QED
  BY <1>3 DEF Score

\* An optional dimension that grows from anything but zero counts for no less.
LEMMA CountedMonotone ==
    ASSUME NEW x \in Percent \cup {None}, NEW y \in Percent \cup {None}, NEW w \in {5, 8, 17},
           x = y \/ (x # None /\ y # None /\ x # 0 /\ x <= y)
    PROVE  /\ Counted(x, w) \in Int /\ Counted(y, w) \in Int
           /\ Counted(x, w) <= Counted(y, w)
  BY NoneAssumption DEF Counted, Percent

\* Data that is better in one dimension never scores lower, except where an optional
\* dimension leaves zero, which counts as a hundred.
THEOREM ScoreMonotone ==
    ASSUME NEW m \in Measures, NEW n \in Measures, Improved(m, n), ~LeavesZero(m, n)
    PROVE  Score(m) <= Score(n)
<1>1. /\ \A e \in Always \cup Optional : n[e] = m[e] \/ (m[e] # None /\ n[e] # None /\ m[e] <= n[e])
      /\ \A e \in Optional : m[e] = 0 => n[e] = 0
  <2>1. PICK d \in DOMAIN m : /\ m[d] # None /\ n[d] # None /\ n[d] > m[d]
                              /\ \A e \in DOMAIN m \ {d} : n[e] = m[e]
    BY DEF Improved
  <2>2. m[d] <= n[d]
    BY <2>1, MeasureTypes DEF Percent
  <2>3. QED
    BY <2>1, <2>2, MeasureTypes DEF LeavesZero
<1>2. /\ m.completeness \in 0..100 /\ n.completeness \in 0..100 /\ m.completeness <= n.completeness
      /\ m.uniqueness \in 0..100 /\ n.uniqueness \in 0..100 /\ m.uniqueness <= n.uniqueness
      /\ m.validity \in 0..100 /\ n.validity \in 0..100 /\ m.validity <= n.validity
      /\ m.consistency \in 0..100 /\ n.consistency \in 0..100 /\ m.consistency <= n.consistency
      /\ m.conformity \in 0..100 /\ n.conformity \in 0..100 /\ m.conformity <= n.conformity
  BY <1>1, MeasureTypes DEF Always, Percent
<1>3. \A e \in Optional : /\ m[e] \in Percent \cup {None}
                          /\ n[e] \in Percent \cup {None}
                          /\ m[e] = n[e] \/ (m[e] # None /\ n[e] # None /\ m[e] # 0 /\ m[e] <= n[e])
  BY <1>1, MeasureTypes
<1>4. \A e \in Optional : \A w \in {5, 8, 17} : /\ Counted(m[e], w) \in Int
                                                 /\ Counted(n[e], w) \in Int
                                                 /\ Counted(m[e], w) <= Counted(n[e], w)
  BY <1>3, CountedMonotone
<1>5. CompletenessWeight(m) = CompletenessWeight(n)
  <2>1. \A e \in Optional : m[e] = None <=> n[e] = None
    BY <1>1
  <2>2. /\ m.precision = None <=> n.precision = None
        /\ m.timeliness = None <=> n.timeliness = None
        /\ m.accuracy = None <=> n.accuracy = None
        /\ m.integrity = None <=> n.integrity = None
        /\ m.reasonableness = None <=> n.reasonableness = None
    BY <2>1 DEF Optional, Weighted, Carved
  <2>3. QED
    BY <2>2 DEF CompletenessWeight
<1>6. /\ m.completeness * CompletenessWeight(m) \in Int
      /\ n.completeness * CompletenessWeight(n) \in Int
      /\ m.completeness * CompletenessWeight(m) <= n.completeness * CompletenessWeight(n)
  <2> DEFINE w == CompletenessWeight(m)
  <2>1. w \in 10..50
    BY WeightType
  <2> HIDE DEF w
  <2>2. \A x, y \in 0..100 : x <= y => x * w \in Int /\ y * w \in Int /\ x * w <= y * w
    BY <2>1
  <2>3. QED
    BY <2>2, <1>2, <1>5 DEF w
<1>7. /\ Points(m) \in Int /\ Points(n) \in Int /\ Points(m) <= Points(n)
  <2> DEFINE c == m.completeness * CompletenessWeight(m)  cc == n.completeness * CompletenessWeight(n)
             u == m.uniqueness   uu == n.uniqueness
             v == m.validity     vv == n.validity
             s == m.consistency  ss == n.consistency
             f == m.conformity   ff == n.conformity
             a == Counted(m.precision, 8)       aa == Counted(n.precision, 8)
             b == Counted(m.timeliness, 5)      bb == Counted(n.timeliness, 5)
             g == Counted(m.accuracy, 17)       gg == Counted(n.accuracy, 17)
             d == Counted(m.integrity, 5)       dd == Counted(n.integrity, 5)
             e == Counted(m.reasonableness, 5)  ee == Counted(n.reasonableness, 5)
  <2>1. /\ a \in Int /\ aa \in Int /\ a <= aa /\ b \in Int /\ bb \in Int /\ b <= bb
        /\ g \in Int /\ gg \in Int /\ g <= gg /\ d \in Int /\ dd \in Int /\ d <= dd
        /\ e \in Int /\ ee \in Int /\ e <= ee
    BY <1>4 DEF Optional, Weighted, Carved
  <2>2. /\ c \in Int /\ cc \in Int /\ c <= cc
        /\ u \in Int /\ uu \in Int /\ u <= uu /\ v \in Int /\ vv \in Int /\ v <= vv
        /\ s \in Int /\ ss \in Int /\ s <= ss /\ f \in Int /\ ff \in Int /\ f <= ff
    BY <1>2, <1>6
  <2>3. /\ Points(m) = c + u * 12 + v * 18 + s * 12 + f * 8 + a + b + g + d + e
        /\ Points(n) = cc + uu * 12 + vv * 18 + ss * 12 + ff * 8 + aa + bb + gg + dd + ee
    BY DEF Points
  <2> HIDE DEF c, cc, u, uu, v, vv, s, ss, f, ff, a, aa, b, bb, g, gg, d, dd, e, ee
  <2>4. QED
    BY <2>1, <2>2, <2>3
<1>8. QED
  BY <1>7, Tenths DEF Score

------------------------------------------------------------------------------
(* Counts, shares and means. *)

\* A share of a whole is a percentage.
LEMMA ShareIsPercent ==
    ASSUME NEW a \in Nat, NEW b \in Nat, a <= b
    PROVE  PercentOf(a, b) \in Percent
<1>1. CASE b = 0
  BY <1>1 DEF PercentOf, Percent
<1>2. CASE b # 0
  <2> DEFINE q == (100 * a) \div b
             r == (100 * a) % b
  <2>1. /\ q \in Int /\ r \in 0..(b - 1)
        /\ 100 * a = b * q + r
    BY <1>2
  <2> HIDE DEF q, r
  <2>2. b * q \in Int /\ b * q <= 100 * a /\ 100 * a < b * q + b
    BY <2>1
  <2>3. q >= 0
    <3>1. SUFFICES ASSUME q <= -1 PROVE FALSE
      BY <2>1
    <3>2. b * q <= b * (-1)
      BY <3>1, <2>1
    <3> QED
      BY <2>2, <3>2
  <2>4. q <= 100
    <3>1. SUFFICES ASSUME 101 <= q PROVE FALSE
      BY <2>1
    <3>2. b * 101 <= b * q
      BY <3>1, <2>1
    <3> QED
      BY <1>2, <2>2, <3>2
  <2>5. q \in Percent
    BY <2>1, <2>3, <2>4 DEF Percent
  <2> QED
    BY <1>2, <2>5 DEF PercentOf, q
<1> QED
  BY <1>1, <1>2

\* There are as many places as the list is long.
LEMMA PlacesCounted ==
    ASSUME NEW n \in Nat
    PROVE  IsFiniteSet(1..n) /\ Cardinality(1..n) = n
  BY FS_Interval

\* Disjoint sets add up.
LEMMA ApartAddUp ==
    ASSUME NEW S, IsFiniteSet(S), NEW T, IsFiniteSet(T), S \cap T = {}
    PROVE  Cardinality(S \cup T) = Cardinality(S) + Cardinality(T)
<1>1. Cardinality(S \cup T) = Cardinality(S) + Cardinality(T) - Cardinality(S \cap T)
  BY FS_Union
<1>2. Cardinality(S \cap T) = 0
  BY FS_EmptySet
<1> QED
  BY <1>1, <1>2, FS_CardinalityType

\* What a list holds of a set is counted by places.
LEMMA CountedPlaces ==
    ASSUME NEW s, DOMAIN s = 1..Len(s), Len(s) \in Nat, NEW S
    PROVE  /\ CountIn(s, S) \in 0..Len(s)
           /\ IsFiniteSet({i \in DOMAIN s : s[i] \in S})
<1> DEFINE at == {i \in DOMAIN s : s[i] \in S}
<1>1. IsFiniteSet(1..Len(s)) /\ Cardinality(1..Len(s)) = Len(s)
  BY PlacesCounted
<1>2. /\ IsFiniteSet(at) /\ Cardinality(at) <= Cardinality(1..Len(s))
      /\ Cardinality(at) \in Nat
  BY <1>1, FS_Subset, FS_CardinalityType
<1> QED
  BY <1>1, <1>2 DEF CountIn

LEMMA CountedLess ==
    ASSUME NEW s, DOMAIN s = 1..Len(s), Len(s) \in Nat, NEW S, NEW T,
           \A i \in DOMAIN s : s[i] \in S => s[i] \in T
    PROVE  CountIn(s, S) <= CountIn(s, T)
<1> DEFINE at(X) == {i \in DOMAIN s : s[i] \in X}
<1>1. IsFiniteSet(at(T)) /\ at(S) \subseteq at(T)
  BY CountedPlaces
<1>2. Cardinality(at(S)) <= Cardinality(at(T))
  BY <1>1, FS_Subset
<1> QED
  BY <1>2 DEF CountIn

\* Counts of what two disjoint sets hold do not exceed the length together.
LEMMA CountedApart ==
    ASSUME NEW s, DOMAIN s = 1..Len(s), Len(s) \in Nat, NEW S, NEW T, S \cap T = {}
    PROVE  CountIn(s, S) + CountIn(s, T) <= Len(s)
<1> DEFINE at(X) == {i \in DOMAIN s : s[i] \in X}
<1>1. IsFiniteSet(at(S)) /\ IsFiniteSet(at(T)) /\ at(S) \cap at(T) = {}
  BY CountedPlaces
<1>2. Cardinality(at(S) \cup at(T)) = Cardinality(at(S)) + Cardinality(at(T))
  <2> HIDE DEF at
  <2> QED
    BY <1>1, ApartAddUp
<1>3. IsFiniteSet(1..Len(s)) /\ Cardinality(1..Len(s)) = Len(s)
  BY PlacesCounted
<1>4. at(S) \cup at(T) \subseteq 1..Len(s)
  OBVIOUS
<1>5. Cardinality(at(S) \cup at(T)) <= Len(s)
  BY <1>3, <1>4, FS_Subset
<1> QED
  BY <1>2, <1>5 DEF CountIn

\* A function on a finite set has finitely many values.
LEMMA ImageOfFinite ==
    ASSUME NEW S, IsFiniteSet(S), NEW g, g = [x \in S |-> g[x]]
    PROVE  IsFiniteSet({g[x] : x \in S})
<1>1. g \in Surjection(S, {g[x] : x \in S})
  BY DEF Surjection
<1> QED
  BY <1>1, FS_Surjection

\* A union of finitely many finite sets is finite.
LEMMA UnionIsFinite ==
    ASSUME NEW S, IsFiniteSet(S), NEW g, g = [x \in S |-> g[x]], \A x \in S : IsFiniteSet(g[x])
    PROVE  IsFiniteSet(UNION {g[x] : x \in S})
<1>1. IsFiniteSet({g[x] : x \in S})
  BY ImageOfFinite
<1> QED
  BY <1>1, FS_UNION

\* A total of numbers is a number, the larger the numbers are.
LEMMA TotalGrows ==
    ASSUME NEW S, IsFiniteSet(S), NEW f, NEW g,
           \A x \in S : f[x] \in Nat /\ g[x] \in Nat /\ f[x] <= g[x]
    PROVE  Total(f, S) \in Nat /\ Total(g, S) \in Nat /\ Total(f, S) <= Total(g, S)
<1> DEFINE pairs(h) == [x \in S |-> {x} \X (1..h[x])]
           all(h) == UNION {{x} \X (1..h[x]) : x \in S}
<1>1. \A x \in S : IsFiniteSet(pairs(g)[x])
  <2> TAKE x \in S
  <2>1. IsFiniteSet({x}) /\ IsFiniteSet(1..g[x])
    BY FS_Singleton, PlacesCounted
  <2>2. IsFiniteSet({x} \X (1..g[x]))
    BY <2>1, FS_Product
  <2> QED
    BY <2>2
<1>2. IsFiniteSet(UNION {pairs(g)[x] : x \in S})
  <2> HIDE DEF pairs
  <2>1. pairs(g) = [x \in S |-> pairs(g)[x]]
    BY DEF pairs
  <2> QED
    BY <1>1, <2>1, UnionIsFinite
<1>3. all(g) = UNION {pairs(g)[x] : x \in S}
  OBVIOUS
<1>4. all(f) \subseteq all(g)
  <2>1. \A x \in S : 1..f[x] \subseteq 1..g[x]
    OBVIOUS
  <2> QED
    BY <2>1
<1>5. IsFiniteSet(all(g)) /\ IsFiniteSet(all(f)) /\ Cardinality(all(f)) <= Cardinality(all(g))
  <2> HIDE DEF all
  <2> QED
    BY <1>2, <1>3, <1>4, FS_Subset
<1> QED
  BY <1>5, FS_CardinalityType DEF Total

\* A total of percentages is at most a hundred for each.
LEMMA TotalOfPercents ==
    ASSUME NEW S, IsFiniteSet(S), NEW f, \A x \in S : f[x] \in Percent
    PROVE  Total(f, S) \in 0..(100 * Cardinality(S))
<1> DEFINE all == UNION {{x} \X (1..f[x]) : x \in S}
<1>1. IsFiniteSet(1..100) /\ Cardinality(1..100) = 100
  BY PlacesCounted
<1>2. IsFiniteSet(S \X (1..100)) /\ Cardinality(S \X (1..100)) = Cardinality(S) * 100
  BY <1>1, FS_Product
<1>3. all \subseteq S \X (1..100)
  <2>1. \A x \in S : 1..f[x] \subseteq 1..100
    BY DEF Percent
  <2> QED
    BY <2>1
<1>4. IsFiniteSet(all) /\ Cardinality(all) <= Cardinality(S) * 100 /\ Cardinality(all) \in Nat
  <2> HIDE DEF all
  <2> QED
    BY <1>2, <1>3, FS_Subset, FS_CardinalityType
<1> QED
  BY <1>4, FS_CardinalityType DEF Total

\* A mean of percentages is a percentage.
LEMMA MeanIsPercent ==
    ASSUME NEW S, IsFiniteSet(S), S # {}, NEW f, \A x \in S : f[x] \in Percent
    PROVE  Mean(f, S) \in Percent
<1> DEFINE b == Cardinality(S)
           a == Total(f, S)
           q == a \div b
           r == a % b
<1>1. b \in Nat /\ b > 0 /\ a \in Nat /\ a <= 100 * b
  BY TotalOfPercents, FS_CardinalityType, FS_EmptySet
<1> HIDE DEF a, b
<1>2. q \in Int /\ r \in 0..(b - 1) /\ a = b * q + r
  BY <1>1
<1> HIDE DEF q, r
<1>3. b * q \in Int /\ b * q <= a /\ a < b * q + b
  BY <1>1, <1>2
<1>4. q >= 0
  <2>1. SUFFICES ASSUME q <= -1 PROVE FALSE
    BY <1>2
  <2>2. b * q <= b * (-1)
    BY <2>1, <1>1, <1>2
  <2> QED
    BY <1>1, <1>3, <2>2
<1>5. q <= 100
  <2>1. SUFFICES ASSUME 101 <= q PROVE FALSE
    BY <1>2
  <2>2. b * 101 <= b * q
    BY <2>1, <1>1, <1>2
  <2> QED
    BY <1>1, <1>3, <2>2
<1> QED
  BY <1>2, <1>4, <1>5 DEF Mean, Percent, a, b, q

------------------------------------------------------------------------------
(* What a rule finds. *)

\* A column of a table is as long as the table and holds contents.
IsColumn(s, n) == DOMAIN s = 1..n /\ Len(s) = n /\ n \in Nat /\ \A i \in DOMAIN s : s[i] \in Contents

LEMMA ColumnsOfTable ==
    ASSUME QualityAssumption, NEW t, IsTable(t)
    PROVE  /\ IsFiniteSet(DOMAIN t) /\ Height(t) \in Nat
           /\ \A c \in DOMAIN t : c \in Columns /\ IsColumn(t[c], Height(t))
<1>1. IsFiniteSet(DOMAIN t)
  BY FS_Subset DEF QualityAssumption, IsTable
<1>2. CASE DOMAIN t = {}
  BY <1>1, <1>2 DEF Height
<1>3. CASE DOMAIN t # {}
  <2> DEFINE d == CHOOSE c \in DOMAIN t : TRUE
  <2>1. d \in DOMAIN t
    BY <1>3
  <2>2. Height(t) = Len(t[d])
    BY <1>3 DEF Height
  <2> HIDE DEF d
  <2>3. \A c \in DOMAIN t : t[c] \in Seq(Contents) /\ Len(t[c]) = Len(t[d])
    BY <2>1 DEF IsTable
  <2>4. \A c \in DOMAIN t : IsColumn(t[c], Height(t))
    BY <2>2, <2>3 DEF IsColumn
  <2> QED
    BY <1>1, <2>1, <2>2, <2>3, <2>4 DEF IsTable
<1> QED
  BY <1>2, <1>3

\* A result answers its rule with numbers that fit together.
Obeys(x, rule) ==
    /\ x.rule = rule
    /\ x.total \in Nat /\ x.passed \in Nat /\ x.failed \in Nat
    /\ x.passed + x.failed <= x.total

LEMMA SkippedAnswers ==
    ASSUME NEW rule
    PROVE  Obeys(Skipped(rule), rule)
  BY DEF Skipped, Obeys

LEMMA FoundAnswers ==
    ASSUME NEW rule, NEW n \in Nat, NEW p \in Nat, NEW f \in Nat, p + f <= n
    PROVE  Obeys(Found(rule, n, p, f), rule)
  BY DEF Found, Obeys

\* Whatever rule is applied to a list, what passes and what fails is no more than there is.
LEMMA AppliedAnswers ==
    ASSUME QualityAssumption, NEW s, DOMAIN s = 1..Len(s), Len(s) \in Nat, NEW rule
    PROVE  Obeys(Apply(s, rule), rule)
<1>1. Obeys(OfCells(s, rule), rule)
  <2> DEFINE failed == CountIn(s, BrokenBy[rule.kind])
  <2>1. failed \in 0..Len(s)
    BY CountedPlaces
  <2>2. OfCells(s, rule) = Found(rule, Len(s), Len(s) - failed, failed)
    BY DEF OfCells
  <2> HIDE DEF failed
  <2> QED
    BY <2>1, <2>2, FoundAnswers
<1>2. Obeys(OfCopies(s, rule), rule)
  <2> DEFINE copies == {i \in DOMAIN s : \E j \in DOMAIN s \ {i} : s[i] = s[j]}
  <2>1. IsFiniteSet(1..Len(s)) /\ Cardinality(1..Len(s)) = Len(s)
    BY PlacesCounted
  <2>2. Cardinality(copies) \in 0..Len(s)
    BY <2>1, FS_Subset, FS_CardinalityType
  <2>3. OfCopies(s, rule) = Found(rule, Len(s), Len(s) - Cardinality(copies), Cardinality(copies))
    BY DEF OfCopies
  <2> HIDE DEF copies
  <2> QED
    BY <2>2, <2>3, FoundAnswers
<1>3. ASSUME rule.kind \in PresentKinds
      PROVE  Obeys(OfPresent(s, rule), rule)
  <2> DEFINE failed  == CountIn(s, BrokenBy[rule.kind])
             present == CountIn(s, Contents \ {Empty})
  <2>1. BrokenBy[rule.kind] \subseteq Contents \ {Empty}
    BY <1>3 DEF QualityAssumption
  <2>2. failed \in Nat /\ present \in Nat /\ failed <= present /\ present <= Len(s)
    <3>1. failed \in 0..Len(s) /\ present \in 0..Len(s)
      BY CountedPlaces
    <3>2. failed <= present
      BY <2>1, CountedLess
    <3> HIDE DEF failed, present
    <3> QED
      BY <3>1, <3>2
  <2>3. OfPresent(s, rule) = Found(rule, Len(s), present - failed, failed)
    BY DEF OfPresent
  <2> HIDE DEF failed, present
  <2> QED
    BY <2>2, <2>3, FoundAnswers
<1>4. Obeys(OfWhole(s, rule), rule)
  BY FoundAnswers DEF OfWhole
<1> QED
  BY <1>1, <1>2, <1>3, <1>4, SkippedAnswers DEF Apply

LEMMA CrossAnswers ==
    ASSUME QualityAssumption, NEW t, IsTable(t), NEW rule, rule.kind \in CrossKinds
    PROVE  Obeys(ApplyCross(t, rule), rule)
<1> DEFINE rows   == 1..Height(t)
           at     == CASE rule.kind = "conditional" -> {i \in rows : t[rule.other][i] = rule.value}
                       [] rule.kind = "settlement_date_t2" ->
                            {i \in rows : {t[rule.other][i], t[rule.col][i]} \subseteq Dates}
                       [] rule.kind = "referential_integrity" -> {i \in rows : t[rule.col][i] # Empty}
           failed == CASE rule.kind = "conditional" -> {i \in at : t[rule.col][i] \in {Empty, Blank}}
                       [] rule.kind = "settlement_date_t2" ->
                            {i \in at : <<t[rule.other][i], t[rule.col][i]>> \in TooSoon}
                       [] rule.kind = "referential_integrity" ->
                            {i \in at : t[rule.col][i] \notin Range(t[rule.other])}
           n == Cardinality(failed)
           m == Cardinality(at)
<1>1. IsFiniteSet(rows)
  BY ColumnsOfTable, PlacesCounted
<1>2. at \subseteq rows /\ failed \subseteq at
  <2>1. at \subseteq rows
    BY DEF CrossKinds
  <2> HIDE DEF at
  <2>2. failed \subseteq at
    BY DEF CrossKinds
  <2> QED
    BY <2>1, <2>2
<1>3. ApplyCross(t, rule) = IF {rule.col, rule.other} \subseteq DOMAIN t
                            THEN Found(rule, m, m - n, n) ELSE Skipped(rule)
  BY DEF ApplyCross
<1> HIDE DEF rows, at, failed
<1>4. n \in Nat /\ m \in Nat /\ n <= m
  <2>1. IsFiniteSet(at)
    BY <1>1, <1>2, FS_Subset
  <2> QED
    BY <1>2, <2>1, FS_Subset, FS_CardinalityType
<1> HIDE DEF n, m
<1> QED
  BY <1>3, <1>4, FoundAnswers, SkippedAnswers

LEMMA ResultAnswers ==
    ASSUME QualityAssumption, NEW t, IsTable(t), NEW rule
    PROVE  Obeys(Result(t, rule), rule)
<1>1. CASE rule.kind \in CrossKinds
  BY <1>1, CrossAnswers DEF Result
<1>2. CASE rule.kind \notin CrossKinds /\ rule.col = None
  <2> DEFINE s == <<Height(t)>>
  <2>1. DOMAIN s = 1..Len(s) /\ Len(s) \in Nat
    OBVIOUS
  <2>2. Result(t, rule) = Apply(s, rule)
    BY <1>2 DEF Result
  <2> HIDE DEF s
  <2> QED
    BY <2>1, <2>2, AppliedAnswers
<1>3. CASE rule.kind \notin CrossKinds /\ rule.col # None /\ rule.col \in DOMAIN t
  <2> DEFINE s == t[rule.col]
  <2>1. DOMAIN s = 1..Len(s) /\ Len(s) \in Nat
    BY <1>3, ColumnsOfTable DEF IsColumn
  <2>2. Result(t, rule) = Apply(s, rule)
    BY <1>3 DEF Result
  <2> HIDE DEF s
  <2> QED
    BY <2>1, <2>2, AppliedAnswers
<1>4. CASE rule.kind \notin CrossKinds /\ rule.col # None /\ rule.col \notin DOMAIN t
  BY <1>4, SkippedAnswers DEF Result
<1> QED
  BY <1>1, <1>2, <1>3, <1>4

------------------------------------------------------------------------------
(* The rules of a run, and what passes of them. *)

\* Finitely many rules, each of a severity that has a weight.
AreRules(rules) == IsFiniteSet(rules) /\ \A r \in rules : r.severity \in Severities

LEMMA RulesTogether ==
    ASSUME NEW R, AreRules(R), NEW S, AreRules(S)
    PROVE  AreRules(R \cup S)
  BY FS_Union DEF AreRules

LEMMA RulesOfAll ==
    ASSUME NEW S, IsFiniteSet(S), NEW g, g = [x \in S |-> g[x]], \A x \in S : AreRules(g[x])
    PROVE  AreRules(UNION {g[x] : x \in S})
<1>1. IsFiniteSet(UNION {g[x] : x \in S})
  BY UnionIsFinite DEF AreRules
<1> QED
  BY <1>1 DEF AreRules

LEMMA RulesOrNone ==
    ASSUME NEW b, NEW r, r.severity \in Severities
    PROVE  AreRules(IF b THEN {r} ELSE {})
  BY FS_Singleton, FS_EmptySet DEF AreRules

LEMMA RuleOfSeverity ==
    ASSUME NEW k, NEW c, NEW sev \in Severities, NEW val, NEW from
    PROVE  Rule(k, c, sev, val, from).severity \in Severities
  BY DEF Rule

LEMMA EntryRules ==
    ASSUME NEW t, NEW nullable, NEW e, e.severity \in Severities, IsFiniteSet(e.checks)
    PROVE  AreRules(OfEntry(t, nullable, e))
<1> DEFINE when(b, k, part) == IF b THEN {Rule(k, e.col, e.severity, None, <<e.at, part>>)} ELSE {}
           check == [x \in e.checks |-> Rule(x.kind, e.col, e.severity, x.value, <<e.at, "check">>)]
           b1 == e.mandatory = "yes" /\ e.col \notin nullable
           b2 == e.unique
           b3 == e.accuracy /\ CountIn(t[e.col], Contents \ {Empty}) > 0
           b4 == e.kind \notin {"auto", "range", "freshness_days", "completeness_pct", "decimal_places"}
           checks == {check[x] : x \in e.checks}
<1>1. \A b, k, part : AreRules(when(b, k, part))
  BY RuleOfSeverity, RulesOrNone
<1>2. AreRules(checks)
  <2>1. \A x \in e.checks : check[x].severity \in Severities
    BY RuleOfSeverity
  <2>2. IsFiniteSet(checks)
    <3> HIDE DEF check
    <3>1. check = [x \in e.checks |-> check[x]]
      BY DEF check
    <3> QED
      BY <3>1, ImageOfFinite
  <2> QED
    BY <2>1, <2>2 DEF AreRules
<1>3. OfEntry(t, nullable, e) =
        IF e.exclude \/ e.col \notin DOMAIN t THEN {}
        ELSE when(b1, "not_null", "mandatory") \cup when(b2, "unique", "unique") \cup checks
             \cup when(b3, "allowed_values", "accuracy") \cup when(b4, e.kind, "kind")
  BY DEF OfEntry
<1>4. AreRules({})
  BY FS_EmptySet DEF AreRules
<1> HIDE DEF when, checks, b1, b2, b3, b4
<1>5. AreRules(when(b1, "not_null", "mandatory") \cup when(b2, "unique", "unique"))
  BY <1>1, RulesTogether
<1>6. AreRules(when(b1, "not_null", "mandatory") \cup when(b2, "unique", "unique") \cup checks)
  BY <1>2, <1>5, RulesTogether
<1>7. AreRules(when(b1, "not_null", "mandatory") \cup when(b2, "unique", "unique") \cup checks
               \cup when(b3, "allowed_values", "accuracy"))
  BY <1>1, <1>6, RulesTogether
<1>8. AreRules(when(b1, "not_null", "mandatory") \cup when(b2, "unique", "unique") \cup checks
               \cup when(b3, "allowed_values", "accuracy") \cup when(b4, e.kind, "kind"))
  BY <1>1, <1>7, RulesTogether
<1> QED
  BY <1>3, <1>4, <1>8

LEMMA HintRules ==
    ASSUME NEW t, NEW hints, IsFiniteSet(hints.bounds)
    PROVE  AreRules(OfHints(t, hints))
<1> DEFINE there == {x \in hints.bounds : x.col \in DOMAIN t}
           rule == [b \in there |-> Rule(b.kind, b.col, "major", None, <<b.at, "hint">>)]
<1>1. IsFiniteSet(there)
  BY FS_Subset
<1>2. \A b \in there : rule[b].severity \in Severities
  BY RuleOfSeverity DEF Severities
<1>3. OfHints(t, hints) = {rule[b] : b \in there}
  BY DEF OfHints
<1>4. rule = [b \in there |-> rule[b]]
  OBVIOUS
<1> HIDE DEF rule, there
<1>5. IsFiniteSet({rule[b] : b \in there})
  BY <1>1, <1>4, ImageOfFinite
<1> QED
  BY <1>2, <1>3, <1>5 DEF AreRules

LEMMA BaselineRulesOfColumn ==
    ASSUME NEW c, NEW s, NEW nullable, NEW allowDups
    PROVE  AreRules(OfBaseline(c, s, nullable, allowDups))
<1> DEFINE when(b, k, sev) == IF b THEN {Rule(k, c, sev, None, <<0, "auto">>)} ELSE {}
<1>1. \A b, k : \A sev \in Severities : AreRules(when(b, k, sev))
  BY RuleOfSeverity, RulesOrNone
<1>2. \E b1, b2, b3, b4, b5, k : \E sev \in Severities :
        OfBaseline(c, s, nullable, allowDups) =
            when(b1, "not_null", sev) \cup when(b2, "unique", "critical")
            \cup when(b3, "observed_values", "major") \cup when(b4, k, "major")
            \cup when(b5, "range", "minor")
  <2> DEFINE empty   == PercentOf(Empties(c, s), Len(s))
             card    == Cardinal(s)
             notNull == c \notin nullable /\ 0 < empty /\ empty <= 50
             unique  == card = "identifier" /\ c \notin allowDups
             values  == ~unique /\ c \in Objects /\ card = "low" /\ Distinct(s) \in 2..20
             format  == ~unique /\ ~values /\ ~notNull /\ Format(c) # None
             range   == ~(notNull \/ unique \/ values \/ format) /\ c \in Numerics /\ Distinct(s) > 1
             sev     == IF card = "identifier" THEN "critical" ELSE "major"
  <2>1. OfBaseline(c, s, nullable, allowDups) =
            when(notNull, "not_null", sev) \cup when(unique, "unique", "critical")
            \cup when(values, "observed_values", "major") \cup when(format, Format(c), "major")
            \cup when(range, "range", "minor")
    BY DEF OfBaseline
  <2>2. sev \in Severities
    BY DEF Severities
  <2> HIDE DEF notNull, unique, values, format, range, sev, when
  <2> QED
    BY <2>1, <2>2
<1> HIDE DEF when
<1>3. PICK b1, b2, b3, b4, b5, k : \E sev \in Severities :
        OfBaseline(c, s, nullable, allowDups) =
            when(b1, "not_null", sev) \cup when(b2, "unique", "critical")
            \cup when(b3, "observed_values", "major") \cup when(b4, k, "major")
            \cup when(b5, "range", "minor")
  BY <1>2
<1>4. PICK sev \in Severities :
        OfBaseline(c, s, nullable, allowDups) =
            when(b1, "not_null", sev) \cup when(b2, "unique", "critical")
            \cup when(b3, "observed_values", "major") \cup when(b4, k, "major")
            \cup when(b5, "range", "minor")
  BY <1>3
<1>5. /\ AreRules(when(b1, "not_null", sev)) /\ AreRules(when(b2, "unique", "critical"))
      /\ AreRules(when(b3, "observed_values", "major")) /\ AreRules(when(b4, k, "major"))
      /\ AreRules(when(b5, "range", "minor"))
  BY <1>1 DEF Severities
<1>6. AreRules(when(b1, "not_null", sev) \cup when(b2, "unique", "critical"))
  BY <1>5, RulesTogether
<1>7. AreRules(when(b1, "not_null", sev) \cup when(b2, "unique", "critical")
            \cup when(b3, "observed_values", "major"))
  BY <1>5, <1>6, RulesTogether
<1>8. AreRules(when(b1, "not_null", sev) \cup when(b2, "unique", "critical")
            \cup when(b3, "observed_values", "major") \cup when(b4, k, "major"))
  BY <1>5, <1>7, RulesTogether
<1> QED
  BY <1>4, <1>5, <1>8, RulesTogether

LEMMA BaselineRules ==
    ASSUME NEW t, IsFiniteSet(DOMAIN t), NEW rules, AreRules(rules), NEW nullable, NEW config
    PROVE  AreRules(Baseline(t, rules, nullable, config))
<1> DEFINE allowed == {e.col : e \in {f \in config : f.allowDups /\ ~f.unique}}
           free == {c \in DOMAIN t : \A r \in rules : r.col # c}
           own == [c \in free |-> OfBaseline(c, t[c], nullable, allowed)]
<1>1. IsFiniteSet(free)
  BY FS_Subset
<1>2. \A c \in free : AreRules(own[c])
  BY BaselineRulesOfColumn
<1>3. Baseline(t, rules, nullable, config) = rules \cup UNION {own[c] : c \in free}
  BY DEF Baseline
<1>4. own = [c \in free |-> own[c]]
  OBVIOUS
<1> HIDE DEF own, free
<1>5. AreRules(UNION {own[c] : c \in free})
  BY <1>1, <1>2, <1>4, RulesOfAll
<1> QED
  BY <1>3, <1>5, RulesTogether

\* The settings of a run with its validators are finitely many entries like those of the table.
LEMMA ValidatorsAreEntries ==
    ASSUME NEW t, NEW hints, IsHints(hints)
    PROVE  IsConfig(WithValidators(t, hints))
<1> DEFINE new == {w \in hints.validators :
                      w.col \in DOMAIN t /\ ~\E e \in hints.config : e.col = w.col /\ e.kind = w.kind}
           entry == [v \in new |-> Entry(v)]
<1>1. IsFiniteSet(new)
  BY FS_Subset DEF IsHints
<1>2. \A v \in new : entry[v].severity \in Severities /\ IsFiniteSet(entry[v].checks)
  <2> TAKE v \in new
  <2>1. entry[v].severity = "major" /\ entry[v].checks = {}
    BY DEF Entry
  <2> QED
    BY <2>1, FS_EmptySet DEF Severities
<1>3. WithValidators(t, hints) = hints.config \cup {entry[v] : v \in new}
  BY DEF WithValidators
<1>4. entry = [v \in new |-> entry[v]]
  OBVIOUS
<1> HIDE DEF entry, new
<1>5. IsFiniteSet({entry[v] : v \in new})
  BY <1>1, <1>4, ImageOfFinite
<1>6. IsFiniteSet(WithValidators(t, hints))
  <2>1. IsFiniteSet(hints.config)
    BY DEF IsHints, IsConfig
  <2>2. IsFiniteSet(hints.config \cup {entry[v] : v \in new})
    BY <1>5, <2>1, FS_Union
  <2> QED
    BY <1>3, <2>2
<1> QED
  BY <1>2, <1>3, <1>6 DEF IsHints, IsConfig

LEMMA RestIsTable ==
    ASSUME NEW t, IsTable(t), NEW config
    PROVE  /\ IsTable(Dropped(t, config))
           /\ DOMAIN Dropped(t, config) = DOMAIN t \ Excluded(config)
           /\ \A c \in DOMAIN t \ Excluded(config) : Dropped(t, config)[c] = t[c]
  BY DEF IsTable, Dropped

LEMMA RulesOfRun ==
    ASSUME QualityAssumption, NEW t, IsTable(t), NEW given, AreRules(given),
           NEW hints, IsHints(hints)
    PROVE  AreRules(RulesFor(t, given, hints))
<1> DEFINE config   == WithValidators(t, hints)
           nullable == Nullable(config, hints)
           of       == [e \in config |-> OfEntry(t, nullable, e)]
           settings == given \cup UNION {of[e] : e \in config}
           left     == Dropped(t, config)
<1>1. RulesFor(t, given, hints) = Baseline(left, settings \cup OfHints(left, hints), nullable, config)
  BY DEF RulesFor
<1>2. IsConfig(config)
  BY ValidatorsAreEntries
<1>3. AreRules(settings)
  <2> HIDE DEF config, nullable
  <2>1. \A e \in config : AreRules(of[e])
    BY <1>2, EntryRules DEF IsConfig
  <2>2. of = [e \in config |-> of[e]]
    OBVIOUS
  <2> HIDE DEF of
  <2>3. AreRules(UNION {of[e] : e \in config})
    BY <1>2, <2>1, <2>2, RulesOfAll DEF IsConfig
  <2> QED
    BY <2>3, RulesTogether
<1>4. IsFiniteSet(DOMAIN left)
  BY RestIsTable, ColumnsOfTable
<1>5. AreRules(OfHints(left, hints))
  BY HintRules DEF IsHints
<1> HIDE DEF settings, left, config, nullable
<1>6. AreRules(settings \cup OfHints(left, hints))
  BY <1>3, <1>5, RulesTogether
<1> QED
  BY <1>1, <1>4, <1>6, BaselineRules

\* Finitely many answers to rules.
AreResults(results) ==
    IsFiniteSet(results) /\ \A x \in results : Obeys(x, x.rule) /\ x.rule.severity \in Severities

LEMMA ResultsOfRules ==
    ASSUME QualityAssumption, NEW t, IsTable(t), NEW rules, AreRules(rules)
    PROVE  AreResults(Results(t, rules))
<1> DEFINE asked == {x \in rules : x.kind \notin CrossKinds \/ Height(t) > 0}
           result == [r \in asked |-> Result(t, r)]
<1>1. IsFiniteSet(asked)
  BY FS_Subset DEF AreRules
<1>2. \A r \in asked : Obeys(result[r], r) /\ r.severity \in Severities
  BY ResultAnswers DEF AreRules
<1>3. Results(t, rules) = {result[r] : r \in asked}
  BY DEF Results
<1>4. result = [r \in asked |-> result[r]]
  OBVIOUS
<1> HIDE DEF result, asked
<1>5. IsFiniteSet({result[r] : r \in asked})
  BY <1>1, <1>4, ImageOfFinite
<1>6. \A r \in asked : Obeys(result[r], result[r].rule) /\ result[r].rule.severity \in Severities
  BY <1>2 DEF Obeys
<1> QED
  BY <1>3, <1>5, <1>6 DEF AreResults

\* Some of the answers are answers.
LEMMA SomeResults ==
    ASSUME NEW R, AreResults(R), NEW S \in SUBSET R
    PROVE  AreResults(S)
  BY FS_Subset DEF AreResults

\* What passed of any answers is a percentage.
LEMMA PassedIsPercent ==
    ASSUME NEW R, AreResults(R)
    PROVE  Passed(R) \in Percent
<1> DEFINE all == [r \in R |-> r.total * SeverityWeight(r)]
           some == [r \in R |-> r.passed * SeverityWeight(r)]
           a == Total(some, R)
           b == Total(all, R)
<1>1. \A r \in R : some[r] \in Nat /\ all[r] \in Nat /\ some[r] <= all[r]
  <2> TAKE r \in R
  <2>1. r.total \in Nat /\ r.passed \in Nat /\ r.passed <= r.total
    BY DEF AreResults, Obeys
  <2>2. SeverityWeight(r) \in {1, 2, 3}
    BY DEF AreResults, Severities, SeverityWeight
  <2>3. /\ r.passed * SeverityWeight(r) \in Nat /\ r.total * SeverityWeight(r) \in Nat
        /\ r.passed * SeverityWeight(r) <= r.total * SeverityWeight(r)
    BY <2>1, <2>2
  <2> QED
    BY <2>3
<1>2. Passed(R) = IF b = 0 THEN 100 ELSE PercentOf(a, b)
  BY DEF Passed
<1> HIDE DEF all, some
<1>3. a \in Nat /\ b \in Nat /\ a <= b
  BY <1>1, TotalGrows DEF AreResults
<1>4. PercentOf(a, b) \in Percent
  BY <1>3, ShareIsPercent
<1> QED
  BY <1>2, <1>4 DEF Percent

------------------------------------------------------------------------------
(* What a run reports. *)

LEMMA IssueIsFinite ==
    ASSUME NEW check, NEW cols, NEW bad, NEW fails
    PROVE  IsFiniteSet(Issue(check, cols, bad, fails))
<1>1. \A x : IsFiniteSet({x})
  BY FS_Singleton
<1>2. IsFiniteSet({})
  BY FS_EmptySet
<1> QED
  BY <1>1, <1>2 DEF Issue

LEMMA TextIssues ==
    ASSUME IsFiniteSet(TextChecks), NEW t, IsFiniteSet(DOMAIN t)
    PROVE  IsFiniteSet(OfText(t))
<1> DEFINE texts == {c \in DOMAIN t \cap Objects : Range(t[c]) # {Empty} /\ t[c] # <<>>}
           said == {y \in TextChecks \X texts : TextVerdict(y[1], t[y[2]]) # "none"}
           of == [x \in said |->
                    [check |-> x[1], cols |-> {x[2]}, status |-> TextVerdict(x[1], t[x[2]])]]
<1>1. IsFiniteSet(said)
  <2>1. IsFiniteSet(texts)
    BY FS_Subset
  <2> HIDE DEF texts
  <2>2. IsFiniteSet(TextChecks \X texts)
    BY <2>1, FS_Product
  <2> QED
    BY <2>2, FS_Subset
<1>2. OfText(t) = {of[x] : x \in said}
  BY DEF OfText
<1>3. of = [x \in said |-> of[x]]
  OBVIOUS
<1> HIDE DEF of, said
<1> QED
  BY <1>1, <1>2, <1>3, ImageOfFinite

LEMMA DictionaryIssues ==
    ASSUME NEW t, IsFiniteSet(DOMAIN t), NEW dict, NEW nullable
    PROVE  IsFiniteSet(OfDictionary(t, dict, nullable))
<1> DEFINE null(c) == Empty \in Range(t[c])
           must == {d \in DOMAIN dict \cap DOMAIN t : ~dict[d].nullable} \ nullable
           pk == {c \in DOMAIN dict \cap DOMAIN t : dict[c].pk}
           KeyAt(i) == [c \in pk |-> t[c][i]]
           of == [c \in must |-> Issue("not null", {c}, null(c), TRUE)]
           A == Issue("key not null", pk, \E c \in pk : null(c), TRUE)
           B == Issue("key unique", pk,
                      pk # {} /\ \E i, j \in 1..Height(t) : i # j /\ KeyAt(i) = KeyAt(j), TRUE)
<1>1. OfDictionary(t, dict, nullable) = (UNION {of[c] : c \in must}) \cup A \cup B
  BY DEF OfDictionary
<1>2. IsFiniteSet(must)
  BY FS_Subset
<1>3. \A c \in must : IsFiniteSet(of[c])
  BY IssueIsFinite
<1>4. IsFiniteSet(A) /\ IsFiniteSet(B)
  BY IssueIsFinite
<1>5. of = [c \in must |-> of[c]]
  OBVIOUS
<1> HIDE DEF of, must, A, B
<1>6. IsFiniteSet(UNION {of[c] : c \in must})
  BY <1>2, <1>3, <1>5, UnionIsFinite
<1>7. IsFiniteSet((UNION {of[c] : c \in must}) \cup A)
  BY <1>4, <1>6, FS_Union
<1> QED
  BY <1>1, <1>4, <1>7, FS_Union

LEMMA ConflictIssues ==
    ASSUME NEW t, IsFiniteSet(DOMAIN t)
    PROVE  IsFiniteSet(OfConflicts(t))
<1> DEFINE ids  == {c \in DOMAIN t : Cardinal(t[c]) = "identifier"}
           rows == {i \in 1..Height(t) : i <= ConflictRows}
           keys(k) == {t[k][i] : i \in rows} \ {Empty}
           of(k, v, x) == {t[v][i] : i \in {j \in rows : t[k][j] = x}} \ {Empty}
           torn(p) == Cardinality({x \in keys(p[1]) : Cardinality(of(p[1], p[2], x)) > 1})
           pairs == Leading(ids, MaxIds) \X Leading(DOMAIN t \ ids, MaxOthers)
           found == [p \in pairs |->
                       Issue("conflict", p, torn(p) > 0, 20 * torn(p) >= Cardinality(keys(p[1])))]
<1>1. OfConflicts(t) = UNION {found[p] : p \in pairs}
  BY DEF OfConflicts
<1>2. \A p \in pairs : IsFiniteSet(found[p])
  BY IssueIsFinite
<1>3. IsFiniteSet(pairs)
  <2>1. /\ Leading(ids, MaxIds) \subseteq DOMAIN t
        /\ Leading(DOMAIN t \ ids, MaxOthers) \subseteq DOMAIN t
    BY DEF Leading
  <2>2. /\ IsFiniteSet(Leading(ids, MaxIds))
        /\ IsFiniteSet(Leading(DOMAIN t \ ids, MaxOthers))
    BY <2>1, FS_Subset
  <2> HIDE DEF ids
  <2> QED
    BY <2>2, FS_Product
<1>4. found = [p \in pairs |-> found[p]]
  OBVIOUS
<1> HIDE DEF found, pairs
<1> QED
  BY <1>1, <1>2, <1>3, <1>4, UnionIsFinite

LEMMA PairIssues ==
    ASSUME NEW t, NEW p, p.check \in PairChecks, NEW n
    PROVE  IsFiniteSet(OfPair(t, p, n))
<1>1. \A s : IsFiniteSet(Related(p, n, s))
  BY FS_Singleton DEF Related
<1>2. IsFiniteSet({})
  BY FS_EmptySet
<1>3. /\ IsFiniteSet(CrossColumn(t, p, n)) /\ IsFiniteSet(Referential(t, p, n))
      /\ IsFiniteSet(CrossFile(t, p, n)) /\ IsFiniteSet(FilledWhen(t, p, n))
  BY <1>1, <1>2 DEF CrossColumn, Referential, CrossFile, FilledWhen
<1> QED
  BY <1>3 DEF OfPair, PairChecks

LEMMA IssuesAreFinite ==
    ASSUME IsFiniteSet(TextChecks), NEW t, IsFiniteSet(DOMAIN t),
           NEW dict, NEW nullable, NEW hints, IsHints(hints)
    PROVE  IsFiniteSet(Issues(t, dict, nullable, hints))
<1> DEFINE of == [n \in DOMAIN hints.pairs |-> OfPair(t, hints.pairs[n], n)]
           A == OfText(t)  B == OfDictionary(t, dict, nullable)  D == OfConflicts(t)
           P == UNION {of[n] : n \in DOMAIN hints.pairs}
<1>1. Issues(t, dict, nullable, hints) = A \cup B \cup D \cup P
  BY DEF Issues
<1>2. \A n \in DOMAIN hints.pairs : IsFiniteSet(of[n])
  BY PairIssues DEF IsHints
<1>3. of = [n \in DOMAIN hints.pairs |-> of[n]] /\ IsFiniteSet(DOMAIN hints.pairs)
  BY DEF IsHints
<1>4. IsFiniteSet(P)
  <2> HIDE DEF of
  <2> QED
    BY <1>2, <1>3, UnionIsFinite
<1>5. IsFiniteSet(A) /\ IsFiniteSet(B) /\ IsFiniteSet(D)
  BY TextIssues, DictionaryIssues, ConflictIssues
<1> HIDE DEF A, B, D, P
<1>6. IsFiniteSet(A \cup B)
  BY <1>5, FS_Union
<1>7. IsFiniteSet(A \cup B \cup D)
  BY <1>5, <1>6, FS_Union
<1> QED
  BY <1>1, <1>4, <1>7, FS_Union

\* The empty cells of a column, and the blank ones alone, are no more than its cells.
LEMMA EmptiesOfColumn ==
    ASSUME QualityAssumption, NEW c, NEW s, NEW n, IsColumn(s, n)
    PROVE  BlankTexts(c, s) \in 0..n /\ Empties(c, s) \in 0..n
<1> DEFINE nulls == CountIn(s, {Empty})
           blanks == CountIn(s, {Blank})
<1>1. DOMAIN s = 1..Len(s) /\ Len(s) \in Nat /\ n = Len(s)
  BY DEF IsColumn
<1>2. nulls \in 0..n /\ blanks \in 0..n
  BY <1>1, CountedPlaces
<1>3. nulls + blanks <= n
  BY <1>1, CountedApart DEF QualityAssumption
<1>4. BlankTexts(c, s) = IF c \in Objects /\ blanks - nulls > 0 THEN blanks - nulls ELSE 0
  BY DEF BlankTexts
<1>5. Empties(c, s) = nulls + BlankTexts(c, s)
  BY DEF Empties
<1> HIDE DEF nulls, blanks
<1> QED
  BY <1>1, <1>2, <1>3, <1>4, <1>5

LEMMA Complement ==
    ASSUME NEW p \in Percent
    PROVE  100 - p \in Percent
  BY DEF Percent

\* A mean over some of the columns, if there are any.
LEMMA MeanIfAny ==
    ASSUME NEW S, IsFiniteSet(S), NEW f, \A x \in S : f[x] \in Percent
    PROVE  IfAny(f, S) \in Percent \cup {None}
  BY MeanIsPercent DEF IfAny

\* The share of known values is one, of whichever columns.
LEMMA AccuracyIsPercent ==
    ASSUME QualityAssumption, NEW t, IsTable(t),
           NEW left, \A c \in DOMAIN left : c \in DOMAIN t, NEW config, NEW dict
    PROVE  Accuracy(t, left, config, dict) \in Percent \cup {None}
<1> DEFINE known == ByEntry(t, config) \cup ByDictionary(left, dict)
           right == [c \in known |-> Right(t[c])]
<1>1. known \subseteq DOMAIN t
  BY DEF ByEntry, ByDictionary
<1>2. IsFiniteSet(DOMAIN t) /\ \A c \in DOMAIN t : IsColumn(t[c], Height(t))
  BY ColumnsOfTable
<1>3. \A c \in known : right[c] \in Percent
  <2> TAKE c \in known
  <2> DEFINE s == t[c]
             good == Contents \ (BrokenBy["allowed_values"] \cup {Empty})
             all == Contents \ {Empty}
  <2>1. DOMAIN s = 1..Len(s) /\ Len(s) \in Nat
    BY <1>1, <1>2 DEF IsColumn
  <2>2. CountIn(s, good) \in 0..Len(s) /\ CountIn(s, all) \in 0..Len(s)
    BY <2>1, CountedPlaces
  <2>3. CountIn(s, good) <= CountIn(s, all)
    <3>1. good \subseteq all
      OBVIOUS
    <3> HIDE DEF good, all, s
    <3> QED
      BY <2>1, <3>1, CountedLess
  <2>4. right[c] = PercentOf(CountIn(s, good), CountIn(s, all))
    BY DEF Right
  <2> HIDE DEF s, good, all, right, known
  <2> QED
    BY <2>1, <2>2, <2>3, <2>4, ShareIsPercent
<1>4. Accuracy(t, left, config, dict) = IfAny(right, known)
  BY DEF Accuracy
<1> HIDE DEF right, known
<1>5. IsFiniteSet(known)
  BY <1>1, <1>2, FS_Subset
<1> QED
  BY <1>3, <1>4, <1>5, MeanIfAny

LEMMA MeasuredOfRun ==
    ASSUME QualityAssumption, NEW t, IsTable(t), NEW wanted,
           NEW ran, AreResults(ran), NEW issues, IsFiniteSet(issues)
    PROVE  Measure(t, wanted, ran, issues) \in Measures
<1> DEFINE cols == DOMAIN t
           n    == Height(t)
           only(kinds) == {r \in ran : r.rule.kind \in kinds}
           copies == {i \in 1..n : \E j \in 1..(i - 1) : RowAt(t, i) = RowAt(t, j)}
           failed == {x \in issues : x.status = "FAIL"}
           full  == [c \in cols |-> 100 - PercentOf(Empties(c, t[c]), n)]
           texts == [c \in cols |-> 100 - PercentOf(BlankTexts(c, t[c]), n)]
           scored == cols \ wanted.nullable
           completeness == IF scored = {} THEN 100 ELSE Mean(full, scored)
           uniqueness == 100 - PercentOf(Cardinality(copies), n)
           validity == Passed(ran)
           consistency == 100 - PercentOf(Cardinality(failed), Cardinality(issues))
           conformity == IF cols = {} THEN 100 ELSE Mean(texts, cols)
           precision == IF cols \cap (Uneven \cup wanted.decimals) = {}
                        THEN None ELSE Mean(Precise, cols)
           timeliness == IfAny(Fresh, cols \cap wanted.ages)
           integrity == IF only(CrossKinds) = {} THEN None ELSE Passed(only(CrossKinds))
           reasonableness == IF only(Reasonable) = {} THEN None ELSE Passed(only(Reasonable))
<1>1. /\ IsFiniteSet(cols) /\ n \in Nat
      /\ \A c \in cols : c \in Columns /\ IsColumn(t[c], n)
  BY ColumnsOfTable
<1>2. 100 \in Percent
  BY DEF Percent
<1>3. \A c \in cols : full[c] \in Percent /\ texts[c] \in Percent
  <2> TAKE c \in cols
  <2>1. BlankTexts(c, t[c]) \in 0..n /\ Empties(c, t[c]) \in 0..n
    BY <1>1, EmptiesOfColumn
  <2>2. PercentOf(BlankTexts(c, t[c]), n) \in Percent /\ PercentOf(Empties(c, t[c]), n) \in Percent
    BY <1>1, <2>1, ShareIsPercent
  <2> QED
    BY <2>2, Complement
<1>5. completeness \in Percent
  <2>1. IsFiniteSet(scored) /\ scored \subseteq cols
    BY <1>1, FS_Subset
  <2> HIDE DEF scored, full, cols
  <2> QED
    BY <1>2, <1>3, <2>1, MeanIsPercent
<1>6. conformity \in Percent
  <2> HIDE DEF texts, cols
  <2> QED
    BY <1>1, <1>2, <1>3, MeanIsPercent
<1>7. uniqueness \in Percent
  <2>1. IsFiniteSet(1..n) /\ Cardinality(1..n) = n
    BY <1>1, PlacesCounted
  <2>2. Cardinality(copies) \in Nat /\ Cardinality(copies) <= n
    <3>1. copies \subseteq 1..n
      OBVIOUS
    <3> HIDE DEF copies, n
    <3>2. IsFiniteSet(copies) /\ Cardinality(copies) <= Cardinality(1..n)
      BY <2>1, <3>1, FS_Subset
    <3> QED
      BY <2>1, <3>2, FS_CardinalityType
  <2> HIDE DEF copies, n
  <2> QED
    BY <1>1, <2>2, ShareIsPercent, Complement
<1>8. consistency \in Percent
  <2>1. /\ Cardinality(failed) \in Nat /\ Cardinality(issues) \in Nat
        /\ Cardinality(failed) <= Cardinality(issues)
    BY FS_Subset, FS_CardinalityType
  <2> HIDE DEF failed
  <2> QED
    BY <2>1, ShareIsPercent, Complement
<1>9. validity \in Percent
  BY PassedIsPercent
<1>10. integrity \in Percent \cup {None} /\ reasonableness \in Percent \cup {None}
  <2>1. AreResults(only(CrossKinds)) /\ AreResults(only(Reasonable))
    BY SomeResults
  <2> HIDE DEF only
  <2> QED
    BY <2>1, PassedIsPercent
<1>11. precision \in Percent \cup {None}
  <2>1. \A c \in cols : Precise[c] \in Percent
    BY <1>1 DEF QualityAssumption
  <2>2. CASE cols = {}
    BY <2>2
  <2>3. CASE cols # {}
    <3> HIDE DEF cols
    <3> QED
      BY <1>1, <2>1, <2>3, MeanIsPercent
  <2> QED
    BY <2>2, <2>3
<1>12. timeliness \in Percent \cup {None}
  <2> DEFINE S == cols \cap wanted.ages
  <2>1. IsFiniteSet(S) /\ \A c \in S : Fresh[c] \in Percent
    BY <1>1, FS_Subset DEF QualityAssumption
  <2> HIDE DEF S
  <2> QED
    BY <2>1, MeanIfAny DEF S
<1>14. Measure(t, wanted, ran, issues) =
         [completeness |-> completeness, uniqueness |-> uniqueness, validity |-> validity,
          consistency |-> consistency, conformity |-> conformity, precision |-> precision,
          timeliness |-> timeliness, accuracy |-> None, integrity |-> integrity,
          reasonableness |-> reasonableness]
  BY DEF Measure
<1> HIDE DEF completeness, uniqueness, validity, consistency, conformity, precision, timeliness,
             integrity, reasonableness
<1>15. None \notin Percent
  BY NoneAssumption DEF Percent
<1> QED
  BY <1>5, <1>6, <1>7, <1>8, <1>9, <1>10, <1>11, <1>12, <1>14, <1>15
     DEF Measures, Always, Optional, Weighted, Carved

\* What the names of columns and a pack add to hints are hints, on the same settings.
LEMMA AugmentedHints ==
    ASSUME QualityAssumption, NEW t, IsTable(t), NEW hints, IsHints(hints),
           NEW pack, IsFiniteSet(pack.validators), IsFiniteSet(pack.ages)
    PROVE  /\ IsHints(Augment(t, hints, pack))
           /\ Augment(t, hints, pack).config = hints.config
<1> DEFINE v0 == IF pack.validators = {} THEN hints.validators ELSE pack.validators
           add(k, S) == {[kind |-> k, col |-> c] : c \in S}
           related == \E n \in DOMAIN hints.pairs :
                         LET p == hints.pairs[n] IN
                         p.check = "cross-column" /\ {Role[p.col], Role[p.other]} = {"trade", "settle"}
           A == Named(t, "domain") \ {v.col : v \in v0}
           B == IF related \/ Named(t, "settle") = {} THEN {} ELSE Leading(Named(t, "trade"), 1)
           C == Leading(Named(t, "notional"), 1)
           D == Leading(Named(t, "address"), 3)
           V == v0 \cup add("domain_accuracy", A) \cup add("not_future_date", B)
                   \cup add("positive", C) \cup add("address_complete", D)
           N == IF hints.nullable = {} THEN pack.nullable ELSE hints.nullable
           b == (IF hints.ages = {} THEN pack.ages ELSE hints.ages) \cup hints.bounds
<1>1. Augment(t, hints, pack) = [hints EXCEPT !.validators = V, !.nullable = N, !.bounds = b]
  BY DEF Augment
<1>2. \A k, S : IsFiniteSet(S) => IsFiniteSet(add(k, S))
  <2> TAKE k, S
  <2> DEFINE g == [c \in S |-> [kind |-> k, col |-> c]]
  <2>1. add(k, S) = {g[c] : c \in S}
    OBVIOUS
  <2>2. g = [c \in S |-> g[c]]
    OBVIOUS
  <2> HIDE DEF g, add
  <2> QED
    BY <2>1, <2>2, ImageOfFinite
<1>3. IsFiniteSet(DOMAIN t)
  BY ColumnsOfTable
<1>4. IsFiniteSet(A) /\ IsFiniteSet(B) /\ IsFiniteSet(C) /\ IsFiniteSet(D)
  <2>1. /\ A \subseteq DOMAIN t /\ B \subseteq DOMAIN t
        /\ C \subseteq DOMAIN t /\ D \subseteq DOMAIN t
    BY DEF Named, Leading
  <2> HIDE DEF A, B, C, D
  <2> QED
    BY <1>3, <2>1, FS_Subset
<1>5. IsFiniteSet(v0) /\ IsFiniteSet(b)
  BY FS_Union DEF IsHints
<1> HIDE DEF v0, A, B, C, D, N, b, add
<1>6. IsFiniteSet(V)
  <2>1. IsFiniteSet(v0 \cup add("domain_accuracy", A))
    BY <1>2, <1>4, <1>5, FS_Union
  <2>2. IsFiniteSet(v0 \cup add("domain_accuracy", A) \cup add("not_future_date", B))
    BY <1>2, <1>4, <2>1, FS_Union
  <2>3. IsFiniteSet(v0 \cup add("domain_accuracy", A) \cup add("not_future_date", B)
                    \cup add("positive", C))
    BY <1>2, <1>4, <2>2, FS_Union
  <2> QED
    BY <1>2, <1>4, <2>3, FS_Union
<1> HIDE DEF V
<1> QED
  BY <1>1, <1>5, <1>6 DEF IsHints, NoHints

\* The hints of an AI run.
LEMMA HintsOfAI ==
    ASSUME QualityAssumption, NEW t, IsTable(t), regexes \subseteq Columns
    PROVE  IsHints(AIHints(t))
<1> DEFINE entry == [c \in regexes |-> Entry([kind |-> "regex_format", col |-> c])]
           config == {entry[c] : c \in regexes}
           floor == Augment(t, NoHints, NoPack).validators
<1>1. IsHints(NoHints)
  BY FS_EmptySet DEF IsHints, IsConfig, NoHints
<1>2. IsFiniteSet(floor)
  <2>1. IsHints(Augment(t, NoHints, NoPack))
    BY <1>1, FS_EmptySet, AugmentedHints DEF NoPack
  <2> QED
    BY <2>1 DEF IsHints
<1>3. IsFiniteSet(config)
  <2>1. IsFiniteSet(regexes)
    BY FS_Subset DEF QualityAssumption
  <2>2. entry = [c \in regexes |-> entry[c]]
    OBVIOUS
  <2> HIDE DEF entry
  <2> QED
    BY <2>1, <2>2, ImageOfFinite
<1>4. \A e \in config : e.severity \in Severities /\ IsFiniteSet(e.checks)
  <2>1. \A c \in regexes : entry[c].severity = "major" /\ entry[c].checks = {}
    BY DEF Entry
  <2> HIDE DEF entry
  <2> QED
    BY <2>1, FS_EmptySet DEF Severities
<1>5. AIHints(t) = [NoHints EXCEPT !.config = config, !.validators = floor]
  BY DEF AIHints
<1> HIDE DEF config, floor
<1> QED
  BY <1>1, <1>2, <1>3, <1>4, <1>5 DEF IsHints, IsConfig, NoHints

\* A report has measures that are percentages, a score, and answers to its rules.
IsReport(r) ==
    /\ r.measures \in Measures
    /\ r.score = Score(r.measures)
    /\ AreResults(r.results)

LEMMA RunIsReported ==
    ASSUME QualityAssumption, NEW t, IsTable(t), NEW given, AreRules(given),
           NEW hints, IsHints(hints), NEW dict
    PROVE  IsReport(AnalyzeQuality(t, given, hints, dict))
<1> DEFINE config   == WithValidators(t, hints)
           left     == Dropped(t, config)
           results  == Results(left, RulesFor(t, given, hints))
           issues   == Issues(left, dict, Nullable(config, hints), hints)
           wanted   == Wanted(config, hints)
           accuracy == Accuracy(t, left, config, dict)
           rough    == Measure(left, wanted, Ran(results), issues)
           measures == [rough EXCEPT !.accuracy = accuracy]
           r == AnalyzeQuality(t, given, hints, dict)
<1>1. IsTable(left) /\ IsFiniteSet(DOMAIN left)
  BY RestIsTable, ColumnsOfTable
<1>2. AreResults(results)
  <2>1. AreRules(RulesFor(t, given, hints))
    BY RulesOfRun
  <2> HIDE DEF left
  <2> QED
    BY <1>1, <2>1, ResultsOfRules
<1>3. IsFiniteSet(issues)
  <2>1. IsFiniteSet(TextChecks)
    BY DEF QualityAssumption
  <2> HIDE DEF left, config
  <2> QED
    BY <1>1, <2>1, IssuesAreFinite
<1>4. measures \in Measures
  <2>2. accuracy \in Percent \cup {None}
    <3>1. \A c \in DOMAIN left : c \in DOMAIN t
      BY DEF Dropped
    <3> HIDE DEF left, config
    <3> QED
      BY <3>1, AccuracyIsPercent
  <2> HIDE DEF left, config, results, issues
  <2>1. AreResults(Ran(results))
    BY <1>2, SomeResults DEF Ran
  <2> HIDE DEF wanted, accuracy
  <2>3. rough \in Measures
    BY <1>1, <1>3, <2>1, MeasuredOfRun
  <2> HIDE DEF rough
  <2> QED
    BY <2>2, <2>3 DEF Measures, Always, Optional, Weighted, Carved
<1>5. r.results = results /\ r.measures = measures /\ r.score = Score(measures)
  BY DEF AnalyzeQuality
<1> HIDE DEF results, measures
<1>6. IsReport(r)
  <2> HIDE DEF r
  <2> QED
    BY <1>2, <1>4, <1>5 DEF IsReport
<1> QED
  BY <1>6

\* What the reports are made of.
QualityInv ==
    /\ table \in Tables /\ request \in Requests /\ saved \in Saved /\ regexes \in Patterns
    /\ \/ standard = NotRun
       \/ standard = AnalyzeQuality(table, request.rules, StandardHints, request.dict)
    /\ ai = NotRun \/ ai = AnalyzeQuality(table, {}, AIHints(table), request.dict)

LEMMA ReportsAreRuns == QualitySpec => []QualityInv
<1>1. QualityInit => QualityInv
  BY DEF QualityInit, QualityInv
<1>2. QualityInv /\ [QualityNext]_qualityVars => QualityInv'
  <2> SUFFICES ASSUME QualityInv, [QualityNext]_qualityVars
               PROVE  QualityInv'
    OBVIOUS
  <2>1. CASE Analyze
    BY <2>1 DEF Analyze, QualityInv, AIHints, StandardHints
  <2>2. CASE RerunQualityJson
    BY <2>2 DEF RerunQualityJson, QualityInv, AIHints, StandardHints
  <2>3. CASE UNCHANGED qualityVars
    BY <2>3 DEF qualityVars, QualityInv, AIHints, StandardHints
  <2> QED
    BY <2>1, <2>2, <2>3 DEF QualityNext, Reported
<1> QED
  BY <1>1, <1>2, PTL DEF QualitySpec

\* The hints of a Standard run.
LEMMA HintsOfStandard ==
    ASSUME QualityAssumption, IsTable(table), IsRequest(request), IsConfig(saved)
    PROVE  IsHints(StandardHints)
<1> DEFINE hints == IF request.hints.config = {} THEN [request.hints EXCEPT !.config = saved]
                    ELSE request.hints
<1>1. IsHints(hints)
  BY DEF IsRequest, IsHints, NoHints
<1>2. StandardHints = Augment(table, hints, request.pack)
  BY DEF StandardHints
<1> HIDE DEF hints
<1> QED
  BY <1>1, <1>2, AugmentedHints DEF IsRequest

LEMMA RunsAreReports ==
    ASSUME QualityAssumption, QualityInv
    PROVE  IsTable(table) /\ regexes \subseteq Columns /\ \A r \in Reports : IsReport(r)
<1>1. IsTable(table) /\ regexes \subseteq Columns /\ IsRequest(request) /\ IsConfig(saved)
  BY DEF QualityInv, QualityAssumption
<1>2. ASSUME standard # NotRun PROVE IsReport(standard)
  <2>1. IsHints(StandardHints) /\ AreRules(request.rules)
    BY <1>1, HintsOfStandard DEF IsRequest, AreRules
  <2>2. standard = AnalyzeQuality(table, request.rules, StandardHints, request.dict)
    BY <1>2 DEF QualityInv
  <2> QED
    BY <1>1, <2>1, <2>2, RunIsReported
<1>3. ASSUME ai # NotRun PROVE IsReport(ai)
  <2>1. IsHints(AIHints(table)) /\ AreRules({})
    BY <1>1, HintsOfAI, FS_EmptySet DEF AreRules
  <2>2. ai = AnalyzeQuality(table, {}, AIHints(table), request.dict)
    BY <1>3 DEF QualityInv
  <2> QED
    BY <1>1, <2>1, <2>2, RunIsReported
<1> QED
  BY <1>1, <1>2, <1>3 DEF Reports

\* For any files, requests and rules: whatever is run, every measure is a percentage or
\* missing, the score is between 0 and 100, and no rule passes and fails more than there is.
THEOREM QualityTypeCorrect == QualitySpec => []QualityTypeOK
<1> USE QualityAssumption
<1>1. QualityInv => QualityTypeOK
  <2> SUFFICES ASSUME QualityInv PROVE QualityTypeOK
    OBVIOUS
  <2>1. IsTable(table) /\ regexes \subseteq Columns /\ \A r \in Reports : IsReport(r)
    BY RunsAreReports
  <2>2. ASSUME NEW r \in Reports
        PROVE  /\ r.measures \in Measures /\ r.score \in 0..1000
               /\ \A x \in r.results : x.passed + x.failed <= x.total
    BY <2>1, ScoreInRange DEF IsReport, AreResults, Obeys
  <2> QED
    BY <2>1, <2>2 DEF QualityTypeOK
<1> QED
  BY <1>1, ReportsAreRuns, PTL

\* For any files, requests and rules: in every report, a dimension that gets better never
\* lowers the score, unless it is optional and leaves zero, and a perfect report of what
\* was measured scores a hundred percent (_dq_score).
THEOREM BetterCorrect == QualitySpec => []BetterDataScoresHigher
<1> USE QualityAssumption
<1>1. QualityInv => BetterDataScoresHigher
  <2> SUFFICES ASSUME QualityInv, NEW r \in Reports
               PROVE  LET m == r.measures IN
                      /\ \A d \in DOMAIN m, p \in {0, 50, 100} :
                            LET n == [m EXCEPT ![d] = p] IN
                            Improved(m, n) /\ ~LeavesZero(m, n) => Score(m) <= Score(n)
                      /\ Score([d \in DOMAIN m |-> IF m[d] = None THEN None ELSE 100]) = 1000
    BY DEF BetterDataScoresHigher
  <2> DEFINE m == r.measures
             full == [d \in DOMAIN m |-> IF m[d] = None THEN None ELSE 100]
  <2>1. m \in Measures
    BY RunsAreReports DEF IsReport
  <2> HIDE DEF m
  <2>2. ASSUME NEW d \in DOMAIN m, NEW p \in {0, 50, 100},
               Improved(m, [m EXCEPT ![d] = p]), ~LeavesZero(m, [m EXCEPT ![d] = p])
        PROVE  Score(m) <= Score([m EXCEPT ![d] = p])
    <3> DEFINE n == [m EXCEPT ![d] = p]
    <3>1. n \in Measures
      BY <2>1, NoneAssumption DEF Measures, Percent
    <3> HIDE DEF n
    <3>2. Improved(m, n) /\ ~LeavesZero(m, n)
      BY <2>2 DEF n
    <3>3. Score(m) <= Score(n)
      BY <2>1, <3>1, <3>2, ScoreMonotone
    <3> QED
      BY <3>3 DEF n
  <2>3. Score(full) = 1000
    <3>1. DOMAIN m = Always \cup Optional /\ \A d \in Always : m[d] # None
      BY <2>1, NoneAssumption DEF Measures, Percent
    <3>2. \A d \in Always \cup Optional : full[d] \in {100, None}
      BY <3>1
    <3>3. \A d \in Always : full[d] = 100
      BY <3>1
    <3>4. full \in [Always \cup Optional -> Percent \cup {None}]
      <4>1. 100 \in Percent
        BY DEF Percent
      <4>2. full \in [DOMAIN m -> Percent \cup {None}]
        BY <4>1
      <4> QED
        BY <3>1, <4>2
    <3>5. full \in Measures
      <4>1. 100 # None
        BY NoneAssumption
      <4> HIDE DEF full
      <4> QED
        BY <3>3, <3>4, <4>1 DEF Measures
    <3> HIDE DEF full
    <3> QED
      BY <3>2, <3>5, PerfectScore
  <2> QED
    BY <2>2, <2>3 DEF m
<1> QED
  BY <1>1, ReportsAreRuns, PTL

------------------------------------------------------------------------------
(* What a validator changes, and what it leaves. *)

\* Columns in which a unique rule is waived.
Waived(config) == {e.col : e \in {f \in config : f.allowDups /\ ~f.unique}}

\* An entry that a validator adds is of a column of the file, and does nothing else.
LEMMA EntryOfValidator ==
    ASSUME NEW t, NEW hints, NEW e \in WithValidators(t, hints), e \notin hints.config
    PROVE  /\ \E v \in hints.validators : e = Entry(v) /\ v.col = e.col /\ v.col \in DOMAIN t
           /\ ~e.exclude /\ ~e.allowDups /\ ~e.accuracy
           /\ e.mandatory = "unset" /\ e.checks = {}
  BY DEF WithValidators, Entry

\* So all but the rules depends on the settings without the validators.
LEMMA ValidatorsOnlyAddRules ==
    ASSUME NEW t, NEW hints, NEW u
    PROVE  LET config == WithValidators(t, hints) IN
           /\ Excluded(config) = Excluded(hints.config)
           /\ Nullable(config, hints) = Nullable(hints.config, hints)
           /\ Waived(config) = Waived(hints.config)
           /\ \A kind : Asked(config, hints, kind) = Asked(hints.config, hints, kind)
           /\ ByEntry(u, config) = ByEntry(u, hints.config)
<1> DEFINE config == WithValidators(t, hints)
<1>1. hints.config \subseteq config
  BY DEF WithValidators
<1>2. \A e \in config \ hints.config :
         ~e.exclude /\ ~e.allowDups /\ ~e.accuracy /\ e.mandatory = "unset" /\ e.checks = {}
  BY EntryOfValidator
<1> HIDE DEF config
<1>3. {f \in config : f.exclude} = {f \in hints.config : f.exclude}
  BY <1>1, <1>2
<1>4. {f \in config : f.mandatory = "no"} = {f \in hints.config : f.mandatory = "no"}
  BY <1>1, <1>2
<1>5. {f \in config : f.allowDups /\ ~f.unique} = {f \in hints.config : f.allowDups /\ ~f.unique}
  BY <1>1, <1>2
<1>6. \A kind : {f \in config : ~f.exclude /\ \E x \in f.checks : x.kind = kind}
                  = {f \in hints.config : ~f.exclude /\ \E x \in f.checks : x.kind = kind}
  BY <1>1, <1>2
<1>7. \A c : (\E e \in config : e.col = c /\ ~e.exclude /\ e.accuracy)
               <=> (\E e \in hints.config : e.col = c /\ ~e.exclude /\ e.accuracy)
  BY <1>1, <1>2
<1>8. Excluded(config) = Excluded(hints.config)
  BY <1>3 DEF Excluded
<1>9. Nullable(config, hints) = Nullable(hints.config, hints)
  BY <1>4 DEF Nullable
<1>10. Waived(config) = Waived(hints.config)
  BY <1>5 DEF Waived
<1>11. \A kind : Asked(config, hints, kind) = Asked(hints.config, hints, kind)
  BY <1>6 DEF Asked
<1>12. ByEntry(u, config) = ByEntry(u, hints.config)
  BY <1>7 DEF ByEntry
<1> QED
  BY <1>8, <1>9, <1>10, <1>11, <1>12 DEF config

\* A rule of an entry is about its column.
LEMMA EntryRuleColumn ==
    ASSUME NEW t, NEW nullable, NEW e, NEW r \in OfEntry(t, nullable, e)
    PROVE  r.col = e.col /\ e.col \in DOMAIN t
<1> DEFINE when(b, k, part) == IF b THEN {Rule(k, e.col, e.severity, None, <<e.at, part>>)} ELSE {}
           checks == {Rule(x.kind, e.col, e.severity, x.value, <<e.at, "check">>) : x \in e.checks}
<1>1. \A b, k, part : \A x \in when(b, k, part) : x.col = e.col
  BY DEF Rule
<1>2. \A x \in checks : x.col = e.col
  BY DEF Rule
<1>3. /\ e.col \in DOMAIN t
      /\ r \in when(e.mandatory = "yes" /\ e.col \notin nullable, "not_null", "mandatory")
               \cup when(e.unique, "unique", "unique") \cup checks
               \cup when(e.accuracy /\ CountIn(t[e.col], Contents \ {Empty}) > 0,
                       "allowed_values", "accuracy")
               \cup when(e.kind \notin {"auto", "range", "freshness_days", "completeness_pct",
                                      "decimal_places"}, e.kind, "kind")
  BY DEF OfEntry
<1> HIDE DEF when, checks
<1> QED
  BY <1>1, <1>2, <1>3

\* The rules of an entry depend on its column alone.
LEMMA EntryRulesOfColumn ==
    ASSUME NEW t, NEW u, NEW nullable, NEW e, e.col \in DOMAIN t, e.col \in DOMAIN u,
           t[e.col] = u[e.col]
    PROVE  OfEntry(t, nullable, e) = OfEntry(u, nullable, e)
  BY DEF OfEntry

\* Baseline rules are about their column.
LEMMA BaselineRuleColumn ==
    ASSUME NEW c, NEW s, NEW nullable, NEW waived, NEW r \in OfBaseline(c, s, nullable, waived)
    PROVE  r.col = c
<1> DEFINE when(b, k, sev) == IF b THEN {Rule(k, c, sev, None, <<0, "auto">>)} ELSE {}
           empty   == PercentOf(Empties(c, s), Len(s))
           card    == Cardinal(s)
           notNull == c \notin nullable /\ 0 < empty /\ empty <= 50
           unique  == card = "identifier" /\ c \notin waived
           values  == ~unique /\ c \in Objects /\ card = "low" /\ Distinct(s) \in 2..20
           format  == ~unique /\ ~values /\ ~notNull /\ Format(c) # None
           range   == ~(notNull \/ unique \/ values \/ format) /\ c \in Numerics /\ Distinct(s) > 1
           sev     == IF card = "identifier" THEN "critical" ELSE "major"
<1>1. \A b, k, sv : \A x \in when(b, k, sv) : x.col = c
  BY DEF Rule
<1>2. r \in when(notNull, "not_null", sev) \cup when(unique, "unique", "critical")
            \cup when(values, "observed_values", "major") \cup when(format, Format(c), "major")
            \cup when(range, "range", "minor")
  BY DEF OfBaseline
<1> HIDE DEF notNull, unique, values, format, range, sev, when
<1> QED
  BY <1>1, <1>2

\* The settings of a run, as rules.
SettingsRules(t, config, nullable) == UNION {OfEntry(t, nullable, e) : e \in config}

LEMMA RulesForCases ==
    ASSUME NEW t, NEW given, NEW hints
    PROVE  LET config   == WithValidators(t, hints)
               nullable == Nullable(config, hints)
               left     == Dropped(t, config)
               rules    == given \cup SettingsRules(t, config, nullable) \cup OfHints(left, hints)
           IN  RulesFor(t, given, hints) =
                 rules \cup UNION {OfBaseline(c, left[c], nullable, Waived(config)) :
                                      c \in {d \in DOMAIN left : \A r \in rules : r.col # d}}
  BY DEF RulesFor, Baseline, SettingsRules, Waived

LEMMA RuleOfResult ==
    ASSUME QualityAssumption, NEW t, IsTable(t), NEW rule
    PROVE  Result(t, rule).rule = rule
  BY ResultAnswers DEF Obeys

------------------------------------------------------------------------------
(* The floor of the AI run. *)

\* Nothing is left out, nullable or waived by hints with plain entries only.
LEMMA PlainHints ==
    ASSUME NEW t, IsTable(t), NEW hints, hints.nullable = {}, hints.bounds = {},
           \A e \in hints.config : ~e.exclude /\ ~e.allowDups /\ e.mandatory = "unset"
    PROVE  LET config == WithValidators(t, hints) IN
           /\ Nullable(config, hints) = {} /\ Waived(config) = {}
           /\ Dropped(t, config) = t
           /\ OfHints(t, hints) = {}
<1> DEFINE config == WithValidators(t, hints)
<1>1. Excluded(hints.config) = {} /\ Nullable(hints.config, hints) = {} /\ Waived(hints.config) = {}
  BY DEF Excluded, Nullable, Waived
<1>2. Excluded(config) = {} /\ Nullable(config, hints) = {} /\ Waived(config) = {}
  BY <1>1, ValidatorsOnlyAddRules
<1> HIDE DEF config
<1>3. t = [c \in DOMAIN t |-> t[c]]
  BY DEF IsTable
<1>4. Dropped(t, config) = [c \in DOMAIN t |-> t[c]]
  <2>1. DOMAIN t \ Excluded(config) = DOMAIN t
    BY <1>2
  <2> QED
    BY <2>1 DEF Dropped
<1>5. OfHints(t, hints) = {}
  BY DEF OfHints
<1> QED
  BY <1>2, <1>3, <1>4, <1>5 DEF config

\* Every rule of a plain Standard run on a column without a saved pattern is a rule of
\* the AI run.
LEMMA FloorOfRules ==
    ASSUME QualityAssumption, NEW t, IsTable(t),
           NEW r \in RulesFor(t, {}, Augment(t, NoHints, NoPack)), r.col \notin regexes
    PROVE  r \in RulesFor(t, {}, AIHints(t))
<1> DEFINE plain == Augment(t, NoHints, NoPack)
           hints == AIHints(t)
           patterns == {Entry([kind |-> "regex_format", col |-> c]) : c \in regexes}
           V == plain.validators
           C == WithValidators(t, plain)
           D == WithValidators(t, hints)
           P == SettingsRules(t, C, {})
           Q == SettingsRules(t, D, {})
<1>1. /\ plain.config = {} /\ plain.nullable = {} /\ plain.bounds = {}
  BY DEF Augment, NoHints, NoPack
<1>2. /\ hints.config = patterns /\ hints.validators = V
      /\ hints.nullable = {} /\ hints.bounds = {}
  BY DEF AIHints, NoHints
<1>3. \A e \in patterns : /\ ~e.exclude /\ ~e.allowDups /\ e.mandatory = "unset"
                          /\ e.col \in regexes
  BY DEF Entry
<1> HIDE DEF plain, hints, patterns, V
<1>4. Nullable(C, plain) = {} /\ Waived(C) = {} /\ Dropped(t, C) = t /\ OfHints(t, plain) = {}
  BY <1>1, PlainHints
<1>5. Nullable(D, hints) = {} /\ Waived(D) = {} /\ Dropped(t, D) = t /\ OfHints(t, hints) = {}
  BY <1>2, <1>3, PlainHints
<1>6. \A e : e.col \notin regexes => (e \in C <=> e \in D)
  <2>1. \A w : Entry(w).col = w.col
    BY DEF Entry
  <2>2. C = {Entry(v) : v \in {w \in V : w.col \in DOMAIN t}}
    BY <1>1 DEF WithValidators, V
  <2>3. D = patterns \cup {Entry(v) : v \in {w \in V : w.col \in DOMAIN t
                               /\ ~\E e \in patterns : e.col = w.col /\ e.kind = w.kind}}
    BY <1>2 DEF WithValidators
  <2> QED
    BY <1>3, <2>1, <2>2, <2>3
<1> HIDE DEF C, D
<1>7. \A x : x.col \notin regexes => (x \in P <=> x \in Q)
  BY <1>6, EntryRuleColumn DEF SettingsRules
<1>8. RulesFor(t, {}, plain) =
        P \cup UNION {OfBaseline(c, t[c], {}, {}) : c \in {d \in DOMAIN t : \A x \in P : x.col # d}}
  BY <1>4, RulesForCases DEF C
<1>9. RulesFor(t, {}, hints) =
        Q \cup UNION {OfBaseline(c, t[c], {}, {}) : c \in {d \in DOMAIN t : \A x \in Q : x.col # d}}
  BY <1>5, RulesForCases DEF D
<1> HIDE DEF P, Q
<1>10. r \in RulesFor(t, {}, plain)
  BY DEF plain
<1>11. CASE r \in P
  BY <1>7, <1>9, <1>11 DEF hints
<1>12. CASE r \notin P
  <2>1. PICK c \in DOMAIN t : (\A x \in P : x.col # c) /\ r \in OfBaseline(c, t[c], {}, {})
    BY <1>8, <1>10, <1>12
  <2>2. r.col = c
    BY <2>1, BaselineRuleColumn
  <2>3. \A x \in Q : x.col # c
    BY <1>7, <2>1, <2>2
  <2> QED
    BY <1>9, <2>1, <2>3 DEF hints
<1> QED
  BY <1>11, <1>12

\* For any file and any saved patterns: whatever a Standard run without input and without
\* saved settings flags on a column without a pattern, the AI run flags as well, since both compute the same
\* validators, and patterns take the baseline from their own columns only
\* (rerun_quality_json).
THEOREM FloorCorrect == QualitySpec => []AIKeepsTheFloor
<1> USE QualityAssumption
<1>1. QualityInv => AIKeepsTheFloor
  <2> SUFFICES ASSUME QualityInv, standard # NotRun, ai # NotRun, Plain, saved = {},
                      NEW f \in Flagged(standard), f.col \notin regexes
               PROVE  f \in Flagged(ai)
    BY DEF AIKeepsTheFloor
  <2> DEFINE R == RulesFor(table, {}, Augment(table, NoHints, NoPack))
             S == RulesFor(table, {}, AIHints(table))
             asked(X) == {x \in X : x.kind \notin CrossKinds \/ Height(table) > 0}
  <2>1. IsTable(table)
    BY DEF QualityInv, QualityAssumption
  <2>2. standard.results = Results(table, R)
    <3> DEFINE hints == Augment(table, NoHints, NoPack)
    <3>1. hints.config = {} /\ hints.nullable = {} /\ hints.bounds = {}
      BY DEF Augment, NoHints, NoPack
    <3>2. standard = AnalyzeQuality(table, {}, hints, request.dict)
      <4>1. StandardHints = hints
        <5>1. request.hints = NoHints /\ request.pack = NoPack
          BY DEF Plain
        <5>2. NoHints.config = {} /\ [NoHints EXCEPT !.config = NoHints.config] = NoHints
          BY DEF NoHints
        <5>3. StandardHints = Augment(table, IF NoHints.config = {}
                                             THEN [NoHints EXCEPT !.config = saved]
                                             ELSE NoHints, NoPack)
          BY <5>1 DEF StandardHints
        <5> QED
          BY <5>2, <5>3
      <4> QED
        BY <4>1 DEF QualityInv, Plain
    <3> HIDE DEF hints
    <3>3. Dropped(table, WithValidators(table, hints)) = table
      BY <2>1, <3>1, PlainHints
    <3>4. standard.results = Results(table, RulesFor(table, {}, hints))
      BY <3>2, <3>3 DEF AnalyzeQuality
    <3> QED
      BY <3>4 DEF hints
  <2>3. ai.results = Results(table, S)
    <3> DEFINE hints == AIHints(table)
    <3>1. hints.nullable = {} /\ hints.bounds = {}
      BY DEF AIHints, NoHints
    <3>2. \A e \in hints.config : ~e.exclude /\ ~e.allowDups /\ e.mandatory = "unset"
      BY DEF AIHints, NoHints, Entry
    <3>3. ai = AnalyzeQuality(table, {}, hints, request.dict)
      BY DEF QualityInv
    <3> HIDE DEF hints
    <3>4. Dropped(table, WithValidators(table, hints)) = table
      BY <2>1, <3>1, <3>2, PlainHints
    <3>5. ai.results = Results(table, RulesFor(table, {}, hints))
      BY <3>3, <3>4 DEF AnalyzeQuality
    <3> QED
      BY <3>5 DEF hints
  <2>4. PICK x \in standard.results :
          x.status \in {"WARN", "FAIL"} /\ f = [kind |-> x.rule.kind, col |-> x.rule.col]
    BY DEF Flagged
  <2>5. PICK r \in asked(R) : x = Result(table, r)
    BY <2>2, <2>4 DEF Results
  <2>6. x.rule = r /\ f.col = r.col
    BY <2>1, <2>4, <2>5, RuleOfResult
  <2>7. r \in asked(S)
    BY <2>1, <2>5, <2>6, FloorOfRules
  <2>8. x \in ai.results
    BY <2>3, <2>5, <2>7 DEF Results
  <2> QED
    BY <2>4, <2>8 DEF Flagged
<1> QED
  BY <1>1, ReportsAreRuns, PTL

------------------------------------------------------------------------------
(* Excluded columns. *)

\* The file without the columns the settings exclude is what a run keeps, of either file.
LEMMA SameRest ==
    ASSUME NEW t, NEW hints,
           NEW rest, rest = [c \in DOMAIN t \ Excluded(hints.config) |-> t[c]]
    PROVE  /\ Dropped(t, WithValidators(t, hints)) = rest
           /\ Dropped(rest, WithValidators(rest, hints)) = rest
<1> DEFINE gone == Excluded(hints.config)
<1>1. /\ Excluded(WithValidators(t, hints)) = gone
      /\ Excluded(WithValidators(rest, hints)) = gone
  BY ValidatorsOnlyAddRules
<1> HIDE DEF gone
<1>2. rest = [c \in DOMAIN t \ gone |-> t[c]]
  BY DEF gone
<1>3. DOMAIN rest \ gone = DOMAIN rest /\ rest = [c \in DOMAIN rest |-> rest[c]]
  BY <1>2
<1> QED
  BY <1>1, <1>2, <1>3 DEF Dropped

\* Excluded columns add no rules but some on themselves.
LEMMA RulesOfRest ==
    ASSUME QualityAssumption, NEW t, IsTable(t), NEW given, NEW hints,
           NEW rest, rest = [c \in DOMAIN t \ Excluded(hints.config) |-> t[c]],
           NEW r
    PROVE  /\ r \in RulesFor(rest, given, hints) => r \in RulesFor(t, given, hints)
           /\ r \in RulesFor(t, given, hints) /\ r \notin RulesFor(rest, given, hints)
                 => r.col \notin DOMAIN rest /\ r.col # None
<1> DEFINE C == WithValidators(t, hints)
           D == WithValidators(rest, hints)
           N == Nullable(hints.config, hints)
           W == Waived(hints.config)
           P == SettingsRules(t, C, N)
           Q == SettingsRules(rest, D, N)
           H == OfHints(rest, hints)
           own(c) == OfBaseline(c, rest[c], N, W)
<1>1. Nullable(C, hints) = N /\ Waived(C) = W /\ Nullable(D, hints) = N /\ Waived(D) = W
  BY ValidatorsOnlyAddRules
<1>2. /\ DOMAIN rest \subseteq DOMAIN t
      /\ \A c \in DOMAIN rest : rest[c] = t[c]
  OBVIOUS
<1>3. Dropped(t, C) = rest /\ Dropped(rest, D) = rest
  BY SameRest
<1>4. \A e : e.col \in DOMAIN rest => (e \in C <=> e \in D)
  <2>1. \A w : Entry(w).col = w.col
    BY DEF Entry
  <2> QED
    BY <1>2, <2>1 DEF WithValidators
<1> HIDE DEF C, D, N, W
<1>5. \A x : x.col \in DOMAIN rest => (x \in P <=> x \in Q)
  <2> SUFFICES ASSUME NEW x, x.col \in DOMAIN rest PROVE x \in P <=> x \in Q
    OBVIOUS
  <2>1. ASSUME x \in P PROVE x \in Q
    <3>1. PICK e \in C : x \in OfEntry(t, N, e)
      BY <2>1 DEF SettingsRules
    <3>2. e.col = x.col
      BY <3>1, EntryRuleColumn
    <3>3. OfEntry(t, N, e) = OfEntry(rest, N, e)
      BY <1>2, <3>2, EntryRulesOfColumn
    <3> QED
      BY <1>4, <3>1, <3>2, <3>3 DEF SettingsRules
  <2>2. ASSUME x \in Q PROVE x \in P
    <3>1. PICK e \in D : x \in OfEntry(rest, N, e)
      BY <2>2 DEF SettingsRules
    <3>2. e.col = x.col
      BY <3>1, EntryRuleColumn
    <3>3. OfEntry(t, N, e) = OfEntry(rest, N, e)
      BY <1>2, <3>2, EntryRulesOfColumn
    <3> QED
      BY <1>4, <3>1, <3>2, <3>3 DEF SettingsRules
  <2> QED
    BY <2>1, <2>2
<1>6. \A x \in Q : x.col \in DOMAIN rest
  <2> TAKE x \in Q
  <2>1. PICK e \in D : x \in OfEntry(rest, N, e)
    BY DEF SettingsRules
  <2> QED
    BY <2>1, EntryRuleColumn
<1>7. \A x \in P : x.col \in DOMAIN t
  <2> TAKE x \in P
  <2>1. PICK e \in C : x \in OfEntry(t, N, e)
    BY DEF SettingsRules
  <2> QED
    BY <2>1, EntryRuleColumn
<1>8. None \notin DOMAIN t
  BY NoneAssumption DEF IsTable, QualityAssumption
<1>9. RulesFor(t, given, hints) =
        (given \cup P \cup H) \cup
        UNION {own(c) : c \in {d \in DOMAIN rest : \A x \in given \cup P \cup H : x.col # d}}
  BY <1>1, <1>3, RulesForCases DEF C
<1>10. RulesFor(rest, given, hints) =
        (given \cup Q \cup H) \cup
        UNION {own(c) : c \in {d \in DOMAIN rest : \A x \in given \cup Q \cup H : x.col # d}}
  BY <1>1, <1>3, RulesForCases DEF D
<1> HIDE DEF P, Q, H, own
<1>11. {d \in DOMAIN rest : \A x \in given \cup P \cup H : x.col # d}
         = {d \in DOMAIN rest : \A x \in given \cup Q \cup H : x.col # d}
  BY <1>5
<1>12. r \in RulesFor(t, given, hints) <=> r \in RulesFor(rest, given, hints) \/ r \in P
  BY <1>5, <1>6, <1>9, <1>10, <1>11
<1>13. r \in P => r \in Q \/ (r.col \notin DOMAIN rest /\ r.col # None)
  BY <1>5, <1>7, <1>8
<1> QED
  BY <1>10, <1>12, <1>13

\* A rule on a column that is not there is skipped.
LEMMA RuleOfNoColumn ==
    ASSUME NEW t, NEW rule, rule.col # None, rule.col \notin DOMAIN t
    PROVE  Result(t, rule).skipped
<1>1. CASE rule.kind \in CrossKinds
  <2>1. ~({rule.col, rule.other} \subseteq DOMAIN t)
    OBVIOUS
  <2> QED
    BY <1>1, <2>1 DEF Result, ApplyCross, Skipped
<1>2. CASE rule.kind \notin CrossKinds
  BY <1>2 DEF Result, Skipped
<1> QED
  BY <1>1, <1>2

LEMMA RanOfRest ==
    ASSUME QualityAssumption, NEW t, IsTable(t), NEW given, NEW hints,
           NEW rest, rest = [c \in DOMAIN t \ Excluded(hints.config) |-> t[c]]
    PROVE  Ran(Results(rest, RulesFor(t, given, hints)))
             = Ran(Results(rest, RulesFor(rest, given, hints)))
<1> DEFINE R == RulesFor(t, given, hints)
           S == RulesFor(rest, given, hints)
<1>1. S \subseteq R
  BY RulesOfRest
<1>2. \A r \in R \ S : Result(rest, r).skipped
  <2> TAKE r \in R \ S
  <2>1. r.col \notin DOMAIN rest /\ r.col # None
    BY RulesOfRest
  <2> QED
    BY <2>1, RuleOfNoColumn
<1> HIDE DEF R, S
<1> QED
  BY <1>1, <1>2 DEF Ran, Results, R, S

\* The validators that a file adds to the settings change nothing of what is measured.
LEMMA WantedOfValidators ==
    ASSUME NEW t, NEW u, NEW hints
    PROVE  Wanted(WithValidators(t, hints), hints) = Wanted(WithValidators(u, hints), hints)
<1> DEFINE C == WithValidators(t, hints)
           D == WithValidators(u, hints)
<1>1. /\ Nullable(C, hints) = Nullable(hints.config, hints)
      /\ \A kind : Asked(C, hints, kind) = Asked(hints.config, hints, kind)
  BY ValidatorsOnlyAddRules
<1>2. /\ Nullable(D, hints) = Nullable(hints.config, hints)
      /\ \A kind : Asked(D, hints, kind) = Asked(hints.config, hints, kind)
  BY ValidatorsOnlyAddRules
<1> HIDE DEF C, D
<1>3. Asked(C, hints, "decimal_places") = Asked(D, hints, "decimal_places")
  BY <1>1, <1>2
<1>4. Asked(C, hints, "freshness_days") = Asked(D, hints, "freshness_days")
  BY <1>1, <1>2
<1>5. Wanted(C, hints) = Wanted(D, hints)
  BY <1>1, <1>2, <1>3, <1>4 DEF Wanted
<1> QED
  BY <1>5 DEF C, D

\* The accuracy of a file and of what is left of it are the same, unless another entry of
\* the settings compares a column that one excludes.
LEMMA AccuracyOfRest ==
    ASSUME NEW t, NEW hints, NEW dict,
           NEW rest, rest = [c \in DOMAIN t \ Excluded(hints.config) |-> t[c]],
           ByEntry(t, hints.config) \cap Excluded(hints.config) = {}
    PROVE  Accuracy(t, rest, WithValidators(t, hints), dict)
             = Accuracy(rest, rest, WithValidators(rest, hints), dict)
<1> DEFINE C == WithValidators(t, hints)
           D == WithValidators(rest, hints)
           gone  == Excluded(hints.config)
           known == ByEntry(t, C) \cup ByDictionary(rest, dict)
           same  == ByEntry(rest, D) \cup ByDictionary(rest, dict)
<1>1. /\ ByEntry(t, C) = ByEntry(t, hints.config)
      /\ ByEntry(rest, D) = ByEntry(rest, hints.config)
  BY ValidatorsOnlyAddRules
<1>2. DOMAIN rest = DOMAIN t \ gone /\ \A c \in DOMAIN rest : rest[c] = t[c]
  OBVIOUS
<1> HIDE DEF C, D, gone
<1>3. ByEntry(t, hints.config) = ByEntry(rest, hints.config)
  BY <1>2 DEF ByEntry, Present, gone
<1>4. known = same
  BY <1>1, <1>3
<1>5. \A c \in same : c \in DOMAIN rest
  BY DEF ByEntry, ByDictionary
<1>6. /\ Accuracy(t, rest, C, dict) = IfAny([c \in known |-> Right(t[c])], known)
      /\ Accuracy(rest, rest, D, dict) = IfAny([c \in same |-> Right(rest[c])], same)
  BY DEF Accuracy
<1> HIDE DEF known, same
<1>7. [c \in known |-> Right(t[c])] = [c \in same |-> Right(rest[c])]
  BY <1>2, <1>4, <1>5
<1> QED
  BY <1>4, <1>6, <1>7 DEF C, D

\* For any file and request: what a run answers, finds, measures and scores per column is
\* what it would of a file that never had the excluded columns, unless the accuracy of one
\* is measured for another entry of the settings (analyze_quality).
THEOREM ExcludedCorrect == QualitySpec => []ExcludedPlayNoPart
<1> USE QualityAssumption
<1>1. QualityInv => ExcludedPlayNoPart
  <2> SUFFICES ASSUME QualityInv, standard # NotRun PROVE ExcludedPlayNoPart
    BY DEF ExcludedPlayNoPart
  <2> DEFINE hints == StandardHints
             gone  == Excluded(hints.config)
             rest  == [c \in DOMAIN table \ gone |-> table[c]]
             other == AnalyzeQuality(rest, request.rules, hints, request.dict)
             C == WithValidators(table, hints)
             D == WithValidators(rest, hints)
             found == Issues(rest, request.dict, Nullable(hints.config, hints), hints)
             measured(X, acc) ==
                 [Measure(rest, Wanted(C, hints), X, found) EXCEPT !.accuracy = acc]
             a == Accuracy(table, rest, C, request.dict)
             b == Accuracy(rest, rest, D, request.dict)
             R == Results(rest, RulesFor(table, request.rules, hints))
             S == Results(rest, RulesFor(rest, request.rules, hints))
  <2>1. IsTable(table)
    BY DEF QualityInv, QualityAssumption
  <2>2. standard = AnalyzeQuality(table, request.rules, hints, request.dict)
    BY DEF QualityInv
  <2> HIDE DEF hints
  <2>3. Dropped(table, C) = rest /\ Dropped(rest, D) = rest
    BY SameRest
  <2>4. Nullable(C, hints) = Nullable(hints.config, hints)
        /\ Nullable(D, hints) = Nullable(hints.config, hints)
    BY ValidatorsOnlyAddRules
  <2>5. Ran(R) = Ran(S)
    BY <2>1, RanOfRest
  <2>6. /\ Wanted(D, hints) = Wanted(C, hints)
        /\ ByEntry(table, hints.config) \cap gone = {} => a = b
    BY WantedOfValidators, AccuracyOfRest
  <2> HIDE DEF rest
  <2>7. /\ standard.results = R /\ standard.issues = found
        /\ standard.measures = measured(Ran(R), a)
        /\ standard.columns = [c \in DOMAIN rest |-> SubScore(rest, c, Ran(R))]
    BY <2>2, <2>3, <2>4 DEF AnalyzeQuality
  <2>8. /\ other.results = S /\ other.issues = found
        /\ other.measures = measured(Ran(S), b)
        /\ other.columns = [c \in DOMAIN rest |-> SubScore(rest, c, Ran(S))]
    BY <2>3, <2>4, <2>6 DEF AnalyzeQuality
  <2> HIDE DEF other, R, S, found, a, b
  <2>9. /\ [standard.measures EXCEPT !.accuracy = None] = [other.measures EXCEPT !.accuracy = None]
        /\ ByEntry(table, hints.config) \cap gone = {} => standard.measures = other.measures
    <3> DEFINE m == Measure(rest, Wanted(C, hints), Ran(R), found)
    <3>1. standard.measures = [m EXCEPT !.accuracy = a] /\ other.measures = [m EXCEPT !.accuracy = b]
      BY <2>5, <2>7, <2>8
    <3> HIDE DEF m
    <3> QED
      BY <2>6, <3>1
  <2>10. standard.columns = other.columns
    BY <2>5, <2>7, <2>8
  <2>11. Ran(standard.results) = Ran(other.results)
    BY <2>5, <2>7, <2>8
  <2>12. standard.issues = other.issues
    BY <2>7, <2>8
  <2> QED
    BY <2>9, <2>10, <2>11, <2>12 DEF ExcludedPlayNoPart, other, rest, gone, hints
<1> QED
  BY <1>1, ReportsAreRuns, PTL

==============================================================================
