---------------------------- MODULE SearchProofs ----------------------------
(***************************************************************************)
(* Proofs about Search, for every set of requests, workers and skies.      *)
(***************************************************************************)
EXTENDS Search, ListLemmas

-----------------------------------------------------------------------------
(***************************************************************************)
(* Largest and smallest                                                    *)
(***************************************************************************)
\* A finite set of numbers has a largest.
LEMMA MaxOf ==
  ASSUME NEW T, T \subseteq Int, IsFiniteSet(T), T # {}
  PROVE  Max(T) \in T /\ \A y \in T : y <= Max(T)
<1> DEFINE above(x) == {y \in T : y > x}
           sizes == {Cardinality(above(x)) : x \in T}
<1>1. ASSUME NEW x \in T
      PROVE  IsFiniteSet(above(x)) /\ Cardinality(above(x)) \in Nat
  BY FS_Subset, FS_CardinalityType
<1>2. sizes \subseteq Nat /\ sizes # {}
  BY <1>1
<1>3. PICK n \in sizes : \A m \in sizes : n <= m
  BY <1>2, LeastNat
<1>4. PICK x \in T : n = Cardinality(above(x))
  OBVIOUS
<1>5. ASSUME NEW y \in T, y > x
      PROVE  FALSE
  <2>1. above(y) \subseteq above(x) /\ y \in above(x) /\ y \notin above(y)
    <3>1. x \in Int /\ y \in Int /\ y \in T /\ y > x
      BY <1>5
    <3>2. \A z \in T : z \in Int /\ (z > y => z > x)
      BY <3>1
    <3>3. ~(y > y)
      BY <3>1
    <3> QED
      BY <3>1, <3>2, <3>3
  <2>2. IsFiniteSet(above(x)) /\ Cardinality(above(x)) \in Nat /\ Cardinality(above(y)) \in Nat
    BY <1>1
  <2> HIDE DEF above
  <2>3. Cardinality(above(y)) < Cardinality(above(x))
    BY <2>1, <2>2, FS_Subset
  <2>4. Cardinality(above(y)) \in sizes
    OBVIOUS
  <2>5. n <= Cardinality(above(y))
    BY <1>3, <2>4
  <2> QED
    BY <1>4, <2>2, <2>3, <2>5
<1>6. \A y \in T : x >= y
  <2> TAKE y \in T
  <2>1. ~(y > x) /\ x \in Int /\ y \in Int
    BY <1>5
  <2> QED
    BY <2>1
<1>7. Max(T) \in T /\ \A y \in T : Max(T) >= y
  BY <1>6 DEF Max
<1>8. Max(T) \in Int
  BY <1>7
<1> QED
  BY <1>7, <1>8

\* It is the only one that is as large as the others.
LEMMA MaxIs ==
  ASSUME NEW T, T \subseteq Int, NEW x \in T, \A y \in T : y <= x
  PROVE  Max(T) = x
<1>1. \A y \in T : x >= y
  OBVIOUS
<1>2. Max(T) \in T /\ \A y \in T : Max(T) >= y
  BY <1>1 DEF Max
<1>3. Max(T) >= x /\ Max(T) <= x /\ Max(T) \in Int /\ x \in Int
  BY <1>2
<1> QED
  BY <1>3

\* Of two.
LEMMA MaxMin ==
  ASSUME NEW a \in Int, NEW b \in Int
  PROVE  /\ Max({a, b}) = IF a <= b THEN b ELSE a
         /\ Min({a, b}) = IF a <= b THEN a ELSE b
<1>1. Max({a, b}) = IF a <= b THEN b ELSE a
  <2>1. CASE a <= b
    BY <2>1, MaxIs
  <2>2. CASE ~(a <= b)
    BY <2>2, MaxIs
  <2> QED
    BY <2>1, <2>2
<1>2. Min({a, b}) = IF a <= b THEN a ELSE b
  <2> DEFINE x == IF a <= b THEN a ELSE b
  <2>1. x \in {a, b} /\ \A y \in {a, b} : x <= y
    OBVIOUS
  <2> HIDE DEF x
  <2>2. Min({a, b}) \in {a, b} /\ \A y \in {a, b} : Min({a, b}) <= y
    BY <2>1 DEF Min
  <2>3. Min({a, b}) <= x /\ x <= Min({a, b})
    BY <2>1, <2>2
  <2>4. x \in Int /\ Min({a, b}) \in Int
    BY <2>1, <2>2
  <2>5. Min({a, b}) = x
    BY <2>3, <2>4
  <2> QED
    BY <2>5 DEF x
<1> QED
  BY <1>1, <1>2

\* The values of a function on a finite set are finitely many.
LEMMA ValuesFinite ==
  ASSUME NEW f, NEW S, IsFiniteSet(S)
  PROVE  IsFiniteSet({f[x] : x \in S})
<1> DEFINE h == [x \in S |-> f[x]]
<1>1. h \in Surjection(S, {f[x] : x \in S})
  BY DEF Surjection
<1> QED
  BY <1>1, FS_Surjection

-----------------------------------------------------------------------------
(***************************************************************************)
(* Median and deviation                                                    *)
(***************************************************************************)
\* The positions of the samples below x, and of those up to it.
Under(s, x) == {i \in DOMAIN s : s[i] < x}
AtMost(s, x) == {i \in DOMAIN s : s[i] <= x}

LEMMA UnderFinite ==
  ASSUME NEW s \in Seq(Int), NEW x \in Int
  PROVE  /\ IsFiniteSet(Under(s, x)) /\ Cardinality(Under(s, x)) \in Nat
         /\ IsFiniteSet(AtMost(s, x)) /\ Cardinality(AtMost(s, x)) \in Nat
         /\ IsFiniteSet(DOMAIN s) /\ Cardinality(DOMAIN s) = Len(s)
         /\ Under(s, x) \subseteq AtMost(s, x) /\ AtMost(s, x) \subseteq DOMAIN s
         /\ \A y \in Int : y <= x => /\ AtMost(s, y) \subseteq AtMost(s, x)
                                     /\ Cardinality(AtMost(s, y)) <= Cardinality(AtMost(s, x))
         /\ \A y \in Int : y < x => /\ AtMost(s, y) \subseteq Under(s, x)
                                    /\ Cardinality(AtMost(s, y)) <= Cardinality(Under(s, x))
<1>1. /\ DOMAIN s = 1 .. Len(s) /\ Len(s) \in Nat /\ \A i \in DOMAIN s : s[i] \in Int
  OBVIOUS
<1>2. IsFiniteSet(DOMAIN s) /\ Cardinality(DOMAIN s) = Len(s)
  BY <1>1, FS_Interval
<1>3. Under(s, x) \subseteq AtMost(s, x) /\ AtMost(s, x) \subseteq DOMAIN s
  BY <1>1 DEF Under, AtMost
<1>4. /\ IsFiniteSet(Under(s, x)) /\ Cardinality(Under(s, x)) \in Nat
      /\ IsFiniteSet(AtMost(s, x)) /\ Cardinality(AtMost(s, x)) \in Nat
  <2>1. Under(s, x) \in SUBSET DOMAIN s /\ AtMost(s, x) \in SUBSET DOMAIN s
    BY <1>3
  <2> QED
    BY <1>2, <2>1, FS_Subset, FS_CardinalityType
<1>5. ASSUME NEW y \in Int, y <= x
      PROVE  /\ AtMost(s, y) \subseteq AtMost(s, x)
             /\ Cardinality(AtMost(s, y)) <= Cardinality(AtMost(s, x))
  <2>1. AtMost(s, y) \in SUBSET AtMost(s, x)
    BY <1>1, <1>5 DEF AtMost
  <2> QED
    BY <1>4, <2>1, FS_Subset
<1>6. ASSUME NEW y \in Int, y < x
      PROVE  /\ AtMost(s, y) \subseteq Under(s, x)
             /\ Cardinality(AtMost(s, y)) <= Cardinality(Under(s, x))
  <2>1. AtMost(s, y) \in SUBSET Under(s, x)
    BY <1>1, <1>6 DEF AtMost, Under
  <2> QED
    BY <1>4, <2>1, FS_Subset
<1> QED
  BY <1>2, <1>3, <1>4, <1>5, <1>6

\* The k-th sample has fewer than k below it and, with itself, at least k up to it.
LEMMA KthIs ==
  ASSUME NEW s \in Seq(Int), NEW k \in 1 .. Len(s)
  PROVE  /\ Kth(s, k) \in ToSet(s) /\ Kth(s, k) \in Int
         /\ Cardinality(Under(s, Kth(s, k))) < k /\ Cardinality(AtMost(s, Kth(s, k))) >= k
<1>1. ToSet(s) \subseteq Int /\ IsFiniteSet(ToSet(s))
  BY ListRange
<1>2. DOMAIN s = 1 .. Len(s) /\ Len(s) \in Nat /\ \A i \in DOMAIN s : s[i] \in Int /\ s[i] \in ToSet(s)
  <2>1. DOMAIN s = 1 .. Len(s) /\ Len(s) \in Nat /\ \A i \in DOMAIN s : s[i] \in Int
    OBVIOUS
  <2> QED
    BY <2>1 DEF ToSet
<1> DEFINE R == {x \in ToSet(s) : Cardinality(AtMost(s, x)) >= k}
           sizes == {Cardinality(Under(s, x)) : x \in R}
<1>3. R # {}
  <2>1. ToSet(s) # {}
    BY <1>2
  <2>2. PICK x \in ToSet(s) : \A y \in ToSet(s) : y <= x
    BY <1>1, <2>1, MaxOf
  <2>3. AtMost(s, x) = DOMAIN s
    BY <1>2, <2>2 DEF AtMost
  <2>4. Cardinality(AtMost(s, x)) = Len(s)
    BY <2>3, <1>1, <2>2, UnderFinite
  <2>5. Cardinality(AtMost(s, x)) >= k
    BY <1>2, <2>4
  <2> QED
    BY <2>2, <2>5
<1>4. sizes \subseteq Nat /\ sizes # {}
  <2>1. \A x \in R : x \in Int
    BY <1>1
  <2>2. \A x \in R : Cardinality(Under(s, x)) \in Nat
    BY <2>1, UnderFinite
  <2> HIDE DEF R
  <2> QED
    BY <1>3, <2>2
<1>5. PICK n \in sizes : \A j \in sizes : n <= j
  BY <1>4, LeastNat
<1>6. PICK x \in R : n = Cardinality(Under(s, x))
  OBVIOUS
<1>7. x \in Int /\ x \in ToSet(s) /\ Cardinality(AtMost(s, x)) >= k
  BY <1>1
<1>8. Cardinality(Under(s, x)) < k
  <2> SUFFICES ASSUME ~(Cardinality(Under(s, x)) < k) PROVE FALSE
    OBVIOUS
  <2> DEFINE below == {y \in ToSet(s) : y < x}
  <2>0. Cardinality(Under(s, x)) \in Nat /\ Cardinality(Under(s, x)) >= k
    <3>1. Cardinality(Under(s, x)) \in Nat
      BY <1>7, UnderFinite
    <3> QED
      BY <3>1
  <2>1. Under(s, x) # {}
    <3> SUFFICES ASSUME Under(s, x) = {} PROVE FALSE
      OBVIOUS
    <3>1. Cardinality(Under(s, x)) = 0
      BY FS_EmptySet
    <3>2. ~(0 >= k)
      BY <1>2
    <3> QED
      BY <2>0, <3>1, <3>2
  <2>2. below # {} /\ below \subseteq Int /\ IsFiniteSet(below)
    <3>1. below \in SUBSET ToSet(s)
      OBVIOUS
    <3>2. below # {}
      BY <1>2, <2>1 DEF Under
    <3> QED
      BY <1>1, <3>1, <3>2, FS_Subset
  <2>3. PICK y \in below : \A z \in below : z <= y
    BY <2>2, MaxOf
  <2>4. y \in Int /\ y < x /\ y \in ToSet(s)
    BY <2>2
  <2>5. Under(s, x) \subseteq AtMost(s, y)
    BY <1>2, <2>3 DEF Under, AtMost
  <2>6. AtMost(s, y) = Under(s, x)
    BY <1>7, <2>4, <2>5, UnderFinite
  <2>7. y \in R
    BY <2>0, <2>4, <2>6
  <2>8. Cardinality(Under(s, y)) < Cardinality(AtMost(s, y))
    <3>1. PICK i \in DOMAIN s : s[i] = y
      BY <2>4 DEF ToSet
    <3>2. i \in AtMost(s, y) /\ i \notin Under(s, y)
      BY <2>4, <3>1 DEF Under, AtMost
    <3>3. /\ Under(s, y) \in SUBSET AtMost(s, y) /\ IsFiniteSet(AtMost(s, y))
          /\ Cardinality(Under(s, y)) \in Nat /\ Cardinality(AtMost(s, y)) \in Nat
      BY <2>4, UnderFinite
    <3>4. Cardinality(Under(s, y)) <= Cardinality(AtMost(s, y))
          /\ Cardinality(Under(s, y)) # Cardinality(AtMost(s, y))
      BY <3>2, <3>3, FS_Subset
    <3> QED
      BY <3>3, <3>4
  <2>9. n <= Cardinality(Under(s, y))
    BY <1>5, <2>7
  <2>10. Cardinality(Under(s, y)) \in Nat
    BY <2>4, UnderFinite
  <2> QED
    BY <1>6, <2>0, <2>6, <2>8, <2>9, <2>10
<1>9. \E z \in ToSet(s) : /\ Cardinality({i \in DOMAIN s : s[i] < z}) < k
                          /\ Cardinality({i \in DOMAIN s : s[i] <= z}) >= k
  BY <1>7, <1>8 DEF Under, AtMost
<1>10. /\ Kth(s, k) \in ToSet(s)
       /\ Cardinality({i \in DOMAIN s : s[i] < Kth(s, k)}) < k
       /\ Cardinality({i \in DOMAIN s : s[i] <= Kth(s, k)}) >= k
  BY <1>9 DEF Kth
<1> QED
  BY <1>1, <1>10 DEF Under, AtMost

\* Half of the samples lie up to the median, and half from it.
LEMMA MedianHalves ==
  ASSUME NEW s \in Seq(Int), s # <<>>
  PROVE  /\ Median(s) \in Int
         /\ Len(s) <= 2 * Cardinality(AtMost(s, Median(s)))
         /\ Len(s) <= 2 * Cardinality(DOMAIN s \ Under(s, Median(s)))
<1>1. PICK n \in Nat \ {0} : n = Len(s)
  OBVIOUS
<1>2. ASSUME NEW m \in Int
      PROVE  Cardinality(DOMAIN s \ Under(s, m)) = n - Cardinality(Under(s, m))
             /\ Cardinality(Under(s, m)) \in Nat /\ Cardinality(AtMost(s, m)) \in Nat
  <2>1. /\ IsFiniteSet(DOMAIN s) /\ Cardinality(DOMAIN s) = n /\ Under(s, m) \subseteq DOMAIN s
        /\ Cardinality(Under(s, m)) \in Nat /\ Cardinality(AtMost(s, m)) \in Nat
    BY <1>1, UnderFinite
  <2>2. DOMAIN s \cap Under(s, m) = Under(s, m)
    BY <2>1
  <2> QED
    BY <2>1, <2>2, FS_Difference
<1>3. CASE n % 2 = 1
  <2>1. PICK k \in 1 .. n : k = (n + 1) \div 2 /\ n + 1 = 2 * k
    <3>1. (n + 1) \div 2 \in 1 .. n /\ n + 1 = 2 * ((n + 1) \div 2)
      BY <1>3
    <3> QED
      BY <3>1
  <2>2. Median(s) = Kth(s, k)
    BY <1>1, <1>3, <2>1 DEF Median
  <2>3. PICK m \in Int : m = Kth(s, k) /\ Cardinality(Under(s, m)) < k /\ Cardinality(AtMost(s, m)) >= k
    BY <1>1, KthIs
  <2>4. PICK u \in Nat, v \in Nat : u = Cardinality(Under(s, m)) /\ v = Cardinality(AtMost(s, m))
    BY <1>2
  <2>5. Cardinality(DOMAIN s \ Under(s, m)) = n - u
    BY <1>2, <2>4
  <2>6. u < k /\ v >= k
    BY <2>3, <2>4
  <2>7. n <= 2 * v /\ n <= 2 * (n - u)
    BY <2>1, <2>6
  <2> QED
    BY <1>1, <2>2, <2>3, <2>4, <2>5, <2>7
<1>4. CASE n % 2 # 1
  <2>1. PICK k \in 1 .. n : k = n \div 2 /\ n = 2 * k /\ k + 1 \in 1 .. n
    <3>1. n \div 2 \in 1 .. n /\ n = 2 * (n \div 2) /\ (n \div 2) + 1 \in 1 .. n
      BY <1>4
    <3> QED
      BY <3>1
  <2>2. Median(s) = (Kth(s, k) + Kth(s, k + 1)) \div 2
    BY <1>1, <1>4, <2>1 DEF Median
  <2>3. PICK a \in Int : a = Kth(s, k) /\ Cardinality(Under(s, a)) < k /\ Cardinality(AtMost(s, a)) >= k
    BY <1>1, KthIs
  <2>4. PICK b \in Int : /\ b = Kth(s, k + 1) /\ Cardinality(Under(s, b)) < k + 1
                         /\ Cardinality(AtMost(s, b)) >= k + 1
    BY <1>1, <2>1, KthIs
  <2>5. a <= b
    <3> SUFFICES ASSUME b < a PROVE FALSE
      OBVIOUS
    <3>1. Cardinality(AtMost(s, b)) <= Cardinality(Under(s, a))
      BY UnderFinite
    <3>2. Cardinality(AtMost(s, b)) \in Nat /\ Cardinality(Under(s, a)) \in Nat
      BY <1>2
    <3> QED
      BY <2>3, <2>4, <3>1, <3>2
  <2>6. PICK m \in Int : m = Median(s) /\ a <= m /\ m <= b
    <3>1. (a + b) \div 2 \in Int /\ a <= (a + b) \div 2 /\ (a + b) \div 2 <= b
      BY <2>5
    <3> QED
      BY <2>2, <2>3, <2>4, <3>1
  <2>7. PICK v \in Nat : v = Cardinality(AtMost(s, m)) /\ v >= k
    <3>1. Cardinality(AtMost(s, a)) <= Cardinality(AtMost(s, m))
      BY <2>6, UnderFinite
    <3>2. Cardinality(AtMost(s, a)) \in Nat /\ Cardinality(AtMost(s, m)) \in Nat
      BY <1>2
    <3> QED
      BY <2>3, <3>1, <3>2
  <2>8. PICK u \in Nat : u = Cardinality(Under(s, m)) /\ u < k + 1
    <3>1. Under(s, m) \in SUBSET Under(s, b)
      <4>1. \A i \in DOMAIN s : s[i] \in Int
        OBVIOUS
      <4> QED
        BY <2>6, <4>1 DEF Under
    <3>2. IsFiniteSet(Under(s, b)) /\ Cardinality(Under(s, b)) \in Nat
      BY UnderFinite
    <3>3. Cardinality(Under(s, m)) <= Cardinality(Under(s, b)) /\ Cardinality(Under(s, m)) \in Nat
      BY <1>2, <3>1, <3>2, FS_Subset
    <3> QED
      BY <2>4, <3>2, <3>3
  <2>9. Cardinality(DOMAIN s \ Under(s, m)) = n - u
    BY <1>2, <2>8
  <2>10. n <= 2 * v /\ n <= 2 * (n - u)
    BY <2>1, <2>7, <2>8
  <2> QED
    BY <1>1, <2>6, <2>7, <2>9, <2>10
<1> QED
  BY <1>3, <1>4

\* Products
LEMMA SquareNat == ASSUME NEW x \in Int PROVE x * x \in Nat
<1>1. CASE x >= 0
  BY <1>1
<1>2. CASE x < 0
  <2>1. -x \in Nat /\ x * x = (-x) * (-x)
    BY <1>2
  <2>2. (-x) * (-x) \in Nat
    BY <2>1
  <2> QED
    BY <2>1, <2>2
<1> QED
  BY <1>1, <1>2

LEMMA Scaled == ASSUME NEW a \in Nat, NEW x \in Int, NEW y \in Int, x <= y PROVE a * x <= a * y
<1>1. y - x \in Nat
  OBVIOUS
<1>2. a * (y - x) >= 0
  BY <1>1
<1>3. a * (y - x) = a * y - a * x
  OBVIOUS
<1>4. a * x \in Int /\ a * y \in Int
  OBVIOUS
<1> QED
  BY <1>2, <1>3, <1>4

LEMMA Cancel ==
  ASSUME NEW a \in Nat \ {0}, NEW x \in Int, NEW y \in Int, a * x <= a * y
  PROVE  x <= y
<1> SUFFICES ASSUME y + 1 <= x PROVE FALSE
  OBVIOUS
<1>1. a * (y + 1) <= a * x
  BY Scaled
<1>2. a * (y + 1) = a * y + a
  OBVIOUS
<1>3. a * y \in Int /\ a * x \in Int
  OBVIOUS
<1> QED
  BY <1>1, <1>2, <1>3

\* Farther from zero, greater the square; and back.
LEMMA SquareMore ==
  ASSUME NEW a \in Nat, NEW x \in Int, a <= x \/ a <= -x
  PROVE  a * a <= x * x
<1>1. PICK y \in Nat : a <= y /\ y * y = x * x
  <2>1. CASE a <= x
    BY <2>1
  <2>2. CASE a <= -x
    <3>1. -x \in Nat /\ (-x) * (-x) = x * x
      BY <2>2
    <3> QED
      BY <2>2, <3>1
  <2> QED
    BY <2>1, <2>2
<1>2. a * a <= a * y
  BY <1>1, Scaled
<1>3. y * a <= y * y
  BY <1>1, Scaled
<1>4. a * y = y * a /\ a * a \in Int /\ y * a \in Int /\ y * y \in Int
  BY <1>1
<1> QED
  BY <1>1, <1>2, <1>3, <1>4

LEMMA SquareRoot ==
  ASSUME NEW a \in Nat, NEW x \in Int, x * x <= a * a
  PROVE  x <= a /\ -x <= a
<1> SUFFICES ASSUME a + 1 <= x \/ a + 1 <= -x PROVE FALSE
  OBVIOUS
<1>1. (a + 1) * (a + 1) <= x * x
  BY SquareMore
<1>2. (a + 1) * (a + 1) = a * a + 2 * a + 1
  OBVIOUS
<1>3. a * a \in Int /\ x * x \in Int
  OBVIOUS
<1> QED
  BY <1>1, <1>2, <1>3

\* The deviation of a sample from the mean, in units of 1 / Len(s).
Dev(s, i) == Len(s) * s[i] - Total(s)
Squares(s) == [i \in 1 .. Len(s) |-> s[i] * s[i]]
\* Nowhere is the polynomial in the deviation below c on A, or below zero.
Bounds(s, p, q, r, c, A) ==
    \A i \in 1 .. Len(s) :
      (IF i \in A THEN c ELSE 0) <= p * (Dev(s, i) * Dev(s, i)) + q * Dev(s, i) + r

LEMMA Expand ==
  ASSUME NEW n \in Int, NEW x \in Int, NEW t \in Int
  PROVE  /\ n * x - t = n * x + 0 * x + (-t)
         /\ (n * x - t) * (n * x - t) = (n * n) * (x * x) + (-(2 * (n * t))) * x + t * t
OBVIOUS

LEMMA SumOfDev ==
  ASSUME NEW n \in Int, NEW t \in Int, NEW q \in Int
  PROVE  /\ n * t + 0 * t + (-t) * n = 0
         /\ (n * n) * q + (-(2 * (n * t))) * t + (t * t) * n = n * (n * q - t * t)
OBVIOUS

\* The deviations add up to nothing, their squares to Len(s) times the scatter.
LEMMA Deviations ==
  ASSUME NEW s \in Seq(Int)
  PROVE  \E y, z : /\ y \in Seq(Int) /\ z \in Seq(Int) /\ Len(y) = Len(s) /\ Len(z) = Len(s)
                   /\ \A i \in 1 .. Len(s) : /\ Dev(s, i) \in Int
                                             /\ y[i] = Dev(s, i) /\ z[i] = Dev(s, i) * Dev(s, i)
                   /\ Total(y) = 0 /\ Total(z) = Len(s) * Scatter(s) /\ Scatter(s) \in Int
<1>1. PICK n \in Nat : n = Len(s)
  OBVIOUS
<1>2. PICK t \in Int : t = Total(s)
  BY TotalInt
<1>3. PICK w \in Seq(Int) : w = Squares(s) /\ Len(w) = n /\ \A i \in 1 .. n : w[i] = s[i] * s[i]
  <2>1. Squares(s) \in Seq(Int) /\ Len(Squares(s)) = n /\ \A i \in 1 .. n : Squares(s)[i] = s[i] * s[i]
    BY <1>1 DEF Squares
  <2> QED
    BY <2>1
<1>4. PICK q \in Int : q = Total(w)
  BY TotalInt
<1>5. Scatter(s) = n * q - t * t
  BY <1>1, <1>2, <1>3, <1>4 DEF Scatter, Squares
<1>6. \A i \in 1 .. n : s[i] \in Int /\ Dev(s, i) = n * s[i] - t /\ Dev(s, i) \in Int
  BY <1>1, <1>2 DEF Dev
<1>7. PICK y \in Seq(Int) : Len(y) = n /\ \A i \in 1 .. n : y[i] = Dev(s, i)
  <2> DEFINE y == [i \in 1 .. n |-> Dev(s, i)]
  <2>1. y \in Seq(Int) /\ Len(y) = n /\ \A i \in 1 .. n : y[i] = Dev(s, i)
    BY <1>6
  <2> QED
    BY <2>1
<1>8. PICK z \in Seq(Int) : Len(z) = n /\ \A i \in 1 .. n : z[i] = Dev(s, i) * Dev(s, i)
  <2> DEFINE z == [i \in 1 .. n |-> Dev(s, i) * Dev(s, i)]
  <2>1. \A i \in 1 .. n : Dev(s, i) * Dev(s, i) \in Int
    BY <1>6
  <2>2. z \in Seq(Int) /\ Len(z) = n /\ \A i \in 1 .. n : z[i] = Dev(s, i) * Dev(s, i)
    BY <2>1
  <2> QED
    BY <2>2
<1>9. Combines(y, s, s, n, 0, -t)
  <2> SUFFICES ASSUME NEW i \in 1 .. n PROVE y[i] = n * s[i] + 0 * s[i] + (-t)
    BY <1>1 DEF Combines
  <2>1. PICK x \in Int : x = s[i] /\ y[i] = n * x - t
    BY <1>6, <1>7
  <2> QED
    BY <2>1, Expand
<1>10. Combines(z, w, s, n * n, -(2 * (n * t)), t * t)
  <2> SUFFICES ASSUME NEW i \in 1 .. n
               PROVE  z[i] = (n * n) * w[i] + (-(2 * (n * t))) * s[i] + t * t
    BY <1>1, <1>3 DEF Combines
  <2>1. PICK x \in Int : x = s[i] /\ z[i] = (n * x - t) * (n * x - t) /\ w[i] = x * x
    <3>1. /\ s[i] \in Int /\ z[i] = Dev(s, i) * Dev(s, i) /\ Dev(s, i) = n * s[i] - t
          /\ w[i] = s[i] * s[i]
      BY <1>3, <1>6, <1>8
    <3> QED
      BY <3>1
  <2>2. (n * x - t) * (n * x - t) = (n * n) * (x * x) + (-(2 * (n * t))) * x + t * t
    BY Expand
  <2> QED
    BY <2>1, <2>2
<1>11. Total(y) = n * t + 0 * t + (-t) * n
  <2>1. PICK a \in Int, b \in Int, c \in Int : a = n /\ b = 0 /\ c = -t
    OBVIOUS
  <2>2. Combines(y, s, s, a, b, c) /\ Len(y) = Len(s)
    BY <1>1, <1>7, <1>9, <2>1
  <2>3. Total(y) = a * Total(s) + b * Total(s) + c * Len(s)
    BY <2>2, TotalLinear
  <2> QED
    BY <1>1, <1>2, <2>1, <2>3
<1>12. Total(z) = (n * n) * q + (-(2 * (n * t))) * t + (t * t) * n
  <2>1. n * n \in Int /\ -(2 * (n * t)) \in Int /\ t * t \in Int
    OBVIOUS
  <2>2. PICK a \in Int, b \in Int, c \in Int : a = n * n /\ b = -(2 * (n * t)) /\ c = t * t
    BY <2>1
  <2>3. Combines(z, w, s, a, b, c) /\ Len(z) = Len(w) /\ Len(s) = Len(w)
    BY <1>1, <1>3, <1>8, <1>10, <2>2
  <2>4. Total(z) = a * Total(w) + b * Total(s) + c * Len(w)
    BY <2>3, TotalLinear
  <2> QED
    BY <1>2, <1>3, <1>4, <2>2, <2>4
<1>13. Total(y) = 0 /\ Total(z) = n * Scatter(s) /\ Scatter(s) \in Int
  <2>1. n \in Int /\ n * q - t * t \in Int
    OBVIOUS
  <2> QED
    BY <1>5, <1>11, <1>12, <2>1, SumOfDev
<1> QED
  BY <1>1, <1>6, <1>7, <1>8, <1>13

\* What a polynomial in the deviation bounds, position by position, its sum bounds.
LEMMA Weighed ==
  ASSUME NEW s \in Seq(Int), NEW p \in Int, NEW q \in Int, NEW r \in Int, NEW c \in Int,
         NEW A \in SUBSET (1 .. Len(s)), Bounds(s, p, q, r, c, A)
  PROVE  c * Cardinality(A) <= p * (Len(s) * Scatter(s)) + r * Len(s) /\ Cardinality(A) \in Nat
<1>1. PICK n \in Nat : n = Len(s)
  OBVIOUS
<1>2. PICK y \in Seq(Int), z \in Seq(Int) :
         /\ Len(y) = n /\ Len(z) = n
         /\ \A i \in 1 .. n : /\ Dev(s, i) \in Int
                              /\ y[i] = Dev(s, i) /\ z[i] = Dev(s, i) * Dev(s, i)
         /\ Total(y) = 0 /\ Total(z) = n * Scatter(s) /\ Scatter(s) \in Int
  BY <1>1, Deviations
<1> DEFINE u == [i \in 1 .. n |-> p * z[i] + q * y[i] + r]
           g == [i \in 1 .. n |-> IF i \in A THEN c ELSE 0]
<1>3. \A i \in 1 .. n : z[i] \in Int /\ y[i] \in Int
  BY <1>2
<1>4. u \in Seq(Int) /\ Len(u) = n /\ \A i \in 1 .. n : u[i] = p * z[i] + q * y[i] + r
  <2>1. \A i \in 1 .. n : p * z[i] + q * y[i] + r \in Int
    <3> TAKE i \in 1 .. n
    <3>1. PICK a \in Int, b \in Int : a = z[i] /\ b = y[i]
      BY <1>3
    <3>2. p * a + q * b + r \in Int
      OBVIOUS
    <3> QED
      BY <3>1, <3>2
  <2> QED
    BY <2>1
<1>5. g \in Seq(Int) /\ Len(g) = n /\ \A i \in 1 .. n : g[i] = IF i \in A THEN c ELSE 0
  OBVIOUS
<1> HIDE DEF u, g
<1>6. \A i \in 1 .. n : g[i] <= u[i]
  <2> TAKE i \in 1 .. n
  <2>1. (IF i \in A THEN c ELSE 0) <= p * (Dev(s, i) * Dev(s, i)) + q * Dev(s, i) + r
    BY <1>1 DEF Bounds
  <2> QED
    BY <1>2, <1>4, <1>5, <2>1
<1>7. Combines(u, z, y, p, q, r)
  BY <1>2, <1>4 DEF Combines
<1>8. Total(u) = p * Total(z) + q * Total(y) + r * n
  <2>1. Len(y) = Len(z) /\ Len(u) = Len(z) /\ Len(z) = n
    BY <1>2, <1>4
  <2>2. PICK v \in Seq(Int) : v = u
    BY <1>4
  <2>3. Combines(v, z, y, p, q, r) /\ Len(y) = Len(z) /\ Len(v) = Len(z)
    BY <1>7, <2>1, <2>2
  <2>4. Total(v) = p * Total(z) + q * Total(y) + r * Len(z)
    BY <2>3, TotalLinear
  <2> QED
    BY <2>1, <2>2, <2>4
<1>9. Total(g) = c * Cardinality(A) /\ Cardinality(A) \in Nat
  BY <1>1, <1>5, TotalCount
<1>10. Total(g) <= Total(u)
  BY <1>4, <1>5, <1>6, TotalMore
<1>11. Total(u) = p * (n * Scatter(s)) + r * n
  <2>1. PICK x \in Int : x = Total(z) /\ x = n * Scatter(s)
    BY <1>2, TotalInt
  <2>2. p * x + q * 0 + r * n = p * x + r * n
    OBVIOUS
  <2> QED
    BY <1>2, <1>8, <2>1, <2>2
<1> QED
  BY <1>1, <1>9, <1>10, <1>11

\* The scatter is no less than nothing.
LEMMA ScatterNat == ASSUME NEW s \in Seq(Int), s # <<>> PROVE Scatter(s) \in Nat
<1>1. PICK n \in Nat \ {0} : n = Len(s)
  OBVIOUS
<1>2. PICK v \in Int : v = Scatter(s)
  BY Deviations
<1>3. \A i \in 1 .. n : Dev(s, i) \in Int
  BY <1>1, Deviations
<1>4. Bounds(s, 1, 0, 0, 0, {})
  <2> SUFFICES ASSUME NEW i \in 1 .. n
               PROVE  0 <= 1 * (Dev(s, i) * Dev(s, i)) + 0 * Dev(s, i) + 0
    BY <1>1 DEF Bounds
  <2>1. PICK y \in Int : y = Dev(s, i)
    BY <1>3
  <2>2. y * y \in Nat
    BY SquareNat
  <2>3. 0 <= 1 * (y * y) + 0 * y + 0
    BY <2>2
  <2> QED
    BY <2>1, <2>3
<1>5. 0 * Cardinality({}) <= 1 * (n * v) + 0 * n /\ Cardinality({}) \in Nat
  <2>1. PICK p \in Int, r \in Int : p = 1 /\ r = 0
    OBVIOUS
  <2>2. PICK A \in SUBSET (1 .. n) : A = {}
    OBVIOUS
  <2>3. Bounds(s, p, r, r, r, A)
    BY <1>4, <2>1, <2>2
  <2>4. r * Cardinality(A) <= p * (n * v) + r * n /\ Cardinality(A) \in Nat
    BY <1>1, <1>2, <2>3, Weighed
  <2> QED
    BY <2>1, <2>2, <2>4
<1>6. n * 0 <= n * v
  BY <1>5
<1>7. 0 <= v
  BY <1>6, Cancel
<1> QED
  BY <1>2, <1>7

\* The deviation, a whole number, is at least the root of the mean square.
LEMMA PstdevIs ==
  ASSUME NEW s \in Seq(Int), s # <<>>
  PROVE  /\ Pstdev(s) \in Nat
         /\ Scatter(s) <= (Len(s) * Pstdev(s)) * (Len(s) * Pstdev(s))
<1>1. PICK n \in Nat \ {0} : n = Len(s)
  OBVIOUS
<1>2. PICK v \in Nat : v = Scatter(s)
  BY ScatterNat
<1> DEFINE R == {d \in 0 .. v : n * n * d * d >= v}
<1>3. v \in R
  <2>1. CASE v = 0
    BY <2>1
  <2>2. CASE v # 0
    <3>1. PICK a \in Nat : a = n * n * v /\ 1 <= a
      <4>1. n * n \in Nat \ {0} /\ v \in Nat \ {0}
        BY <2>2
      <4>2. PICK b \in Nat \ {0} : b = n * n
        BY <4>1
      <4>3. b * v \in Nat /\ 1 <= b * v
        BY <4>1
      <4> QED
        BY <4>2, <4>3
    <3>2. v * 1 <= v * a
      BY <3>1, Scaled
    <3>3. v * 1 = v /\ v * a = a * v
      BY <3>1
    <3>4. n * n * v * v >= v
      BY <3>1, <3>2, <3>3
    <3> QED
      BY <3>4
  <2> QED
    BY <2>1, <2>2
<1>4. R \subseteq Nat
  OBVIOUS
<1>5. PICK e \in R : \A d \in R : e <= d
  BY <1>3, <1>4, LeastNat
<1>6. e \in 0 .. v /\ n * n * e * e >= v
  OBVIOUS
<1>7. e = 0 \/ n * n * (e - 1) * (e - 1) < v
  <2> SUFFICES ASSUME e # 0, ~(n * n * (e - 1) * (e - 1) < v) PROVE FALSE
    OBVIOUS
  <2>1. e - 1 \in 0 .. v
    BY <1>6
  <2>2. PICK f \in Nat : f = e - 1 /\ f \in 0 .. v /\ ~(e <= f)
    BY <1>6, <2>1
  <2>3. n * n * f * f \in Int
    OBVIOUS
  <2>4. ~(n * n * f * f < v)
    BY <2>2
  <2>5. f \in R
    BY <2>2, <2>3, <2>4
  <2> QED
    BY <1>5, <2>2, <2>5
<1> HIDE DEF R
<1>8. /\ Pstdev(s) \in 0 .. v /\ n * n * Pstdev(s) * Pstdev(s) >= v
  <2>1. \E d \in 0 .. v : n * n * d * d >= v /\ (d = 0 \/ n * n * (d - 1) * (d - 1) < v)
    BY <1>6, <1>7
  <2>2. Pstdev(s) = CHOOSE d \in 0 .. v : n * n * d * d >= v /\ (d = 0 \/ n * n * (d - 1) * (d - 1) < v)
    BY <1>1, <1>2 DEF Pstdev
  <2> QED
    BY <2>1, <2>2
<1>9. PICK d \in Nat : d = Pstdev(s) /\ n * n * d * d >= v
  BY <1>8
<1>10. n * n * d * d = (n * d) * (n * d) /\ n * n * d * d \in Int
  OBVIOUS
<1>11. v <= (n * d) * (n * d)
  BY <1>9, <1>10
<1> QED
  BY <1>1, <1>2, <1>9, <1>11

\* (y - t)^2 on the half beyond t.
LEMMA Beyond ==
  ASSUME NEW t \in Int, NEW y \in Int, (t >= 0 /\ y <= -t) \/ (t <= 0 /\ y >= -t)
  PROVE  4 * (t * t) <= 1 * (y * y) + (-(2 * t)) * y + t * t
<1>1. 1 * (y * y) + (-(2 * t)) * y + t * t = (y - t) * (y - t)
  OBVIOUS
<1>2. PICK a \in Nat : a * a = 4 * (t * t) /\ (a <= y - t \/ a <= -(y - t))
  <2>1. CASE t >= 0 /\ y <= -t
    <3>1. 2 * t \in Nat /\ (2 * t) * (2 * t) = 4 * (t * t) /\ 2 * t <= -(y - t)
      BY <2>1
    <3> QED
      BY <3>1
  <2>2. CASE t <= 0 /\ y >= -t
    <3>1. -(2 * t) \in Nat /\ (-(2 * t)) * (-(2 * t)) = 4 * (t * t) /\ -(2 * t) <= y - t
      BY <2>2
    <3> QED
      BY <3>1
  <2> QED
    BY <2>1, <2>2
<1>3. y - t \in Int
  OBVIOUS
<1>4. a * a <= (y - t) * (y - t)
  BY <1>2, <1>3, SquareMore
<1> QED
  BY <1>1, <1>2, <1>4

\* A sample that is x off a place: its deviation from the mean.
LEMMA Shifted ==
  ASSUME NEW n \in Nat \ {0}, NEW x \in Int, NEW m \in Int, NEW u \in Int
  PROVE  /\ n * x - u = n * (x - m) - (u - n * m)
         /\ x <= m => n * x - u <= -(u - n * m)
         /\ x >= m => n * x - u >= -(u - n * m)
<1>1. n * x - u = n * (x - m) - (u - n * m) /\ n * (x - m) \in Int /\ n * m \in Int /\ n * x \in Int
  OBVIOUS
<1>2. x <= m => n * (x - m) <= n * 0
  BY Scaled
<1>3. x >= m => n * 0 <= n * (x - m)
  BY Scaled
<1> QED
  BY <1>1, <1>2, <1>3

\* Mean and median are no further apart than the deviation: the square of their distance,
\* in units of 1 / Len(s), is within the scatter.
LEMMA MeanNearMedian ==
  ASSUME NEW s \in Seq(Int), s # <<>>, NEW t \in Int, t = Total(s) - Len(s) * Median(s)
  PROVE  t * t <= Scatter(s)
<1>1. PICK n \in Nat \ {0} : n = Len(s)
  OBVIOUS
<1>2. PICK v \in Nat : v = Scatter(s)
  BY ScatterNat
<1>3. PICK m \in Int : m = Median(s)
  BY MedianHalves
<1>4. PICK u \in Int : u = Total(s)
  BY TotalInt
<1>5. DOMAIN s = 1 .. n /\ \A i \in 1 .. n : s[i] \in Int
  BY <1>1
<1>6. PICK A \in SUBSET (1 .. n) :
         /\ n <= 2 * Cardinality(A)
         /\ \A i \in A : (t >= 0 /\ s[i] <= m) \/ (t <= 0 /\ s[i] >= m)
  <2>1. CASE t >= 0
    <3>1. /\ n <= 2 * Cardinality(AtMost(s, m)) /\ AtMost(s, m) \in SUBSET (1 .. n)
          /\ \A i \in AtMost(s, m) : s[i] <= m
      BY <1>1, <1>3, <1>5, MedianHalves DEF AtMost
    <3> QED
      BY <2>1, <3>1
  <2>2. CASE t < 0
    <3>1. /\ n <= 2 * Cardinality(DOMAIN s \ Under(s, m)) /\ DOMAIN s \ Under(s, m) \in SUBSET (1 .. n)
          /\ \A i \in DOMAIN s \ Under(s, m) : s[i] >= m
      <4>1. n <= 2 * Cardinality(DOMAIN s \ Under(s, m))
        BY <1>1, <1>3, MedianHalves
      <4> QED
        BY <1>5, <4>1 DEF Under
    <3> QED
      BY <2>2, <3>1
  <2> QED
    BY <2>1, <2>2
<1>7. PICK c \in Int, q \in Int, r \in Int, p \in Int :
         c = 4 * (t * t) /\ q = -(2 * t) /\ r = t * t /\ p = 1
  OBVIOUS
<1>8. Bounds(s, p, q, r, c, A)
  <2> SUFFICES ASSUME NEW i \in 1 .. n
               PROVE  (IF i \in A THEN c ELSE 0) <= p * (Dev(s, i) * Dev(s, i)) + q * Dev(s, i) + r
    BY <1>1 DEF Bounds
  <2>1. PICK x \in Int : x = s[i]
    BY <1>5
  <2>2. PICK y \in Int : y = Dev(s, i) /\ y = n * x - u
    BY <1>1, <1>4, <2>1 DEF Dev
  <2>3. t = u - n * m
    BY <1>1, <1>3, <1>4
  <2>4. CASE i \in A
    <3>1. (t >= 0 /\ x <= m) \/ (t <= 0 /\ x >= m)
      BY <1>6, <2>1, <2>4
    <3>2. (t >= 0 /\ y <= -t) \/ (t <= 0 /\ y >= -t)
      BY <2>2, <2>3, <3>1, Shifted
    <3>3. 4 * (t * t) <= 1 * (y * y) + (-(2 * t)) * y + t * t
      BY <3>2, Beyond
    <3> QED
      BY <1>7, <2>2, <2>4, <3>3
  <2>5. CASE i \notin A
    <3>1. (y - t) * (y - t) \in Nat
      <4>1. y - t \in Int
        OBVIOUS
      <4> QED
        BY <4>1, SquareNat
    <3>2. (y - t) * (y - t) = 1 * (y * y) + (-(2 * t)) * y + t * t
      OBVIOUS
    <3>3. 0 <= 1 * (y * y) + (-(2 * t)) * y + t * t
      BY <3>1, <3>2
    <3> QED
      BY <1>7, <2>2, <2>5, <3>3
  <2> QED
    BY <2>4, <2>5
<1>9. PICK b \in Nat : b = Cardinality(A) /\ c * b <= p * (n * v) + r * n
  BY <1>1, <1>2, <1>8, Weighed
<1>10. PICK r2 \in Nat : r2 = t * t
  BY SquareNat
<1>11. (4 * r2) * b <= n * v + r2 * n
  BY <1>7, <1>9, <1>10
<1>12. n <= 2 * b
  BY <1>6, <1>9
<1>13. (2 * r2) * n <= (2 * r2) * (2 * b)
  <2>1. 2 * r2 \in Nat /\ 2 * b \in Int
    OBVIOUS
  <2> QED
    BY <1>12, <2>1, Scaled
<1>14. n * r2 <= n * v
  <2>1. /\ (2 * r2) * (2 * b) = (4 * r2) * b /\ (2 * r2) * n = 2 * (n * r2) /\ r2 * n = n * r2
        /\ (4 * r2) * b \in Int /\ n * v \in Int /\ n * r2 \in Int
    OBVIOUS
  <2> QED
    BY <1>11, <1>13, <2>1
<1>15. r2 <= v
  BY <1>14, Cancel
<1> QED
  BY <1>2, <1>10, <1>15

\* A sample more than k deviations off the median is more than k - 1 of them off the mean.
LEMMA FarOff ==
  ASSUME NEW n \in Nat \ {0}, NEW d \in Nat, NEW k \in Nat, NEW t \in Int, NEW x \in Int,
         t <= n * d, -t <= n * d, x > k * d \/ -x > k * d
  PROVE  \/ n * ((k - 1) * d + 1) <= n * x - t
         \/ n * ((k - 1) * d + 1) <= -(n * x - t)
<1>1. PICK e \in Int : e = k * d
  OBVIOUS
<1>2. n * ((k - 1) * d + 1) = n * (e + 1) - n * d
  BY <1>1
<1>3. n * d \in Int /\ n * (e + 1) \in Int /\ n * x \in Int
  OBVIOUS
<1>4. CASE x > e
  <2>1. n * (e + 1) <= n * x
    BY <1>4, Scaled
  <2> QED
    BY <1>2, <1>3, <2>1
<1>5. CASE -x > e
  <2>1. n * (e + 1) <= n * (-x)
    BY <1>5, Scaled
  <2>2. n * (-x) = -(n * x)
    OBVIOUS
  <2> QED
    BY <1>2, <1>3, <2>1, <2>2
<1> QED
  BY <1>1, <1>4, <1>5

\* Chebyshev's bound, about the median: of the samples more than k deviations from it,
\* (k - 1)^2 times their number is no more than there are samples.
Off(s, w) == {i \in DOMAIN s : s[i] - Median(s) > w \/ -(s[i] - Median(s)) > w}

LEMMA FewAreOff ==
  ASSUME NEW s \in Seq(Int), s # <<>>, NEW k \in Nat, NEW w \in Int, k * Pstdev(s) <= w
  PROVE  Cardinality(Off(s, w)) * (k - 1) * (k - 1) <= Len(s)
<1>1. PICK n \in Nat \ {0} : n = Len(s)
  OBVIOUS
<1>2. PICK v \in Nat : v = Scatter(s)
  BY ScatterNat
<1>3. PICK m \in Int : m = Median(s)
  BY MedianHalves
<1>4. PICK u \in Int : u = Total(s)
  BY TotalInt
<1>5. PICK d \in Nat : d = Pstdev(s) /\ v <= (n * d) * (n * d)
  BY <1>1, <1>2, PstdevIs
<1>6. PICK t \in Int : t = u - n * m
  OBVIOUS
<1>7. t <= n * d /\ -t <= n * d
  <2>1. t * t <= v
    BY <1>1, <1>2, <1>3, <1>4, <1>6, MeanNearMedian
  <2>2. PICK a \in Nat : a = n * d
    OBVIOUS
  <2>3. t * t \in Int /\ a * a \in Int
    OBVIOUS
  <2>4. t * t <= a * a
    BY <1>5, <2>1, <2>2, <2>3
  <2> QED
    BY <2>2, <2>4, SquareRoot
<1>8. PICK A \in SUBSET (1 .. n) :
         A = Off(s, w) /\ \A i \in A : s[i] - m > w \/ -(s[i] - m) > w
  <2>1. /\ Off(s, w) \in SUBSET (1 .. n)
        /\ \A i \in Off(s, w) : s[i] - m > w \/ -(s[i] - m) > w
    <3>1. DOMAIN s = 1 .. n
      BY <1>1
    <3> QED
      BY <1>3, <3>1 DEF Off
  <2> QED
    BY <2>1
<1>9. IsFiniteSet(A) /\ Cardinality(A) \in Nat /\ Cardinality(A) <= n
  <2>1. IsFiniteSet(1 .. n) /\ Cardinality(1 .. n) = n
    BY FS_Interval
  <2> QED
    BY <2>1, FS_Subset, FS_CardinalityType
<1>10. PICK b \in Nat : b = Cardinality(A) /\ b <= n
  BY <1>9
<1>11. CASE k = 0
  <2>1. b * (0 - 1) * (0 - 1) = b
    OBVIOUS
  <2> QED
    BY <1>1, <1>8, <1>10, <1>11, <2>1
<1>12. CASE k # 0
  <2>1. PICK j \in Nat : j = k - 1
    BY <1>12
  <2>2. PICK g \in Nat : g = j * d + 1
    OBVIOUS
  <2>3. PICK c \in Nat, p \in Nat, z \in Nat : c = (n * g) * (n * g) /\ p = 1 /\ z = 0
    <3>1. (n * g) * (n * g) \in Nat
      OBVIOUS
    <3> QED
      BY <3>1
  <2>4. Bounds(s, p, z, z, c, A)
    <3> SUFFICES ASSUME NEW i \in 1 .. n
                 PROVE  (IF i \in A THEN c ELSE 0) <= p * (Dev(s, i) * Dev(s, i)) + z * Dev(s, i) + z
      BY <1>1 DEF Bounds
    <3>1. PICK x \in Int : x = s[i]
      BY <1>1
    <3>2. PICK y \in Int : y = Dev(s, i) /\ y = n * x - u
      BY <1>1, <1>4, <3>1 DEF Dev
    <3>3. 1 * (y * y) + 0 * y + 0 = y * y /\ y * y \in Nat
      <4>1. y * y \in Nat
        BY SquareNat
      <4> QED
        BY <4>1
    <3>4. CASE i \in A
      <4>1. x - m > w \/ -(x - m) > w
        BY <1>8, <3>1, <3>4
      <4>2. PICK e \in Int : e = x - m
        OBVIOUS
      <4>3. e > k * d \/ -e > k * d
        <5>1. k * d \in Int /\ k * d <= w
          BY <1>5
        <5> QED
          BY <4>1, <4>2, <5>1
      <4>4. n * ((k - 1) * d + 1) <= n * e - t \/ n * ((k - 1) * d + 1) <= -(n * e - t)
        BY <1>7, <4>3, FarOff
      <4>5. n * e - t = y
        BY <1>6, <3>2, <4>2, Shifted
      <4>6. PICK a \in Nat : a = n * g /\ a = n * ((k - 1) * d + 1)
        BY <2>1, <2>2
      <4>7. a <= y \/ a <= -y
        BY <4>4, <4>5, <4>6
      <4>8. a * a <= y * y
        BY <4>7, SquareMore
      <4> QED
        BY <2>3, <3>2, <3>3, <3>4, <4>6, <4>8
    <3>5. CASE i \notin A
      BY <2>3, <3>2, <3>3, <3>5
    <3> QED
      BY <3>4, <3>5
  <2>5. c * b <= p * (n * v) + z * n
    BY <1>1, <1>2, <1>10, <2>4, Weighed
  <2>6. (n * g) * (n * g) * b <= n * v
    <3>1. 1 * (n * v) + 0 * n = n * v
      OBVIOUS
    <3> QED
      BY <2>3, <2>5, <3>1
  <2>7. n * v <= n * ((n * d) * (n * d))
    <3>1. PICK a \in Int : a = (n * d) * (n * d)
      OBVIOUS
    <3>2. v <= a
      BY <1>5, <3>1
    <3>3. n * v <= n * a
      BY <3>2, Scaled
    <3> QED
      BY <3>1, <3>3
  <2>8. (g * g) * b <= n * (d * d)
    <3>1. (n * g) * (n * g) * b = (n * n) * ((g * g) * b)
      OBVIOUS
    <3>2. n * ((n * d) * (n * d)) = (n * n) * (n * (d * d))
      OBVIOUS
    <3>3. PICK nn \in Nat \ {0}, x \in Int, y \in Int : nn = n * n /\ x = (g * g) * b /\ y = n * (d * d)
      <4>1. n * n \in Nat \ {0} /\ (g * g) * b \in Int /\ n * (d * d) \in Int
        OBVIOUS
      <4> QED
        BY <4>1
    <3>4. nn * x <= nn * y
      <4>1. (n * g) * (n * g) * b \in Int /\ n * v \in Int /\ n * ((n * d) * (n * d)) \in Int
        OBVIOUS
      <4>2. (n * g) * (n * g) * b <= n * ((n * d) * (n * d))
        BY <2>6, <2>7, <4>1
      <4> QED
        BY <3>1, <3>2, <3>3, <4>2
    <3>5. x <= y
      BY <3>4, Cancel
    <3> QED
      BY <3>3, <3>5
  <2>9. b * j * j <= n
    <3>1. CASE d = 0
      <4>1. g = 1
        BY <2>2, <3>1
      <4>2. (1 * 1) * b = b /\ n * (0 * 0) = 0
        OBVIOUS
      <4>3. b = 0
        BY <2>8, <3>1, <4>1, <4>2
      <4>4. 0 * j * j = 0
        OBVIOUS
      <4> QED
        BY <4>3, <4>4
    <3>2. CASE d # 0
      <4>1. PICK a \in Nat : a = j * d /\ g = a + 1
        BY <2>2
      <4>2. PICK aa \in Nat, gg \in Nat, dd \in Nat \ {0} :
               aa = a * a /\ gg = g * g /\ dd = d * d /\ aa <= gg
        <5>1. a * a \in Nat /\ g * g \in Nat /\ d * d \in Nat \ {0}
          BY <3>2
        <5>2. a * a <= g * g
          <6>1. a <= g
            BY <4>1
          <6> QED
            BY <6>1, SquareMore
        <5> QED
          BY <5>1, <5>2
      <4>3. b * aa <= b * gg
        BY <4>2, Scaled
      <4>4. b * gg <= n * dd
        <5>1. gg * b = b * gg
          OBVIOUS
        <5> QED
          BY <2>8, <4>2, <5>1
      <4>5. b * aa = dd * (b * j * j) /\ n * dd = dd * n
        <5>1. b * ((j * d) * (j * d)) = (d * d) * (b * j * j)
          OBVIOUS
        <5>2. n * dd = dd * n
          OBVIOUS
        <5> QED
          BY <4>1, <4>2, <5>1, <5>2
      <4>6. PICK x \in Int : x = b * j * j
        OBVIOUS
      <4>7. dd * x <= dd * n
        <5>1. b * aa \in Int /\ b * gg \in Int /\ n * dd \in Int
          OBVIOUS
        <5> QED
          BY <4>3, <4>4, <4>5, <4>6, <5>1
      <4>8. x <= n
        BY <4>7, Cancel
      <4> QED
        BY <4>6, <4>8
    <3> QED
      BY <3>1, <3>2
  <2> QED
    BY <1>1, <1>8, <1>10, <2>1, <2>9
<1> QED
  BY <1>11, <1>12

-----------------------------------------------------------------------------
(***************************************************************************)
(* The window                                                              *)
(***************************************************************************)
\* Division with remainder.
LEMMA Divided ==
  ASSUME NEW x \in Int, NEW n \in Nat \ {0}
  PROVE  x \div n \in Int /\ x % n \in 0 .. n - 1 /\ (n * (x \div n)) + (x % n) = x
<1>1. x \div n \in Int
  OBVIOUS
<1>2. x % n \in 0 .. n - 1
  OBVIOUS
<1>3. (n * (x \div n)) + (x % n) = x
  OBVIOUS
<1> QED
  BY <1>1, <1>2, <1>3

\* Rounding moves a quotient by half a unit at most.
LEMMA RoundedNear ==
  ASSUME NEW x \in Int, NEW n \in Nat \ {0}
  PROVE  /\ Rounded(x, n) \in Int
         /\ 2 * x - n <= 2 * (n * Rounded(x, n)) /\ 2 * (n * Rounded(x, n)) <= 2 * x + n
<1> DEFINE f == x \div n
           r == x % n
<1>1. f \in Int /\ r \in 0 .. n - 1 /\ (n * f) + r = x
  BY Divided
<1>2. Rounded(x, n) = IF 2 * r < n \/ (2 * r = n /\ f % 2 = 0) THEN f ELSE f + 1
  BY DEF Rounded
<1> HIDE DEF f, r
<1>3. n * (f + 1) = n * f + n /\ n * f \in Int
  BY <1>1
<1>4. CASE Rounded(x, n) = f /\ 2 * r <= n
  BY <1>1, <1>3, <1>4
<1>5. CASE Rounded(x, n) = f + 1 /\ 2 * r >= n
  BY <1>1, <1>3, <1>5
<1> QED
  BY <1>1, <1>2, <1>4, <1>5

\* A window of some width is cut into no more pieces than it has samples.
LEMMA Pieces ==
  ASSUME NEW w \in Nat, NEW s \in Nat
  PROVE  /\ SubCount(w, s) \in Nat \ {0}
         /\ SubCount(w, s) = 1 \/ SubCount(w, s) <= 2 * w
<1>1. CASE s > 0 /\ 2 * w > s
  <2> DEFINE n == (2 * w + s - 1) \div s
  <2>1. SubCount(w, s) = n
    BY <1>1 DEF SubCount
  <2>2. /\ n \in Int /\ (2 * w + s - 1) % s \in 0 .. s - 1
        /\ (s * n) + ((2 * w + s - 1) % s) = 2 * w + s - 1
    <3>1. (2 * w + s - 1) \in Int /\ s \in Nat \ {0}
      BY <1>1
    <3>2. \A x \in Int : /\ x \div s \in Int /\ x % s \in 0 .. s - 1
                         /\ (s * (x \div s)) + (x % s) = x
      BY <3>1, Divided
    <3> QED
      BY <3>1, <3>2
  <2> HIDE DEF n
  <2>3. n >= 1
    <3>1. n <= 0 => s * n <= 0
      BY <2>2, <1>1
    <3> QED
      BY <2>2, <3>1, <1>1
  <2>4. n <= 2 * w
    <3>1. n > 2 * w => s * n >= s * (2 * w + 1)
      BY <2>2, <1>1
    <3>2. s * (2 * w + 1) = s * (2 * w) + s /\ s * (2 * w) >= 2 * w /\ s * (2 * w) \in Int
      BY <1>1
    <3> QED
      BY <2>2, <3>1, <3>2, <1>1
  <2> QED
    BY <2>1, <2>2, <2>3, <2>4
<1>2. CASE ~(s > 0 /\ 2 * w > s)
  BY <1>2 DEF SubCount
<1> QED
  BY <1>1, <1>2

\* Where the pieces begin and how long they are: the first at the edge of the window, each
\* where the one before it ends or one sample later, the last up to a sample of the edge.
LEMMA PiecesTile ==
  ASSUME NEW t0 \in Int, NEW w \in Nat, NEW n \in Nat \ {0}
  PROVE  /\ \A k \in 1 .. n : /\ Segment(t0, w, n, k).first \in Int
                              /\ Segment(t0, w, n, k).size \in Nat
                               /\ Segment(t0, w, n, k).first >= t0 - w
                               /\ Segment(t0, w, n, k).first + Segment(t0, w, n, k).size <= t0 + w + 1
         /\ n <= 2 * w => \A k \in 1 .. n : Segment(t0, w, n, k).size >= 1
         /\ Segment(t0, w, n, 1).first = t0 - w
         /\ \A k \in 1 .. n - 1 : Segment(t0, w, n, k + 1).first
                                   <= Segment(t0, w, n, k).first + Segment(t0, w, n, k).size + 1
         /\ Segment(t0, w, n, n).first + Segment(t0, w, n, n).size >= t0 + w - 1
<1> DEFINE A(k) == (t0 - w) * n + 2 * w * (k - 1)
           first(k) == Rounded(A(k), n)
           size == Rounded(2 * w, n)
<1>1. \A k \in 1 .. n : Segment(t0, w, n, k).first = first(k) /\ Segment(t0, w, n, k).size = size
  BY DEF Segment
<1>2. /\ size \in Int
      /\ 2 * (2 * w) - n <= 2 * (n * size) /\ 2 * (n * size) <= 2 * (2 * w) + n
  BY RoundedNear
<1>3. \A k \in 1 .. n :
         /\ A(k) \in Int /\ first(k) \in Int
         /\ 2 * A(k) - n <= 2 * (n * first(k)) /\ 2 * (n * first(k)) <= 2 * A(k) + n
  BY RoundedNear
<1>4. \A x \in Int : \A y \in Int : 2 * (n * x) < 2 * (n * y) + 2 * n => x <= y
  <2> TAKE x \in Int
  <2> TAKE y \in Int
  <2>1. x >= y + 1 => n * x >= n * (y + 1)
    OBVIOUS
  <2>2. n * (y + 1) = n * y + n /\ n * x \in Int /\ n * y \in Int
    OBVIOUS
  <2> QED
    BY <2>1, <2>2
<1>5. \A x \in Int : \A y \in Int : n * (x + y) = n * x + n * y /\ n * x \in Int
  OBVIOUS
<1>6. /\ \A k \in 1 .. n : /\ A(k) >= n * (t0 - w)
                           /\ A(k) + 2 * w <= n * (t0 + w)
      /\ A(1) = n * (t0 - w) /\ A(n) + 2 * w = n * (t0 + w)
      /\ \A k \in 1 .. n - 1 : A(k + 1) = A(k) + 2 * w
  <2>1. \A k \in 1 .. n : 2 * w * (k - 1) \in Nat /\ 2 * w * (k - 1) <= 2 * w * (n - 1)
    <3> TAKE k \in 1 .. n
    <3>1. k - 1 \in Nat /\ n - k \in Nat
      OBVIOUS
    <3>2. 2 * w * (n - 1) = 2 * w * (k - 1) + 2 * w * (n - k) /\ 2 * w * (n - k) \in Nat
      BY <3>1
    <3> QED
      BY <3>1, <3>2
  <2>2. 2 * w * (n - 1) + 2 * w = 2 * (n * w) /\ n * (t0 - w) = (t0 - w) * n
        /\ n * (t0 + w) = n * (t0 - w) + 2 * (n * w) /\ n * w \in Int
    OBVIOUS
  <2>3. \A k \in 1 .. n - 1 : 2 * w * ((k + 1) - 1) = 2 * w * (k - 1) + 2 * w
    OBVIOUS
  <2> QED
    BY <2>1, <2>2, <2>3
<1> HIDE DEF A, first, size
<1>7. ASSUME NEW k \in 1 .. n
      PROVE  first(k) >= t0 - w /\ first(k) + size <= t0 + w + 1
  <2>1. first(k) \in Int /\ A(k) \in Int
    BY <1>3
  <2>2. 2 * (n * (t0 - w)) < 2 * (n * first(k)) + 2 * n
    BY <1>3, <1>5, <1>6
  <2>3. n * (first(k) + size) = n * first(k) + n * size /\ n * ((t0 + w) + 1) = n * (t0 + w) + n * 1
    BY <1>2, <1>5, <2>1
  <2>4. 2 * (n * (first(k) + size)) <= 2 * (n * ((t0 + w) + 1))
    BY <1>2, <1>3, <1>5, <1>6, <2>1, <2>3
  <2>5. t0 - w <= first(k)
    BY <1>4, <2>1, <2>2
  <2>6. first(k) + size <= (t0 + w) + 1
    <3>1. n * ((t0 + w) + 1) \in Int /\ n * (first(k) + size) \in Int
      BY <1>2, <1>5, <2>1
    <3>2. 2 * (n * (first(k) + size)) < 2 * (n * ((t0 + w) + 1)) + 2 * n
      BY <2>4, <3>1
    <3> QED
      BY <1>2, <1>4, <2>1, <3>2
  <2> QED
    BY <1>2, <2>1, <2>5, <2>6
<1>8. size >= 0 /\ (n <= 2 * w => size >= 1)
  <2>1. 2 * (n * 0) < 2 * (n * size) + 2 * n
    BY <1>2, <1>5
  <2>2. n <= 2 * w => 2 * (n * 1) < 2 * (n * size) + 2 * n
    BY <1>2, <1>5
  <2>3. 0 <= size
    BY <1>2, <1>4, <2>1
  <2>4. n <= 2 * w => 1 <= size
    BY <1>2, <1>4, <2>2
  <2> QED
    BY <1>2, <2>3, <2>4
<1>9. first(1) = t0 - w
  <2>1. 1 \in 1 .. n
    OBVIOUS
  <2>2. 2 * (n * first(1)) < 2 * (n * (t0 - w)) + 2 * n
    BY <1>3, <1>5, <1>6, <2>1
  <2>3. first(1) <= t0 - w
    BY <1>3, <1>4, <2>1, <2>2
  <2> QED
    BY <1>3, <1>7, <2>1, <2>3
<1>10. ASSUME NEW k \in 1 .. n - 1
       PROVE  first(k + 1) <= first(k) + size + 1
  <2>1. k \in 1 .. n /\ k + 1 \in 1 .. n
    OBVIOUS
  <2>2. first(k) \in Int /\ first(k + 1) \in Int /\ A(k) \in Int /\ A(k + 1) = A(k) + 2 * w
    BY <1>3, <1>6, <2>1
  <2>3. /\ n * ((first(k) + size) + 1) = n * (first(k) + size) + n * 1
        /\ n * (first(k) + size) = n * first(k) + n * size
    BY <1>2, <1>5, <2>2
  <2>4. /\ 2 * A(k) - n <= 2 * (n * first(k))
        /\ 2 * (n * first(k + 1)) <= 2 * A(k + 1) + n
    BY <1>3, <2>1
  <2>5. 2 * (n * first(k + 1)) < 2 * (n * ((first(k) + size) + 1)) + 2 * n
    BY <1>2, <1>5, <2>2, <2>3, <2>4
  <2> QED
    BY <1>2, <1>4, <2>2, <2>5
<1>11. first(n) + size >= t0 + w - 1
  <2>1. n \in 1 .. n
    OBVIOUS
  <2>2. first(n) \in Int /\ A(n) \in Int /\ A(n) + 2 * w = n * (t0 + w)
        /\ 2 * A(n) - n <= 2 * (n * first(n))
    BY <1>3, <1>6, <2>1
  <2>3. /\ n * (first(n) + size) = n * first(n) + n * size
        /\ n * ((t0 + w) + (-1)) = n * (t0 + w) + n * (-1)
    BY <1>2, <1>5, <2>2
  <2>4. 2 * (n * ((t0 + w) + (-1))) < 2 * (n * (first(n) + size)) + 2 * n
    BY <1>2, <1>5, <2>2, <2>3
  <2>5. (t0 + w) + (-1) <= first(n) + size
    BY <1>2, <1>4, <2>2, <2>4
  <2> QED
    BY <1>2, <2>2, <2>5
<1>12. 1 \in 1 .. n /\ n \in 1 .. n /\ \A k \in 1 .. n - 1 : k \in 1 .. n /\ k + 1 \in 1 .. n
  OBVIOUS
<1> QED
  BY <1>1, <1>2, <1>3, <1>7, <1>8, <1>9, <1>10, <1>11, <1>12

\* The subsegments of a window, as Segments makes them.
Cut(t0, w, n) == [k \in 1 .. n |-> Segment(t0, w, n, k)]
Covered(segs) == UNION {s.first .. s.first + s.size - 1 : s \in ToSet(segs)}

LEMMA CutCovers ==
  ASSUME NEW t0 \in Int, NEW w \in Nat, NEW n \in Nat \ {0}
  PROVE  \A t : t \in Covered(Cut(t0, w, n)) <=>
             \E k \in 1 .. n : t \in Segment(t0, w, n, k).first ..
                                   Segment(t0, w, n, k).first + Segment(t0, w, n, k).size - 1
<1>1. ToSet(Cut(t0, w, n)) = {Segment(t0, w, n, k) : k \in 1 .. n}
  BY DEF ToSet, Cut
<1> QED
  BY <1>1 DEF Covered

\* They leave out no two samples in a row, and none is outside by two.
LEMMA CutTiles ==
  ASSUME NEW t0 \in Int, NEW w \in Nat, NEW n \in Nat \ {0}, n = 1 \/ n <= 2 * w
  PROVE  /\ \A t \in t0 - w .. (t0 + w - 1) - 1 : {t, t + 1} \cap Covered(Cut(t0, w, n)) # {}
         /\ Covered(Cut(t0, w, n)) \subseteq t0 - w - 1 .. t0 + w - 1 + 1
<1> DEFINE first(k) == Segment(t0, w, n, k).first
           size(k) == Segment(t0, w, n, k).size
           covered == Covered(Cut(t0, w, n))
<1>1. \A t : t \in covered <=> \E k \in 1 .. n : t \in first(k) .. first(k) + size(k) - 1
  BY CutCovers
<1>2. /\ \A k \in 1 .. n : /\ first(k) \in Int /\ size(k) \in Nat
                           /\ first(k) >= t0 - w /\ first(k) + size(k) <= t0 + w + 1
      /\ n <= 2 * w => \A k \in 1 .. n : size(k) >= 1
      /\ first(1) = t0 - w
      /\ \A k \in 1 .. n - 1 : first(k + 1) <= first(k) + size(k) + 1
      /\ first(n) + size(n) >= t0 + w - 1
  BY PiecesTile
<1> HIDE DEF first, size, covered
<1>3. covered \subseteq t0 - w - 1 .. t0 + w - 1 + 1
  <2> SUFFICES ASSUME NEW t \in covered
               PROVE  t \in t0 - w - 1 .. t0 + w - 1 + 1
    OBVIOUS
  <2>1. PICK k \in 1 .. n : t \in first(k) .. first(k) + size(k) - 1
    BY <1>1
  <2> QED
    BY <1>2, <2>1
<1>4. ASSUME NEW t \in t0 - w .. (t0 + w - 1) - 1
      PROVE  {t, t + 1} \cap covered # {}
  <2> DEFINE T == {k \in 1 .. n : first(k) <= t + 1}
  <2>1. t \in Int /\ t0 - w <= t /\ t <= t0 + w - 2 /\ n <= 2 * w
    OBVIOUS
  <2>2. 1 \in T /\ T \subseteq Int /\ T \subseteq 1 .. n
    BY <1>2, <2>1
  <2>3. IsFiniteSet(1 .. n)
    BY FS_Interval
  <2>4. IsFiniteSet(T)
    BY <2>2, <2>3, FS_Subset
  <2> HIDE DEF T
  <2>5. Max(T) \in T /\ \A y \in T : y <= Max(T)
    BY <2>2, <2>4, MaxOf
  <2>6. PICK k \in 1 .. n : k = Max(T)
    BY <2>2, <2>5
  <2>7. first(k) <= t + 1 /\ first(k) \in Int /\ size(k) \in Nat /\ size(k) >= 1
    BY <1>2, <2>1, <2>5, <2>6 DEF T
  <2>8. t + 1 <= first(k) + size(k)
    <3>1. CASE k = n
      BY <1>2, <2>1, <2>7, <3>1
    <3>2. CASE k # n
      <4>1. k + 1 \in 1 .. n /\ k \in 1 .. n - 1
        BY <3>2
      <4>2. k + 1 \notin T
        BY <2>5, <2>6
      <4>3. first(k + 1) > t + 1 /\ first(k + 1) \in Int
        BY <1>2, <2>1, <4>1, <4>2 DEF T
      <4>4. first(k + 1) <= first(k) + size(k) + 1
        BY <1>2, <4>1
      <4> QED
        BY <2>1, <2>7, <4>3, <4>4
    <3> QED
      BY <3>1, <3>2
  <2>9. CASE first(k) <= t
    <3>1. t \in first(k) .. first(k) + size(k) - 1
      BY <2>1, <2>7, <2>8, <2>9
    <3>2. t \in covered
      BY <1>1, <3>1
    <3> QED
      BY <3>2
  <2>10. CASE ~(first(k) <= t)
    <3>1. t + 1 \in first(k) .. first(k) + size(k) - 1
      BY <2>1, <2>7, <2>8, <2>10
    <3>2. t + 1 \in covered
      BY <1>1, <3>1
    <3> QED
      BY <3>2
  <2> QED
    BY <2>9, <2>10
<1> QED
  BY <1>3, <1>4 DEF covered

\* Every sample of a subsegment's grid is in the series of a detector whose delay the
\* filter leaves room for.
LEMMA GridAligned ==
  ASSUME NEW s, s.first \in Int, s.size \in Nat, NEW j \in 0 .. s.size - 1,
         NEW d \in -(Pad + Psd - Psd \div 2 - Fir) .. (Edge - Fir)
  PROVE  AlignedAt(s, d, j) = {s.first + j + d}
<1> DEFINE from == SeriesFrom(s)
           i0 == s.first + d - from
           a == Max({0, -i0})
           top == SeriesTo(s) - from - i0
           b == Min({s.size, top})
<1>0. Psd \in Nat /\ Pad \in Nat /\ Edge \in Nat /\ Fir \in Nat /\ Psd \div 2 \in Int
      /\ d \in Int /\ d <= Edge - Fir /\ d >= -(Pad + Psd - Psd \div 2 - Fir)
  BY SearchAssumption
<1>1. from = s.first - Psd - Pad + Fir + Psd \div 2 /\ from \in Int
  BY <1>0 DEF SeriesFrom
<1>2. i0 \in Int /\ i0 >= 0 /\ top = s.size + Edge - Fir - d
  BY <1>0, <1>1 DEF SeriesTo
<1>3. from + i0 + j = s.first + j + d
  BY <1>1
<1>4. AlignedAt(s, d, j) = {t \in {from + i0 + j} : a <= j /\ j < b}
  BY DEF AlignedAt
<1> HIDE DEF i0, from, top
<1>5. a = 0
  <2>1. -i0 \in Int /\ -i0 <= 0
    BY <1>2
  <2>2. a = IF 0 <= -i0 THEN -i0 ELSE 0
    BY <2>1, MaxMin
  <2> QED
    BY <2>1, <2>2
<1>6. b = s.size
  <2>1. top \in Int /\ s.size <= top
    BY <1>0, <1>2
  <2>2. s.size \in Int
    OBVIOUS
  <2>3. b = IF s.size <= top THEN s.size ELSE top
    BY <2>1, <2>2, MaxMin
  <2> QED
    BY <2>1, <2>3
<1> HIDE DEF a, b
<1> QED
  BY <1>3, <1>4, <1>5, <1>6

-----------------------------------------------------------------------------
(***************************************************************************)
(* The triggers                                                            *)
(***************************************************************************)
\* Times of a series, with numbers for values.
Times(g, S) == S \subseteq Int /\ IsFiniteSet(S) /\ \A p \in S : g[p] \in Int

\* Louder is a strict order of them, and total.
LEMMA LouderOrders ==
  ASSUME NEW g, NEW S, Times(g, S)
  PROVE  \A p \in S : \A q \in S :
           /\ ~(Louder(g, p, q) /\ Louder(g, q, p))
           /\ p = q \/ Louder(g, p, q) \/ Louder(g, q, p)
           /\ \A r \in S : Louder(g, p, q) /\ Louder(g, q, r) => Louder(g, p, r)
<1> SUFFICES ASSUME NEW p \in S, NEW q \in S
             PROVE  /\ ~(Louder(g, p, q) /\ Louder(g, q, p))
                    /\ p = q \/ Louder(g, p, q) \/ Louder(g, q, p)
                    /\ \A r \in S : Louder(g, p, q) /\ Louder(g, q, r) => Louder(g, p, r)
  OBVIOUS
<1>1. p \in Int /\ q \in Int /\ g[p] \in Int /\ g[q] \in Int
  BY DEF Times
<1>2. ASSUME NEW r \in S, Louder(g, p, q), Louder(g, q, r)
      PROVE  Louder(g, p, r)
  <2>1. r \in Int /\ g[r] \in Int
    BY DEF Times
  <2> QED
    BY <1>1, <1>2, <2>1 DEF Louder
<1>3. /\ ~(Louder(g, p, q) /\ Louder(g, q, p))
      /\ p = q \/ Louder(g, p, q) \/ Louder(g, q, p)
  BY <1>1 DEF Louder
<1> QED
  BY <1>2, <1>3

\* One of them is louder than the others.
LEMMA LoudestOf ==
  ASSUME NEW g, NEW S, Times(g, S), S # {}
  PROVE  \E p \in S : /\ \A q \in S : ~Louder(g, q, p)
                      /\ \A q \in S : g[q] <= g[p]
<1> DEFINE values == {g[p] : p \in S}
           top == {p \in S : g[p] = Max(values)}
<1>1. values \subseteq Int /\ IsFiniteSet(values) /\ values # {}
  BY ValuesFinite DEF Times
<1>2. Max(values) \in values /\ \A y \in values : y <= Max(values)
  <2> HIDE DEF values
  <2> QED
    BY <1>1, MaxOf
<1>3. top # {} /\ top \subseteq S /\ top \subseteq Int
  BY <1>2 DEF Times
<1>4. IsFiniteSet(top)
  BY <1>3, FS_Subset DEF Times
<1>5. PICK p \in top : \A q \in top : q <= p
  <2> HIDE DEF top
  <2> QED
    BY <1>3, <1>4, MaxOf
<1>6. p \in S /\ p \in Int /\ g[p] \in Int /\ g[p] = Max(values)
  BY DEF Times
<1>7. ASSUME NEW q \in S
      PROVE  g[q] <= g[p] /\ ~Louder(g, q, p)
  <2>1. q \in Int /\ g[q] \in Int /\ g[q] \in values
    BY DEF Times
  <2>2. g[q] <= g[p]
    BY <1>2, <1>6, <2>1
  <2>3. g[q] = g[p] => q <= p
    BY <1>5, <1>6
  <2> HIDE DEF values, top
  <2> QED
    BY <1>6, <2>1, <2>2, <2>3 DEF Louder
<1> QED
  BY <1>6, <1>7

\* What is kept of a part of the peaks that holds, with each, those louder.
Keeps(g, U, kept) ==
    /\ kept \subseteq U
    /\ \A p \in U : p \in kept <=> ~\E q \in kept : Louder(g, q, p) /\ Close(p, q)
Upper(g, peaks, U) ==
    U \subseteq peaks /\ \A p \in U : \A q \in peaks : Louder(g, q, p) => q \in U

\* From such a part to one with one more.
LEMMA KeepsMore ==
  ASSUME NEW g, NEW peaks, Times(g, peaks),
         NEW U, Upper(g, peaks, U), NEW kept, Keeps(g, U, kept), U # peaks
  PROVE  \E p \in peaks \ U : /\ Upper(g, peaks, U \cup {p})
                              /\ \E more : Keeps(g, U \cup {p}, more)
<1>1. Times(g, peaks \ U) /\ peaks \ U # {}
  BY FS_Subset DEF Times, Upper
<1>2. PICK p \in peaks \ U : \A q \in peaks \ U : ~Louder(g, q, p)
  BY <1>1, LoudestOf
<1>3. Upper(g, peaks, U \cup {p})
  BY <1>2 DEF Upper
<1>4. \A x \in U : ~Louder(g, p, x)
  BY DEF Upper
<1>5. ~Louder(g, p, p) /\ kept \subseteq U /\ p \notin kept
  BY LouderOrders DEF Keeps
<1>6. CASE \E q \in kept : Louder(g, q, p) /\ Close(p, q)
  <2>1. Keeps(g, U \cup {p}, kept)
    BY <1>5, <1>6 DEF Keeps
  <2> QED
    BY <1>3, <2>1
<1>7. CASE ~\E q \in kept : Louder(g, q, p) /\ Close(p, q)
  <2> DEFINE more == kept \cup {p}
  <2>1. ASSUME NEW x \in U
        PROVE  x \in more <=> ~\E q \in more : Louder(g, q, x) /\ Close(x, q)
    <3>1. x # p /\ ~Louder(g, p, x)
      BY <1>4
    <3>2. x \in kept <=> ~\E q \in kept : Louder(g, q, x) /\ Close(x, q)
      BY DEF Keeps
    <3> QED
      BY <3>1, <3>2
  <2>2. ~\E q \in more : Louder(g, q, p) /\ Close(p, q)
    BY <1>5, <1>7
  <2>3. more \subseteq U \cup {p} /\ p \in more
    BY <1>5
  <2> HIDE DEF more
  <2>4. Keeps(g, U \cup {p}, more)
    BY <2>1, <2>2, <2>3 DEF Keeps
  <2> QED
    BY <1>3, <2>4
<1> QED
  BY <1>6, <1>7

\* Spread is what it says: a peak goes if and only if a louder one that stays is close.
LEMMA SpreadIs ==
  ASSUME NEW g, NEW peaks, Times(g, peaks)
  PROVE  Keeps(g, peaks, Spread(g, peaks))
<1> DEFINE good == {U \in SUBSET peaks : Upper(g, peaks, U) /\ \E kept : Keeps(g, U, kept)}
           sizes == {Cardinality(U) : U \in good}
<1>0. IsFiniteSet(peaks)
  BY DEF Times
<1>1. {} \in good
  <2>1. Keeps(g, {}, {}) /\ Upper(g, peaks, {})
    BY DEF Keeps, Upper
  <2> QED
    BY <2>1
<1>2. ASSUME NEW U \in good
      PROVE  IsFiniteSet(U) /\ Cardinality(U) \in Nat /\ Cardinality(U) <= Cardinality(peaks)
  BY <1>0, FS_Subset, FS_CardinalityType
<1>3. Cardinality(peaks) \in Nat
  BY <1>0, FS_CardinalityType
<1>4. sizes \subseteq Nat /\ sizes # {} /\ \A n \in sizes : n <= Cardinality(peaks)
  BY <1>1, <1>2
<1>5. IsFiniteSet(sizes)
  <2> HIDE DEF sizes
  <2> QED
    BY <1>3, <1>4, FS_BoundedSetOfNaturals
<1>6. PICK n \in sizes : \A m \in sizes : m <= n
  <2> HIDE DEF sizes
  <2>1. sizes \subseteq Int
    BY <1>4
  <2> QED
    BY <1>4, <1>5, <2>1, MaxOf
<1>7. PICK U \in good : n = Cardinality(U)
  OBVIOUS
<1>8. U = peaks
  <2> SUFFICES ASSUME U # peaks PROVE FALSE
    OBVIOUS
  <2>1. PICK kept : Keeps(g, U, kept)
    OBVIOUS
  <2>2. PICK p \in peaks \ U : /\ Upper(g, peaks, U \cup {p})
                               /\ \E more : Keeps(g, U \cup {p}, more)
    BY <2>1, KeepsMore
  <2>3. U \cup {p} \in good
    BY <2>2
  <2>4. Cardinality(U \cup {p}) = n + 1
    BY <1>2, <1>7, FS_AddElement
  <2>5. n + 1 <= n /\ n \in Nat
    BY <1>4, <1>6, <2>3, <2>4
  <2> QED
    BY <2>5
<1>9. PICK kept : Keeps(g, peaks, kept)
  BY <1>8
<1>10. kept \in SUBSET peaks
       /\ \A p \in peaks : p \in kept <=> ~\E q \in kept : Louder(g, q, p) /\ Close(p, q)
  BY <1>9 DEF Keeps
<1>11. /\ Spread(g, peaks) \in SUBSET peaks
       /\ \A p \in peaks : p \in Spread(g, peaks)
                             <=> ~\E q \in Spread(g, peaks) : Louder(g, q, p) /\ Close(p, q)
  BY <1>10 DEF Spread
<1> QED
  BY <1>11 DEF Keeps

\* Of times in an order without ties, at most as many have fewer than a number before them.
LEMMA CapHolds ==
  ASSUME NEW g, NEW S, Times(g, S), NEW max \in Nat
  PROVE  Cardinality({p \in S : Cardinality({q \in S : Louder(g, q, p)}) < max}) <= max
<1> DEFINE above(p) == {q \in S : Louder(g, q, p)}
           kept == {p \in S : Cardinality(above(p)) < max}
           rank == [p \in kept |-> Cardinality(above(p)) + 1]
<1>1. ASSUME NEW p \in S
      PROVE  IsFiniteSet(above(p)) /\ Cardinality(above(p)) \in Nat
  BY FS_Subset, FS_CardinalityType DEF Times
<1>2. ASSUME NEW p \in S, NEW q \in S, Louder(g, p, q)
      PROVE  Cardinality(above(p)) < Cardinality(above(q))
  <2>1. above(p) \subseteq above(q) /\ p \in above(q) /\ p \notin above(p)
    BY <1>2, LouderOrders
  <2>2. IsFiniteSet(above(q)) /\ Cardinality(above(q)) \in Nat /\ Cardinality(above(p)) \in Nat
    BY <1>1
  <2> HIDE DEF above
  <2> QED
    BY <2>1, <2>2, FS_Subset
<1>3. \A p \in kept : p \in S /\ Cardinality(above(p)) < max
  OBVIOUS
<1> HIDE DEF above
<1>4. rank \in [kept -> 1 .. max]
  BY <1>1, <1>3
<1>5. \A p \in kept : \A q \in kept : rank[p] = rank[q] => p = q
  <2> SUFFICES ASSUME NEW p \in kept, NEW q \in kept, rank[p] = rank[q]
               PROVE  p = q
    OBVIOUS
  <2>1. p \in S /\ q \in S
    OBVIOUS
  <2>2. Cardinality(above(p)) \in Nat /\ Cardinality(above(q)) \in Nat
    BY <1>1, <2>1
  <2>3. Cardinality(above(p)) + 1 = Cardinality(above(q)) + 1
    OBVIOUS
  <2>4. ~Louder(g, p, q) /\ ~Louder(g, q, p)
    BY <1>2, <2>1, <2>2, <2>3
  <2> QED
    BY <2>1, <2>4, LouderOrders
<1> HIDE DEF kept, rank
<1>6. rank \in Injection(kept, 1 .. max)
  BY <1>4, <1>5 DEF Injection, IsInjective
<1>7. IsFiniteSet(1 .. max) /\ Cardinality(1 .. max) = max
  BY FS_Interval
<1>8. Cardinality(kept) <= max
  BY <1>6, <1>7, FS_Injection
<1> QED
  BY <1>8 DEF kept, above

\* What the clustering keeps of a set of times and the cap leaves of that are some of
\* them, and one is as loud as any.
LEMMA CappedHold ==
  ASSUME NEW g, NEW kept, Times(g, kept), NEW T,
         T = {p \in kept : Cardinality({q \in kept : Louder(g, q, p)}) < MaxTriggers}
  PROVE  /\ IsFiniteSet(T) /\ Cardinality(T) <= MaxTriggers
         /\ T \subseteq kept
         /\ kept # {} => \E p \in T : \A q \in kept : g[q] <= g[p]
<1> DEFINE loud(p) == Cardinality({q \in kept : Louder(g, q, p)})
<1>0. MaxTriggers \in Nat /\ MaxTriggers > 0
  BY SearchAssumption
<1>1. Cardinality(T) <= MaxTriggers
  BY <1>0, CapHolds
<1>2. IsFiniteSet(T) /\ T \subseteq kept
  BY FS_Subset DEF Times
<1>3. ASSUME kept # {}
      PROVE  \E p \in T : \A q \in kept : g[q] <= g[p]
  <2>1. PICK p \in kept : /\ \A q \in kept : ~Louder(g, q, p)
                          /\ \A q \in kept : g[q] <= g[p]
    BY <1>3, LoudestOf
  <2>2. {q \in kept : Louder(g, q, p)} = {}
    BY <2>1
  <2>3. loud(p) = 0
    BY <2>2, FS_EmptySet
  <2>4. p \in T
    BY <1>0, <2>3
  <2> QED
    BY <2>1, <2>4
<1> QED
  BY <1>1, <1>2, <1>3

\* The middle of a stretch is in it.
LEMMA Middle ==
  ASSUME NEW l \in Int, NEW r \in Int, l <= r
  PROVE  (l + r) \div 2 \in l .. r
<1>1. l + r \in Int
  OBVIOUS
<1>2. PICK m \in Int, d \in 0 .. 1 : m = (l + r) \div 2 /\ d = (l + r) % 2
  BY <1>1, Divided
<1>3. (2 * m) + d = l + r
  BY <1>1, <1>2, Divided
<1>4. l <= m /\ m <= r
  BY <1>3
<1> QED
  BY <1>2, <1>4

\* With scipy or without it, the triggers of a series are loud samples of it, no more than
\* the cap, and one is as loud as each of its tops.
LEMMA TriggersHold ==
  ASSUME NEW n \in Nat, NEW g, DOMAIN g = 0 .. n - 1, \A j \in 0 .. n - 1 : g[j] \in Nat,
         NEW scipy \in BOOLEAN
  PROVE  /\ IsFiniteSet(Triggers(g, scipy)) /\ Cardinality(Triggers(g, scipy)) <= MaxTriggers
         /\ Triggers(g, scipy) \subseteq {j \in 0 .. n - 1 : g[j] >= Threshold}
         /\ \A x \in Crests(g) : \E p \in Triggers(g, scipy) : g[x[1]] <= g[p]
<1> DEFINE tops == Peaks(g)
           loud == {j \in DOMAIN g : g[j] >= Threshold}
           kept == IF scipy THEN Spread(g, tops) ELSE loud
<1>1. Cardinality(DOMAIN g) = n
  <2>1. 0 \in Int /\ n - 1 \in Int
    OBVIOUS
  <2>2. Cardinality(0 .. (n - 1)) = IF 0 > n - 1 THEN 0 ELSE (n - 1) - 0 + 1
    BY <2>1, FS_Interval
  <2>3. Cardinality(0 .. (n - 1)) = n
    BY <2>2
  <2> QED
    BY <2>3
<1>2. Triggers(g, scipy) =
        {p \in kept : Cardinality({q \in kept : Louder(g, q, p)}) < MaxTriggers}
  BY DEF Triggers
<1>3. ASSUME NEW x \in Crests(g)
      PROVE  LET p == (x[1] + x[2]) \div 2
             IN  p \in 1 .. n - 2 /\ g[p] = g[x[1]] /\ g[p] >= Threshold
  <2>1. /\ x[1] \in 1 .. n - 2 /\ x[2] \in 1 .. n - 2 /\ x[1] <= x[2]
        /\ \A j \in x[1] .. x[2] : g[j] = g[x[1]]
        /\ g[x[1]] >= Threshold
    BY <1>1 DEF Crests
  <2>2. PICK l \in 1 .. n - 2, r \in 1 .. n - 2 : l = x[1] /\ r = x[2] /\ l <= r
    BY <2>1
  <2>3. (l + r) \div 2 \in l .. r
    <3>1. l \in Int /\ r \in Int
      OBVIOUS
    <3> QED
      BY <2>2, <3>1, Middle
  <2>4. l .. r \subseteq 1 .. n - 2
    BY <2>2
  <2> QED
    BY <2>1, <2>2, <2>3, <2>4
<1>4. loud = {j \in 0 .. n - 1 : g[j] >= Threshold}
  OBVIOUS
<1>5. tops \subseteq loud
  <2>1. ASSUME NEW p \in tops
        PROVE  p \in loud
    <3>1. PICK x \in Crests(g) : p = (x[1] + x[2]) \div 2
      BY DEF Peaks
    <3>2. p \in 1 .. n - 2 /\ g[p] >= Threshold
      BY <1>3, <3>1
    <3> QED
      BY <1>4, <3>2
  <2> QED
    BY <2>1
<1>6. \A x \in Crests(g) : \E p \in tops : g[x[1]] = g[p]
  <2>1. ASSUME NEW x \in Crests(g)
        PROVE  \E p \in tops : g[x[1]] = g[p]
    <3>1. (x[1] + x[2]) \div 2 \in tops
      BY DEF Peaks
    <3>2. g[(x[1] + x[2]) \div 2] = g[x[1]]
      BY <1>3
    <3> QED
      BY <3>1, <3>2
  <2> QED
    BY <2>1
<1> HIDE DEF tops, loud
<1>7. Times(g, loud)
  <2>1. IsFiniteSet(0 .. n - 1) /\ loud \subseteq 0 .. n - 1
    BY <1>4, FS_Interval
  <2>2. \A p \in loud : p \in Int /\ g[p] \in Int
    BY <2>1
  <2> QED
    BY <2>1, <2>2, FS_Subset DEF Times
<1>8. Times(g, tops)
  BY <1>5, <1>7, FS_Subset DEF Times
<1>9. Keeps(g, tops, Spread(g, tops))
  BY <1>8, SpreadIs
<1>10. Spread(g, tops) \subseteq tops
  BY <1>9 DEF Keeps
<1>11. kept \subseteq loud
  BY <1>5, <1>10
<1>12. Times(g, kept)
  BY <1>7, <1>11, FS_Subset DEF Times
<1>13. ASSUME NEW t \in tops
       PROVE  \E p \in kept : g[t] <= g[p]
  <2>1. CASE scipy
    <3>1. PICK p \in tops : /\ \A q \in tops : ~Louder(g, q, p)
                            /\ \A q \in tops : g[q] <= g[p]
      BY <1>8, <1>13, LoudestOf
    <3>2. p \in Spread(g, tops)
      BY <1>9, <1>10, <3>1 DEF Keeps
    <3> QED
      BY <2>1, <3>1, <3>2
  <2>2. CASE ~scipy
    <3>1. t \in kept /\ g[t] \in Int
      BY <1>5, <1>7, <2>2 DEF Times
    <3>2. g[t] <= g[t]
      BY <3>1
    <3> QED
      BY <3>1, <3>2
  <2> QED
    BY <2>1, <2>2
<1> HIDE DEF kept
<1>14. /\ IsFiniteSet(Triggers(g, scipy)) /\ Cardinality(Triggers(g, scipy)) <= MaxTriggers
       /\ Triggers(g, scipy) \subseteq kept
       /\ kept # {} => \E p \in Triggers(g, scipy) : \A q \in kept : g[q] <= g[p]
  <2>1. PICK T : T = {p \in kept : Cardinality({q \in kept : Louder(g, q, p)}) < MaxTriggers}
    OBVIOUS
  <2>2. /\ IsFiniteSet(T) /\ Cardinality(T) <= MaxTriggers
        /\ T \subseteq kept
        /\ kept # {} => \E p \in T : \A q \in kept : g[q] <= g[p]
    BY <1>12, <2>1, CappedHold
  <2>3. Triggers(g, scipy) = T
    BY <1>2, <2>1
  <2> QED
    BY <2>2, <2>3
<1>15. ASSUME NEW x \in Crests(g)
       PROVE  \E p \in Triggers(g, scipy) : g[x[1]] <= g[p]
  <2>1. PICK t \in tops : g[x[1]] = g[t]
    BY <1>6
  <2>2. PICK q \in kept : g[t] <= g[q]
    BY <1>13
  <2>3. PICK p \in Triggers(g, scipy) : g[q] <= g[p]
    BY <1>14, <2>2
  <2>4. g[t] \in Int /\ g[q] \in Int /\ g[p] \in Int
    BY <1>8, <1>12, <1>14 DEF Times
  <2>5. g[t] <= g[p]
    BY <2>2, <2>3, <2>4
  <2> QED
    BY <2>1, <2>5
<1> QED
  BY <1>4, <1>11, <1>14, <1>15

-----------------------------------------------------------------------------
(***************************************************************************)
(* The false-alarm rate                                                    *)
(***************************************************************************)
\* The rows, or events, that are at least as loud.
AsLoud(rows, x) == {r \in 1 .. Len(rows) : rows[r] >= x}

\* Where the blocks of a file start, and the rows of one.
Starts(rows) == {i \in 1 .. Len(rows) : (i - 1) % Step = 0}
Block(rows, i, x) == {r \in i .. Min({i + Step - 1, Len(rows)}) : rows[r] >= x}

\* A number that leaves no remainder is a multiple, and a multiple leaves none.
LEMMA Multiples ==
  ASSUME NEW n \in Nat \ {0}
  PROVE  /\ \A x \in Int : x % n = 0 => \E q \in Int : x = n * q
         /\ \A q \in Int : (n * q) % n = 0
<1>1. \A x \in Int : /\ x \div n \in Int /\ x % n \in 0 .. n - 1
                     /\ (n * (x \div n)) + (x % n) = x
  BY Divided
<1>2. ASSUME NEW x \in Int, x % n = 0
      PROVE  \E q \in Int : x = n * q
  <2>1. PICK q \in Int : q = x \div n
    BY <1>1
  <2>2. n * q + 0 = x /\ n * q \in Int
    BY <1>1, <1>2, <2>1
  <2> QED
    BY <2>2
<1>3. ASSUME NEW q \in Int
      PROVE  (n * q) % n = 0
  <2>1. n * q \in Int
    OBVIOUS
  <2>2. PICK p \in Int, r \in 0 .. n - 1 : p = (n * q) \div n /\ r = (n * q) % n
    BY <1>1, <2>1
  <2>3. n * p + r = n * q
    BY <1>1, <2>1, <2>2
  <2>4. q >= p + 1 => n * q >= n * p + n
    <3>1. q >= p + 1 => n * q >= n * (p + 1)
      OBVIOUS
    <3>2. n * (p + 1) = n * p + n
      OBVIOUS
    <3> QED
      BY <3>1, <3>2
  <2>5. q <= p => n * q <= n * p
    OBVIOUS
  <2>6. n * p \in Int /\ (q >= p + 1 \/ q <= p)
    OBVIOUS
  <2>7. r = 0
    BY <2>1, <2>3, <2>4, <2>5, <2>6
  <2> QED
    BY <2>2, <2>7
<1> QED
  BY <1>2, <1>3

\* Each row is in one block.
LEMMA BlocksPart ==
  ASSUME NEW rows, Len(rows) \in Nat
  PROVE  /\ \A r \in 1 .. Len(rows) : \E i \in Starts(rows) : i <= r /\ r <= i + Step - 1
         /\ \A i \in Starts(rows) : \A j \in Starts(rows) : i < j => i + Step <= j
<1>0. Step \in Nat \ {0}
  BY SearchAssumption
<1>1. ASSUME NEW r \in 1 .. Len(rows)
      PROVE  \E i \in Starts(rows) : i <= r /\ r <= i + Step - 1
  <2>1. r - 1 \in Int
    OBVIOUS
  <2>2. PICK q \in Int, m \in 0 .. Step - 1 : q = (r - 1) \div Step /\ m = (r - 1) % Step
    BY <1>0, <2>1, Divided
  <2>3. (Step * q) + m = r - 1
    BY <1>0, <2>1, <2>2, Divided
  <2>4. Step * q \in Int /\ Step * q >= 0
    <3>1. q <= -1 => Step * q <= -Step
      BY <1>0
    <3>2. Step * q \in Int /\ q \in Int /\ (q >= 0 => Step * q >= 0)
      BY <1>0
    <3> QED
      BY <1>0, <2>3, <3>1, <3>2
  <2> DEFINE i == (Step * q) + 1
  <2>5. (i - 1) % Step = 0
    <3>1. (Step * q) % Step = 0
      BY <1>0, Multiples
    <3>2. i - 1 = Step * q
      BY <2>4
    <3> QED
      BY <3>1, <3>2
  <2>6. i \in 1 .. Len(rows) /\ i <= r /\ r <= i + Step - 1
    BY <1>0, <2>3, <2>4
  <2> HIDE DEF i
  <2> QED
    BY <2>5, <2>6 DEF Starts
<1>2. ASSUME NEW i \in Starts(rows), NEW j \in Starts(rows), i < j
      PROVE  i + Step <= j
  <2>1. i \in Int /\ j \in Int /\ i - 1 \in Int /\ j - 1 \in Int
        /\ (i - 1) % Step = 0 /\ (j - 1) % Step = 0
    BY DEF Starts
  <2>2. PICK p \in Int : i - 1 = Step * p
    BY <1>0, <2>1, Multiples
  <2>3. PICK q \in Int : j - 1 = Step * q
    BY <1>0, <2>1, Multiples
  <2>4. q <= p => Step * q <= Step * p
    BY <1>0
  <2>5. q >= p + 1 => Step * q >= Step * p + Step
    <3>1. q >= p + 1 => Step * q >= Step * (p + 1)
      BY <1>0
    <3>2. Step * (p + 1) = Step * p + Step
      BY <1>0
    <3> QED
      BY <3>1, <3>2
  <2>6. Step * p \in Int /\ Step * q \in Int
    BY <1>0
  <2> QED
    BY <1>0, <1>2, <2>1, <2>2, <2>3, <2>4, <2>5, <2>6
<1> QED
  BY <1>1, <1>2

\* The rows of a block that are at least as loud are some of those of the file.
LEMMA BlockRows ==
  ASSUME NEW rows \in Seq(Int), NEW x \in Int, NEW i \in Starts(rows)
  PROVE  /\ Block(rows, i, x) = {r \in AsLoud(rows, x) : i <= r /\ r <= i + Step - 1}
         /\ IsFiniteSet(Block(rows, i, x))
<1>0. Step \in Nat \ {0} /\ Len(rows) \in Nat /\ i \in 1 .. Len(rows)
  BY SearchAssumption DEF Starts
<1> DEFINE top == Min({i + Step - 1, Len(rows)})
<1>1. top = IF i + Step - 1 <= Len(rows) THEN i + Step - 1 ELSE Len(rows)
  <2>1. i + Step - 1 \in Int /\ Len(rows) \in Int
    BY <1>0
  <2> QED
    BY <2>1, MaxMin
<1>2. Block(rows, i, x) = {r \in i .. top : rows[r] >= x}
  BY DEF Block
<1> HIDE DEF top
<1>3. \A r : r \in i .. top <=> r \in 1 .. Len(rows) /\ i <= r /\ r <= i + Step - 1
  BY <1>0, <1>1
<1>4. Block(rows, i, x) = {r \in AsLoud(rows, x) : i <= r /\ r <= i + Step - 1}
  BY <1>2, <1>3 DEF AsLoud
<1>5. IsFiniteSet(1 .. Len(rows))
  BY <1>0, FS_Interval
<1>6. Block(rows, i, x) \subseteq 1 .. Len(rows)
  BY <1>4 DEF AsLoud
<1> QED
  BY <1>4, <1>5, <1>6, FS_Subset

\* Counting block by block counts every row once.
LEMMA LoudsCount ==
  ASSUME NEW rows \in Seq(Int), NEW x \in Int
  PROVE  /\ IsFiniteSet(AsLoud(rows, x)) /\ Louds(rows, x) \in Nat
         /\ Louds(rows, x) = Cardinality(AsLoud(rows, x))
<1> DEFINE B(i) == Block(rows, i, x)
           S == Starts(rows)
           len == [i \in S |-> Cardinality(B(i))]
           b == [i \in S |-> CHOOSE f : f \in Bijection(1 .. Cardinality(B(i)), B(i))]
           h == [p \in Units(len) |-> b[p[1]][p[2]]]
<1>0. Len(rows) \in Nat /\ S \subseteq 1 .. Len(rows)
  BY DEF Starts
<1>1. IsFiniteSet(1 .. Len(rows))
  BY <1>0, FS_Interval
<1>2. IsFiniteSet(S) /\ IsFiniteSet(AsLoud(rows, x))
  BY <1>0, <1>1, FS_Subset DEF AsLoud
<1>3. Louds(rows, x) = Volume(len)
  BY DEF Louds, Starts, BlockCount, Block
<1>4. \A i \in S : /\ B(i) = {r \in AsLoud(rows, x) : i <= r /\ r <= i + Step - 1}
                   /\ IsFiniteSet(B(i))
  BY BlockRows
<1> HIDE DEF B, S
<1>5. ASSUME NEW i \in S
      PROVE  Cardinality(B(i)) \in Nat /\ b[i] \in Bijection(1 .. Cardinality(B(i)), B(i))
  <2>1. IsFiniteSet(B(i))
    BY <1>4
  <2>2. Cardinality(B(i)) \in Nat /\ ExistsBijection(1 .. Cardinality(B(i)), B(i))
    BY <2>1, FS_CardinalityType
  <2>3. \E f : f \in Bijection(1 .. Cardinality(B(i)), B(i))
    BY <2>2 DEF ExistsBijection
  <2>4. (CHOOSE f : f \in Bijection(1 .. Cardinality(B(i)), B(i)))
          \in Bijection(1 .. Cardinality(B(i)), B(i))
    BY <2>3
  <2> QED
    BY <2>2, <2>4
<1> HIDE DEF b
<1>6. DOMAIN len = S /\ \A i \in S : len[i] = Cardinality(B(i))
  OBVIOUS
<1> HIDE DEF len
<1>7. Weighs(len)
  BY <1>2, <1>5, <1>6 DEF Weighs
<1>8. IsFiniteSet(Units(len)) /\ Volume(len) \in Nat
  BY <1>7, VolumeNat
<1>9. ASSUME NEW p \in Units(len)
      PROVE  /\ p[1] \in S /\ p[2] \in 1 .. Cardinality(B(p[1])) /\ p = <<p[1], p[2]>>
             /\ h[p] \in B(p[1]) /\ h[p] \in AsLoud(rows, x)
  <2>1. PICK i \in DOMAIN len : \E n \in 1 .. len[i] : p = <<i, n>>
    BY UnitsOf
  <2>2. PICK n \in 1 .. len[i] : p = <<i, n>>
    BY <2>1
  <2>3. i \in S /\ n \in 1 .. Cardinality(B(i)) /\ p[1] = i /\ p[2] = n
    BY <1>6, <2>2
  <2>4. b[i][n] \in B(i)
    BY <1>5, <2>3 DEF Bijection, Injection
  <2>5. h[p] = b[i][n]
    BY <2>3
  <2> QED
    BY <1>4, <2>2, <2>3, <2>4, <2>5
<1>10. ASSUME NEW p \in Units(len), NEW q \in Units(len), h[p] = h[q]
       PROVE  p = q
  <2>0. PICK r \in AsLoud(rows, x) : r = h[p]
    BY <1>9
  <2>1. r \in B(p[1]) /\ r \in B(q[1]) /\ p[1] \in S /\ q[1] \in S
    BY <1>9, <1>10, <2>0
  <2> HIDE DEF h
  <2>2. /\ p[1] <= r /\ r <= p[1] + Step - 1 /\ q[1] <= r /\ r <= q[1] + Step - 1
        /\ r \in Int /\ p[1] \in Int /\ q[1] \in Int
    <3>1. \A i \in S : \A y \in B(i) : i <= y /\ y <= i + Step - 1
      BY <1>4
    <3>2. r \in Int
      BY DEF AsLoud
    <3>3. \A i \in S : i \in Int
      BY <1>0
    <3> QED
      BY <2>1, <3>1, <3>2, <3>3
  <2>3. /\ p[1] < q[1] => p[1] + Step <= q[1]
        /\ q[1] < p[1] => q[1] + Step <= p[1]
    <3>1. \A i \in S : \A j \in S : i < j => i + Step <= j
      BY <1>0, BlocksPart DEF S
    <3> QED
      BY <2>1, <3>1
  <2>4. Step \in Nat
    BY SearchAssumption
  <2>5. p[1] = q[1]
    BY <2>2, <2>3, <2>4
  <2>6. h[p] = b[p[1]][p[2]] /\ h[q] = b[p[1]][q[2]]
    BY <2>5 DEF h
  <2>7. p[2] \in 1 .. Cardinality(B(p[1])) /\ q[2] \in 1 .. Cardinality(B(p[1]))
    BY <1>9, <2>5
  <2>8. b[p[1]] \in Bijection(1 .. Cardinality(B(p[1])), B(p[1]))
    BY <1>5, <2>1
  <2>9. p[2] = q[2]
    BY <1>10, <2>6, <2>7, <2>8 DEF Bijection, Injection, IsInjective
  <2> QED
    BY <1>9, <2>5, <2>9
<1>11. ASSUME NEW r \in AsLoud(rows, x)
       PROVE  \E p \in Units(len) : h[p] = r
  <2>1. PICK i \in S : i <= r /\ r <= i + Step - 1
    <3>1. r \in 1 .. Len(rows)
      BY DEF AsLoud
    <3>2. \A y \in 1 .. Len(rows) : \E i \in S : i <= y /\ y <= i + Step - 1
      BY <1>0, BlocksPart DEF S
    <3> QED
      BY <3>1, <3>2
  <2>2. r \in B(i)
    BY <1>4, <2>1
  <2>3. b[i] \in Bijection(1 .. Cardinality(B(i)), B(i))
    BY <1>5
  <2>4. PICK n \in 1 .. Cardinality(B(i)) : b[i][n] = r
    BY <2>2, <2>3 DEF Bijection, Surjection
  <2>5. <<i, n>> \in Units(len)
    BY <1>6, <2>4, UnitsOf
  <2>6. h[<<i, n>>] = r
    BY <2>4, <2>5
  <2> QED
    BY <2>5, <2>6
<1>12. h \in Bijection(Units(len), AsLoud(rows, x))
  <2>1. h \in [Units(len) -> AsLoud(rows, x)]
    BY <1>9
  <2>2. DOMAIN h = Units(len)
    OBVIOUS
  <2> HIDE DEF h
  <2> QED
    BY <1>10, <1>11, <2>1, <2>2 DEF Bijection, Injection, Surjection, IsInjective
<1>13. Cardinality(AsLoud(rows, x)) = Cardinality(Units(len))
  <2> HIDE DEF h
  <2>1. ExistsBijection(Units(len), AsLoud(rows, x))
    BY <1>12 DEF ExistsBijection
  <2> QED
    BY <1>8, <2>1, FS_Bijection
<1>14. Volume(len) = Cardinality(Units(len))
  BY DEF Volume, Units
<1> QED
  BY <1>2, <1>3, <1>8, <1>13, <1>14

\* A tail holds as many loud events as there are, or fewer: as many, if its cut is below
\* what counts as loud; and at its cut it holds one.
LEMMA CutCounts ==
  ASSUME NEW events \in Seq(Int), NEW b, b.rows \in Seq(Int), b.cut \in Int, NEW x \in Int,
         NEW from \in Injection(DOMAIN b.rows, DOMAIN events), Tails(b, events, from)
  PROVE  LET n == Cardinality(AsLoud(b.rows, x))
             louder == Cardinality(AsLoud(events, x))
         IN  /\ n \in Nat /\ louder \in Nat /\ n <= louder
             /\ b.cut < x => n = louder
             /\ b.cut = x => n > 0
<1> DEFINE R == AsLoud(b.rows, x)
           E == AsLoud(events, x)
           f == [r \in R |-> from[r]]
<1>1. IsFiniteSet(R) /\ IsFiniteSet(E)
  BY LoudsCount
<1>2. Cardinality(R) \in Nat /\ Cardinality(E) \in Nat
  BY <1>1, FS_CardinalityType
<1>3. /\ from \in [DOMAIN b.rows -> DOMAIN events]
      /\ \A r \in DOMAIN b.rows : \A q \in DOMAIN b.rows : from[r] = from[q] => r = q
  BY DEF Injection, IsInjective
<1>4. /\ R = {r \in DOMAIN b.rows : b.rows[r] >= x}
      /\ E = {i \in DOMAIN events : events[i] >= x}
  BY DEF AsLoud
<1> HIDE DEF R, E
<1>5. /\ \E r \in DOMAIN b.rows : b.rows[r] = b.cut
      /\ \A r \in DOMAIN b.rows : b.rows[r] = events[from[r]] /\ b.cut <= b.rows[r]
      /\ \A i \in DOMAIN events : (\E r \in DOMAIN b.rows : i = from[r]) \/ events[i] <= b.cut
  BY <1>3 DEF Tails, Range
<1>6. f \in [R -> E]
  BY <1>3, <1>4, <1>5
<1>7. f \in Injection(R, E)
  <2>1. \A r \in R : \A q \in R : f[r] = f[q] => r = q
    BY <1>3, <1>4
  <2> HIDE DEF f
  <2> QED
    BY <1>6, <2>1 DEF Injection, IsInjective
<1>8. Cardinality(R) <= Cardinality(E)
  BY <1>1, <1>7, FS_Injection
<1>9. ASSUME b.cut < x
      PROVE  Cardinality(R) = Cardinality(E)
  <2>1. ASSUME NEW i \in E
        PROVE  \E r \in R : f[r] = i
    <3>1. i \in DOMAIN events /\ events[i] >= x /\ events[i] \in Int
      BY <1>4
    <3>2. ~(events[i] <= b.cut)
      BY <1>9, <3>1
    <3>3. PICK r \in DOMAIN b.rows : i = from[r]
      BY <1>5, <3>1, <3>2
    <3>4. r \in R
      BY <1>4, <1>5, <3>1, <3>3
    <3> QED
      BY <3>3, <3>4
  <2> HIDE DEF f
  <2>2. f \in Surjection(R, E)
    BY <1>6, <2>1 DEF Surjection
  <2>3. Cardinality(E) <= Cardinality(R)
    BY <1>1, <2>2, FS_Surjection
  <2> QED
    BY <1>2, <1>8, <2>3
<1>10. ASSUME b.cut = x
       PROVE  Cardinality(R) > 0
  <2>1. PICK r \in DOMAIN b.rows : b.rows[r] = b.cut
    BY <1>5
  <2>2. R # {}
    BY <1>4, <1>10, <2>1
  <2>3. Cardinality(R) # 0
    BY <1>1, <2>2, FS_EmptySet
  <2> QED
    BY <1>2, <2>3
<1> QED
  BY <1>2, <1>8, <1>9, <1>10 DEF R, E

\* The rate of a score, and whether it is exact or a bound, is true of all the events; but
\* at the cut of a tail the exact rate may be too low.
LEMMA FarHonest ==
  ASSUME Recorded, NEW c \in Cases, NEW x \in Int
  PROVE  LET louder == Cardinality({i \in DOMAIN c.events : c.events[i] >= x})
             far == ComputeFar(x, c.background)
         IN  CASE far.bound = "exact" ->
                    /\ louder > 0 /\ far.n <= louder
                    /\ \/ far.n = louder
                       \/ c.background.kind = "tail" /\ x = c.background.cut
               [] far.bound = "upper" -> louder = 0
               [] far.bound = "lower" -> far.n <= louder
               [] far.bound = "none" -> c.background.kind = "none"
<1> DEFINE b == c.background
           louder == Cardinality({i \in DOMAIN c.events : c.events[i] >= x})
           far == ComputeFar(x, b)
<1>1. /\ c.events \in Seq(Int) /\ b.rows \in Seq(Int) /\ b.cut \in Int
      /\ \/ b.kind = "none"
         \/ b.kind = "full" /\ b.rows = c.events
         \/ b.kind = "tail"
            /\ \E from \in Injection(DOMAIN b.rows, DOMAIN c.events) : Tails(b, c.events, from)
  BY DEF Recorded
<1>2. louder = Cardinality(AsLoud(c.events, x)) /\ louder \in Nat
  <2>1. {i \in DOMAIN c.events : c.events[i] >= x} = AsLoud(c.events, x)
    BY <1>1 DEF AsLoud
  <2> QED
    BY <1>1, <2>1, LoudsCount, FS_CardinalityType
<1>3. far.n = Louds(b.rows, x)
      /\ far.bound = IF b.kind = "none" THEN "none"
                     ELSE IF b.kind = "tail" /\ x < b.cut THEN "lower"
                     ELSE IF far.n = 0 THEN "upper" ELSE "exact"
  BY DEF ComputeFar
<1>4. b.kind = "full" => far.n = louder
  BY <1>1, <1>2, <1>3, LoudsCount
<1> HIDE DEF louder, far, b
<1>5. ASSUME b.kind = "tail"
      PROVE  /\ far.n \in Nat /\ far.n <= louder
             /\ b.cut < x => far.n = louder
             /\ b.cut = x => far.n > 0
  <2>1. PICK from \in Injection(DOMAIN b.rows, DOMAIN c.events) : Tails(b, c.events, from)
    BY <1>1, <1>5
  <2>2. far.n = Cardinality(AsLoud(b.rows, x))
    BY <1>1, <1>3, LoudsCount
  <2>3. /\ Cardinality(AsLoud(b.rows, x)) \in Nat /\ Cardinality(AsLoud(c.events, x)) \in Nat
        /\ Cardinality(AsLoud(b.rows, x)) <= Cardinality(AsLoud(c.events, x))
        /\ b.cut < x => Cardinality(AsLoud(b.rows, x)) = Cardinality(AsLoud(c.events, x))
        /\ b.cut = x => Cardinality(AsLoud(b.rows, x)) > 0
    BY <1>1, <2>1, CutCounts
  <2> QED
    BY <1>2, <2>2, <2>3
<1>6. /\ far.bound \in {"exact", "upper", "lower", "none"}
      /\ far.bound = "exact" => /\ louder > 0 /\ far.n <= louder
                                /\ far.n = louder \/ (b.kind = "tail" /\ x = b.cut)
      /\ far.bound = "upper" => louder = 0
      /\ far.bound = "lower" => far.n <= louder
      /\ far.bound = "none" => b.kind = "none"
  <2>1. CASE b.kind = "none"
    BY <1>3, <2>1
  <2>2. CASE b.kind = "full"
    <3>1. far.n = louder /\ far.bound = IF far.n = 0 THEN "upper" ELSE "exact"
      BY <1>3, <1>4, <2>2
    <3>2. far.n = 0 => louder = 0
      BY <3>1
    <3>3. far.n # 0 => louder > 0 /\ far.n <= louder
      BY <1>2, <3>1
    <3> QED
      BY <3>1, <3>2, <3>3
  <2>3. CASE b.kind = "tail"
    <3>1. CASE x < b.cut
      <4>1. far.bound = "lower" /\ far.n <= louder
        BY <1>3, <1>5, <2>3, <3>1
      <4> QED
        BY <4>1
    <3>2. CASE ~(x < b.cut)
      <4>1. far.bound = IF far.n = 0 THEN "upper" ELSE "exact"
        BY <1>3, <2>3, <3>2
      <4>2. x = b.cut \/ b.cut < x
        BY <1>1, <3>2
      <4>3. far.n = 0 => louder = 0
        BY <1>5, <2>3, <4>2
      <4>4. far.n # 0 => louder > 0 /\ far.n <= louder /\ (far.n = louder \/ x = b.cut)
        BY <1>2, <1>5, <2>3, <4>2
      <4> QED
        BY <2>3, <4>1, <4>3, <4>4
    <3> QED
      BY <3>1, <3>2
  <2> QED
    BY <1>1, <2>1, <2>2, <2>3
<1>7. CASE far.bound = "exact"
  BY <1>6, <1>7 DEF louder, far, b
<1>8. CASE far.bound = "upper"
  BY <1>6, <1>8 DEF louder, far, b
<1>9. CASE far.bound = "lower"
  BY <1>6, <1>9 DEF louder, far, b
<1>10. CASE far.bound = "none"
  BY <1>6, <1>10 DEF louder, far, b
<1> QED
  BY <1>6, <1>7, <1>8, <1>9, <1>10

-----------------------------------------------------------------------------
(***************************************************************************)
(* The plan                                                                *)
(***************************************************************************)
\* What Begin, or Target, makes of the case.
PlanOf(c) ==
    IF c.kind = "pygrb"
    THEN LET q == Params(c.payload)
             r == ResolveTrigger(q)
         IN  [gps |-> r.gps, window |-> r.window, t0 |-> r.t0, dets |-> Detectors(q),
              segs |-> Segments(q, r), bank |-> Bank(q)]
    ELSE [NoPlan EXCEPT !.gps = EventTime(c.payload), !.dets = c.payload.req.detectors]
Planned == plan = PlanOf(case) /\ (case.kind = "pygrb" => ~Bad(case.payload))

\* Nothing is known before the plan, and the plan is that of the case.
PlanInv ==
    /\ case \in Cases
    /\ pc \in {"request", "fetch", "filter", "report", "done"}
    /\ answer.status \in {"none", "success", "failure"}
    /\ plan = NoPlan \/ Planned
    /\ pc \in {"fetch", "filter", "report"} => Planned
    /\ pc = "request" => /\ plan = NoPlan /\ online = <<>> /\ route = NoRoute
                         /\ best = NoBest /\ trigs = {} /\ ti = 0
    /\ pc \in {"filter", "report"} => case.kind = "pygrb" /\ route = NoRoute

LEMMA PlanInit == Init => PlanInv
BY DEF Init, PlanInv, NoAnswer

\* A failure leaves the plan as it is.
LEMMA PlanRaise ==
  ASSUME PlanInv, Raise
  PROVE  PlanInv'
BY DEF PlanInv, Raise, Planned, Failure, NoAnswer

LEMMA PlanStep ==
  ASSUME PlanInv, [Next]_vars
  PROVE  PlanInv'
<1>1. CASE Refuse \/ NoSky \/ NoStrain \/ NoTime \/ FetchRaises \/ Missing \/ LibraryRaises
  <2>1. Raise
    BY <1>1 DEF Refuse, NoSky, NoStrain, NoTime, FetchRaises, Missing, LibraryRaises
  <2> QED
    BY <2>1, PlanRaise
<1>2. CASE DryRun
  BY <1>2 DEF DryRun, PlanInv, Planned, NoAnswer
<1>3. CASE Begin
  BY <1>3 DEF Begin, PlanInv, Planned, PlanOf
<1>4. CASE Target
  BY <1>4 DEF Target, PlanInv, Planned, PlanOf
<1>5. CASE FetchStrain
  BY <1>5 DEF FetchStrain, PlanInv, Planned
<1>6. CASE FetchOnsource
  BY <1>6 DEF FetchOnsource, PlanInv, Planned
<1>7. CASE Conditioned
  BY <1>7 DEF Conditioned, PlanInv, Planned
<1>8. CASE Filter
  BY <1>8 DEF Filter, PlanInv, Planned
<1>9. CASE NextSegment
  BY <1>9 DEF NextSegment, PlanInv, Planned
<1>10. CASE LastSegment
  BY <1>10 DEF LastSegment, PlanInv, Planned
<1>11. CASE Report
  BY <1>11 DEF Report, PlanInv, Planned, NoAnswer
<1>12. CASE Infer
  BY <1>12 DEF Infer, PlanInv, Planned, NoAnswer
<1>13. CASE UNCHANGED vars
  BY <1>13 DEF vars, PlanInv, Planned
<1> QED
  BY <1>1, <1>2, <1>3, <1>4, <1>5, <1>6, <1>7, <1>8, <1>9, <1>10, <1>11, <1>12, <1>13 DEF Next

\* A list given by its places.
LEMMA Listed ==
  ASSUME NEW n \in Nat, NEW f, f = [k \in 1 .. n |-> f[k]]
  PROVE  Len(f) = n /\ DOMAIN f = 1 .. n
<1> DEFINE S == {f[k] : k \in 1 .. n}
<1>1. f \in [1 .. n -> S]
  OBVIOUS
<1>2. f \in Seq(S)
  BY <1>1
<1> HIDE DEF S
<1>3. DOMAIN f = 1 .. n /\ DOMAIN f = 1 .. Len(f) /\ Len(f) \in Nat
  BY <1>1, <1>2
<1> QED
  BY <1>3

\* Every search has a template.
LEMMA BankOf ==
  ASSUME NEW q, q.bank \in Seq(Nat \X Nat), q.bank_n \in Nat \ {0}
  PROVE  Len(Bank(q)) \in Nat \ {0} /\ DOMAIN Bank(q) = 1 .. Len(Bank(q))
<1>1. CASE q.bank # <<>>
  BY <1>1 DEF Bank
<1>2. CASE q.bank = <<>> /\ q.chirp # <<>>
  <2>1. \E f : Bank(q) = [k \in 1 .. q.bank_n |-> f[k]]
    <3> DEFINE line(r) == Linspace(r[1], r[2], q.bank_n)
               f == [k \in 1 .. q.bank_n |-> <<line(q.chirp)[k], line(q.chirp)[k]>>]
    <3>1. Bank(q) = f
      BY <1>2 DEF Bank
    <3>2. f = [k \in 1 .. q.bank_n |-> f[k]]
      OBVIOUS
    <3> QED
      BY <3>1, <3>2
  <2>2. Bank(q) = [k \in 1 .. q.bank_n |-> Bank(q)[k]]
    BY <2>1
  <2> QED
    BY <2>2, Listed
<1>3. CASE q.bank = <<>> /\ ~(q.chirp # <<>>) /\ q.mass1 # <<>> /\ q.mass2 # <<>>
  <2> DEFINE n == q.bank_n * q.bank_n
  <2>1. n \in Nat \ {0}
    OBVIOUS
  <2>2. \E f : Bank(q) = [k \in 1 .. n |-> f[k]]
    <3> DEFINE line(r) == Linspace(r[1], r[2], q.bank_n)
               f == [k \in 1 .. n |-> <<line(q.mass1)[((k - 1) \div q.bank_n) + 1],
                                        line(q.mass2)[((k - 1) % q.bank_n) + 1]>>]
    <3>1. Bank(q) = f
      BY <1>3 DEF Bank
    <3>2. f = [k \in 1 .. n |-> f[k]]
      OBVIOUS
    <3> QED
      BY <3>1, <3>2
  <2> HIDE DEF n
  <2>3. Bank(q) = [k \in 1 .. n |-> Bank(q)[k]]
    BY <2>2
  <2> QED
    BY <2>1, <2>3, Listed
<1>4. CASE q.bank = <<>> /\ ~(q.chirp # <<>>) /\ ~(q.mass1 # <<>> /\ q.mass2 # <<>>)
  <2>1. Bank(q) = <<q.mass>>
    BY <1>4 DEF Bank
  <2>2. <<q.mass>> \in Seq({q.mass}) /\ Len(<<q.mass>>) = 1
    OBVIOUS
  <2> QED
    BY <2>1, <2>2
<1> QED
  BY <1>1, <1>2, <1>3, <1>4

\* What is known of a plan, whatever the request.
IsList(s) == DOMAIN s = 1 .. Len(s) /\ Len(s) \in Nat
SoundPlan(p) ==
    /\ ToSet(p.dets) \subseteq Valid /\ p.gps \in Int /\ p.window \in Nat
    /\ \E n \in Nat \ {0} : p.segs = Cut(p.gps, p.window, n) /\ (n = 1 \/ n <= 2 * p.window)
    /\ IsList(p.segs) /\ Len(p.segs) >= 1 /\ IsList(p.bank) /\ Len(p.bank) >= 1
    /\ \A k \in DOMAIN p.segs : p.segs[k].first \in Int /\ p.segs[k].size \in Nat

\* Where the search is centred and how wide it is: whole samples, and for a fit's merger
\* times the median, with nsigma deviations to either side.
LEMMA TriggerIs ==
  ASSUME NEW q, ResolveTrigger(q).ok, q.samples \in Seq(Int), q.trigger \in Int, q.sigma \in Int,
         q.window \in Nat, q.nsigma \in Nat
  PROVE  /\ ResolveTrigger(q).gps \in Int /\ ResolveTrigger(q).window \in Nat
         /\ q.samples # <<>> /\ q.mode = "t0" =>
              /\ ResolveTrigger(q).gps = Median(q.samples) + MjdEpoch
              /\ q.nsigma * Pstdev(q.samples) <= ResolveTrigger(q).window
<1>1. PICK r : r = ResolveTrigger(q)
  OBVIOUS
<1>2. PICK s \in Seq(Int) : s = q.samples
  OBVIOUS
<1>3. PICK w \in Nat, k \in Nat : w = q.window /\ k = q.nsigma
  OBVIOUS
<1>4. CASE s # <<>>
  <2>1. PICK m \in Int, d \in Nat : m = Median(s) /\ d = Pstdev(s)
    BY <1>4, MedianHalves, PstdevIs
  <2>2. d # Unset
    BY DEF Unset
  <2>3. r = IF q.mode = "fixed"
            THEN [ok |-> TRUE, gps |-> m + MjdEpoch, window |-> w, t0 |-> "fixed"]
            ELSE [ok |-> TRUE, gps |-> m + MjdEpoch, window |-> Max({w, k * d}), t0 |-> "kn_posterior"]
    BY <1>1, <1>2, <1>3, <1>4, <2>1, <2>2 DEF ResolveTrigger, ToGps
  <2>4. PICK x \in Int : x = k * d
    OBVIOUS
  <2>5. Max({w, x}) = IF w <= x THEN x ELSE w
    <3>1. w \in Int /\ x \in Int
      OBVIOUS
    <3>2. \A a, b \in Int : Max({a, b}) = IF a <= b THEN b ELSE a
      BY MaxMin
    <3> QED
      BY <3>1, <3>2
  <2>6. m + MjdEpoch \in Int
    BY SearchAssumption
  <2>7. Max({w, x}) \in Nat /\ x <= Max({w, x})
    BY <2>5
  <2>8. r.gps = m + MjdEpoch /\ (q.mode = "t0" => r.window = Max({w, x})) /\ r.window \in {w, Max({w, x})}
    BY <2>3, <2>4
  <2> QED
    BY <1>1, <1>2, <1>3, <2>1, <2>4, <2>6, <2>7, <2>8
<1>5. CASE s = <<>>
  <2>1. PICK t \in Int, d \in Int : t = q.trigger /\ d = q.sigma
    OBVIOUS
  <2>2. ToGps(t, q.format) \in Int
    BY SearchAssumption DEF ToGps
  <2>3. t # Unset
    BY <1>2, <1>5, <2>1 DEF ResolveTrigger, NoTrigger
  <2>4. r = IF q.mode = "fixed" \/ d = Unset
            THEN [ok |-> TRUE, gps |-> ToGps(t, q.format), window |-> w, t0 |-> "fixed"]
            ELSE [ok |-> TRUE, gps |-> ToGps(t, q.format), window |-> Max({w, k * d}), t0 |-> "kn_sigma"]
    BY <1>1, <1>2, <1>3, <1>5, <2>1, <2>3 DEF ResolveTrigger
  <2>5. PICK x \in Int : x = k * d
    OBVIOUS
  <2>6. Max({w, x}) = IF w <= x THEN x ELSE w
    <3>1. w \in Int /\ x \in Int
      OBVIOUS
    <3>2. \A a, b \in Int : Max({a, b}) = IF a <= b THEN b ELSE a
      BY MaxMin
    <3> QED
      BY <3>1, <3>2
  <2>7. r.gps \in Int /\ r.window \in {w, Max({w, x})}
    BY <2>2, <2>4, <2>5
  <2> QED
    BY <1>1, <1>2, <1>5, <2>6, <2>7
<1> QED
  BY <1>4, <1>5

LEMMA PlanFacts ==
  ASSUME WellAsked, NEW c \in Cases, c.kind = "pygrb" => ~Bad(c.payload)
  PROVE  /\ PlanOf(c).dets \in Seq(STRING) /\ IsInjective(PlanOf(c).dets)
         /\ c.kind = "pygrb" => SoundPlan(PlanOf(c))
         /\ c.kind # "pygrb" => PlanOf(c).segs = <<>> /\ PlanOf(c).bank = <<>>
<1>1. CASE c.kind = "pygrb"
  <2>1. PICK q : q = Params(c.payload)
    OBVIOUS
  <2>2. PICK r : r = ResolveTrigger(q)
    OBVIOUS
  <2>3. PICK p : p = PlanOf(c)
    OBVIOUS
  <2>4. p = [gps |-> r.gps, window |-> r.window, t0 |-> r.t0, dets |-> Detectors(q),
             segs |-> Segments(q, r), bank |-> Bank(q)]
    BY <1>1, <2>1, <2>2, <2>3 DEF PlanOf
  <2>5. /\ q.detectors \in Seq(STRING) /\ IsInjective(q.detectors)
        /\ q.bank \in Seq(Nat \X Nat) /\ q.bank_n \in Nat \ {0} /\ q.subseg \in Nat
    BY <1>1, <2>1 DEF WellAsked
  <2>6. r.gps \in Int /\ r.window \in Nat
    <3>1. /\ q.samples \in Seq(Int) /\ q.trigger \in Int /\ q.sigma \in Int
          /\ q.window \in Nat /\ q.nsigma \in Nat
      BY <1>1, <2>1 DEF WellAsked
    <3>2. r.ok
      BY <1>1, <2>1, <2>2 DEF Bad
    <3> QED
      BY <2>2, <3>1, <3>2, TriggerIs
  <2>7. p.dets \in Seq(STRING) /\ IsInjective(p.dets) /\ ToSet(p.dets) \subseteq Valid
    <3> DEFINE at == {k \in DOMAIN q.detectors : q.detectors[k] \in Valid}
    <3>1. p.dets = Picked(q.detectors, at)
      BY <2>4 DEF Detectors
    <3>2. at \in SUBSET DOMAIN q.detectors /\ \A i \in at : q.detectors[i] \in Valid
      OBVIOUS
    <3> HIDE DEF at
    <3>3. IsInjective(Picked(q.detectors, at))
      BY <2>5, <3>2, PickedOnce
    <3>4. /\ Picked(q.detectors, at) \in Seq(STRING)
          /\ \A k \in 1 .. Len(Picked(q.detectors, at)) :
               \E i \in at : Picked(q.detectors, at)[k] = q.detectors[i]
      BY <2>5, <3>2, PickedList
    <3>5. \A k \in DOMAIN p.dets : p.dets[k] \in Valid
      BY <3>1, <3>2, <3>4
    <3> QED
      BY <3>1, <3>3, <3>4, <3>5 DEF ToSet
  <2>8. PICK n \in Nat \ {0} : n = SubCount(r.window, q.subseg) /\ (n = 1 \/ n <= 2 * r.window)
    BY <2>5, <2>6, Pieces
  <2>9. p.segs = Cut(p.gps, p.window, n) /\ p.gps \in Int /\ p.window \in Nat
    BY <2>4, <2>5, <2>6, <2>8 DEF Segments, Cut
  <2>10. IsList(p.segs) /\ Len(p.segs) = n
    <3>1. p.segs = [k \in 1 .. n |-> p.segs[k]]
      BY <2>9 DEF Cut
    <3> QED
      BY <3>1, Listed DEF IsList
  <2>11. \A k \in DOMAIN p.segs : p.segs[k].first \in Int /\ p.segs[k].size \in Nat
    <3>1. \A k \in 1 .. n : /\ Segment(p.gps, p.window, n, k).first \in Int
                            /\ Segment(p.gps, p.window, n, k).size \in Nat
      BY <2>9, PiecesTile
    <3>2. \A k \in 1 .. n : p.segs[k] = Segment(p.gps, p.window, n, k)
      BY <2>9 DEF Cut
    <3> QED
      BY <2>10, <3>1, <3>2 DEF IsList
  <2>12. IsList(p.bank) /\ Len(p.bank) >= 1
    BY <2>4, <2>5, BankOf DEF IsList
  <2>13. \E m \in Nat \ {0} : p.segs = Cut(p.gps, p.window, m) /\ (m = 1 \/ m <= 2 * p.window)
    BY <2>4, <2>8, <2>9
  <2>14. SoundPlan(p)
    BY <2>7, <2>9, <2>10, <2>11, <2>12, <2>13 DEF SoundPlan
  <2> QED
    BY <1>1, <2>3, <2>7, <2>14
<1>2. CASE c.kind # "pygrb"
  <2>1. c.kind = "aframe"
    BY <1>2, SearchAssumption
  <2>2. PlanOf(c) = [NoPlan EXCEPT !.gps = EventTime(c.payload), !.dets = c.payload.req.detectors]
    BY <1>2 DEF PlanOf
  <2>3. /\ PlanOf(c).dets = c.payload.req.detectors
        /\ PlanOf(c).segs = <<>> /\ PlanOf(c).bank = <<>>
    BY <2>2 DEF NoPlan
  <2>4. c.payload.req.detectors \in Seq(STRING) /\ IsInjective(c.payload.req.detectors)
    BY <2>1 DEF WellAsked
  <2> QED
    BY <1>2, <2>3, <2>4
<1> QED
  BY <1>1, <1>2

\* The same of the plan in hand.
LEMMA PlanKnown ==
  ASSUME WellAsked, PlanInv
  PROVE  /\ plan.dets \in Seq(STRING) /\ IsInjective(plan.dets)
         /\ Planned /\ case.kind = "pygrb" => SoundPlan(plan)
         /\ ~(Planned /\ case.kind = "pygrb") => plan.segs = <<>> /\ plan.bank = <<>>
<1>1. CASE Planned
  <2>1. case \in Cases /\ (case.kind = "pygrb" => ~Bad(case.payload)) /\ plan = PlanOf(case)
    BY <1>1 DEF PlanInv, Planned
  <2> QED
    BY <1>1, <2>1, PlanFacts
<1>2. CASE ~Planned
  <2>1. plan = NoPlan
    BY <1>2 DEF PlanInv
  <2>2. plan.dets = <<>> /\ plan.segs = <<>> /\ plan.bank = <<>>
    BY <2>1 DEF NoPlan
  <2>3. <<>> \in Seq(STRING) /\ DOMAIN <<>> = {}
    OBVIOUS
  <2> QED
    BY <1>2, <2>2, <2>3 DEF IsInjective
<1> QED
  BY <1>1, <1>2

\* The subsegments of a plan cover its window.
LEMMA TiledAlways == ASSUME WellAsked, PlanInv PROVE WindowTiled
<1> SUFFICES ASSUME plan.segs # <<>>
             PROVE  /\ \A t \in plan.gps - plan.window .. (plan.gps + plan.window - 1) - 1 :
                         {t, t + 1} \cap Covered(plan.segs) # {}
                    /\ Covered(plan.segs)
                         \subseteq plan.gps - plan.window - 1 .. plan.gps + plan.window - 1 + 1
  BY DEF WindowTiled, Covered
<1>1. SoundPlan(plan)
  BY PlanKnown
<1>2. PICK n \in Nat \ {0} : /\ plan.segs = Cut(plan.gps, plan.window, n)
                             /\ n = 1 \/ n <= 2 * plan.window
  BY <1>1 DEF SoundPlan
<1>3. plan.gps \in Int /\ plan.window \in Nat
  BY <1>1 DEF SoundPlan
<1> QED
  BY <1>2, <1>3, CutTiles

\* No detector is read outside its strain.
LEMMA FilledAlways == ASSUME WellAsked, PlanInv PROVE NoZeroFill
<1> SUFFICES ASSUME NEW k \in DOMAIN plan.segs, NEW i \in ToSet(plan.dets),
                    NEW j \in 0 .. plan.segs[k].size - 1
             PROVE  AlignedAt(plan.segs[k], Delay[i], j) = {plan.segs[k].first + j + Delay[i]}
  BY DEF NoZeroFill
<1>1. plan.segs # <<>>
  OBVIOUS
<1>2. SoundPlan(plan)
  BY <1>1, PlanKnown
<1>3. /\ plan.segs[k].first \in Int /\ plan.segs[k].size \in Nat
      /\ Delay[i] \in -(Pad + Psd - Psd \div 2 - Fir) .. (Edge - Fir)
  BY <1>2, SearchAssumption DEF SoundPlan
<1> QED
  BY <1>3, GridAligned

\* What the request says of the trigger's times and widths reaches the search, whatever a
\* live event adds.
LEMMA ParamsKeep ==
  ASSUME NEW p, NEW q, q = Over(p.req, Defaults)
  PROVE  /\ Params(p).samples = q.samples /\ Params(p).mode = q.mode
         /\ Params(p).window = q.window /\ Params(p).nsigma = q.nsigma
<1> DEFINE Same(x) == /\ {"samples", "mode", "window", "nsigma"} \subseteq DOMAIN x
                      /\ x.samples = q.samples /\ x.mode = q.mode
                      /\ x.window = q.window /\ x.nsigma = q.nsigma
<1>1. Same(q)
  BY DEF Over, Defaults
<1>2. \A x, v : Same(x) => Same([x EXCEPT !.trigger = v, !.format = "gps"])
  OBVIOUS
<1>3. \A x, v : Same(x) => Same([x EXCEPT !.source = v])
  OBVIOUS
<1>4. \A x, v : Same(x) => Same(Over(x, [sky |-> v]))
  BY DEF Over
<1>5. Same(Params(p))
  <2> HIDE DEF Same
  <2> QED
    BY <1>1, <1>2, <1>3, <1>4 DEF Params
<1> QED
  BY <1>5

LEMMA FitHeld == ASSUME WellAsked, PlanInv PROVE WindowHoldsFit
<1>1. PICK q : q = Over(case.payload.req, Defaults)
  OBVIOUS
<1> SUFFICES ASSUME plan.segs # <<>>, q.samples # <<>>, q.mode = "t0"
             PROVE  Cardinality({i \in DOMAIN q.samples :
                                   LET x == q.samples[i] + MjdEpoch - plan.gps
                                   IN  x > plan.window \/ -x > plan.window})
                      * (q.nsigma - 1) * (q.nsigma - 1) <= Len(q.samples)
  BY <1>1 DEF WindowHoldsFit
<1>2. Planned /\ case.kind = "pygrb" /\ case \in Cases
  BY PlanKnown DEF PlanInv
<1>3. PICK p : p = Params(case.payload)
  OBVIOUS
<1>4. p.samples = q.samples /\ p.mode = q.mode /\ p.nsigma = q.nsigma
  BY <1>1, <1>3, ParamsKeep
<1>5. /\ p.samples \in Seq(Int) /\ p.trigger \in Int /\ p.sigma \in Int
      /\ p.window \in Nat /\ p.nsigma \in Nat
  BY <1>2, <1>3 DEF WellAsked
<1>6. ResolveTrigger(p).ok
  BY <1>2, <1>3 DEF Planned, Bad
<1>7. PICK r : r = ResolveTrigger(p)
  OBVIOUS
<1>8. plan.gps = r.gps /\ plan.window = r.window
  BY <1>2, <1>3, <1>7 DEF Planned, PlanOf
<1>9. PICK s \in Seq(Int), k \in Nat, w \in Nat :
         s = q.samples /\ k = q.nsigma /\ w = plan.window /\ s # <<>>
  BY <1>4, <1>5, <1>6, <1>7, <1>8, TriggerIs
<1>10. plan.gps = Median(s) + MjdEpoch /\ k * Pstdev(s) <= w
  BY <1>4, <1>5, <1>6, <1>7, <1>8, <1>9, TriggerIs
<1>11. Cardinality(Off(s, w)) * (k - 1) * (k - 1) <= Len(s)
  BY <1>9, <1>10, FewAreOff
<1>12. {i \in DOMAIN q.samples :
          LET x == q.samples[i] + MjdEpoch - plan.gps
          IN  x > plan.window \/ -x > plan.window} = Off(s, w)
  <2>1. PICK m \in Int, e \in Int : m = Median(s) /\ e = MjdEpoch
    BY <1>9, MedianHalves, SearchAssumption
  <2>2. \A i \in DOMAIN s : s[i] + e - (m + e) = s[i] - m
    <3>1. \A i \in DOMAIN s : s[i] \in Int
      OBVIOUS
    <3> QED
      BY <3>1
  <2> QED
    BY <1>9, <1>10, <2>1, <2>2 DEF Off
<1> QED
  BY <1>9, <1>11, <1>12

\* However many merger times a fit hands on and however they are spread, the window holds
\* all but the share of them that Chebyshev's bound allows outside, about their median
\* (pygrb_bridge.py 88-94, 197-232).
THEOREM WindowAlwaysHoldsFit ==
  ASSUME WellAsked
  PROVE  Spec => []WindowHoldsFit
<1>1. PlanInv /\ [Next]_vars => PlanInv'
  BY PlanStep
<1>2. PlanInv => WindowHoldsFit
  BY FitHeld
<1> QED
  BY <1>1, <1>2, PlanInit, PTL DEF Spec

-----------------------------------------------------------------------------
(***************************************************************************)
(* The detectors                                                           *)
(***************************************************************************)
\* The segment being fetched has what came of the detectors asked, and none still to ask.
OnlineInv ==
    /\ online \in Seq(SUBSET ToSet(plan.dets)) /\ ti \in 0 .. Len(plan.bank)
    /\ Len(online) <= 1 \/ Len(online) <= Len(plan.segs)
    /\ pc \in {"fetch", "filter", "report"} =>
          /\ Len(online) >= 1
          /\ case.kind = "pygrb" => Len(online) <= Len(plan.segs)
          /\ case.kind # "pygrb" => Len(online) = 1
    /\ pc = "report" => Len(online) = Len(plan.segs)
    /\ pc = "fetch" =>
          /\ todo \in Seq(STRING) /\ IsInjective(todo) /\ ToSet(todo) \subseteq ToSet(plan.dets)
          /\ ToSet(todo) \cap online[Len(online)] = {}
    /\ OnlineIsTrue

\* Frames that are indexed come, with a lookup and a client that work, if the command line
\* answers.
LEMMA FramesCome ==
  ASSUME NEW w, NEW works \in SUBSET (w \cup {"lookup", "stuck"}), "lookup" \in works,
         ~Stuck(w, works), {"gwdatafind", "cvmfs"} \cap w # {},
         PelicanExe(w) \in works \/ "pelicanfs" \in works
  PROVE  FetchFrames(w, works, TRUE) = "frames"
<1>1. "pelicanfs" \in works => "pelicanfs" \in w
  OBVIOUS
<1>2. PelicanGet(w, works) = "frames"
  BY <1>1 DEF PelicanGet
<1> QED
  BY <1>2 DEF FetchFrames

LEMMA OnlineInit == Init => OnlineInv
<1> SUFFICES ASSUME Init PROVE OnlineInv
  OBVIOUS
<1>1. <<>> \in Seq(SUBSET ToSet(<<>>)) /\ Len(<<>>) = 0
  OBVIOUS
<1> QED
  BY <1>1 DEF Init, OnlineInv, OnlineIsTrue, NoPlan

\* Steps that leave the plan and the detectors, and end the search or go on without one.
LEMMA OnlineKept ==
  ASSUME OnlineInv, UNCHANGED <<case, plan, online>>, route' = NoRoute,
         pc' \in {"done", "filter"}, pc' = "filter" => pc \in {"fetch", "filter"},
         ti' \in 0 .. Len(plan.bank)
  PROVE  OnlineInv'
BY DEF OnlineInv, OnlineIsTrue

\* The strain of one detector for pygrb.
LEMMA OnlineFetchStrain ==
  ASSUME WellAsked, PlanInv, OnlineInv, FetchStrain
  PROVE  OnlineInv'
<1>0. /\ pc = "fetch" /\ case.kind = "pygrb" /\ todo # <<>> /\ todo' = Tail(todo)
      /\ UNCHANGED <<case, pc, plan, ti>>
  BY DEF FetchStrain
<1>1. PICK works \in SUBSET (case.worker \cup {"lookup", "stuck"}), indexed \in BOOLEAN :
         LET q == Params(case.payload)
         IN  /\ route' = [ifo |-> Head(todo), works |-> works, indexed |-> indexed,
                          got |-> Strain(q, works, indexed)]
             /\ online' = [online EXCEPT ![Len(online)] = Joined(q, works, indexed, Head(todo))]
  BY DEF FetchStrain, Worlds
<1> DEFINE n == Len(online)
           i == Head(todo)
           got == Strain(Params(case.payload), works, indexed)
           D == ToSet(plan.dets)
<1>2. /\ online \in Seq(SUBSET D) /\ n \in Nat /\ n >= 1 /\ DOMAIN online = 1 .. n
      /\ todo \in Seq(STRING) /\ IsInjective(todo) /\ ToSet(todo) \subseteq D
      /\ ToSet(todo) \cap online[n] = {}
  BY <1>0 DEF OnlineInv
<1>3. /\ Tail(todo) \in Seq(STRING) /\ ToSet(todo) = {i} \cup ToSet(Tail(todo))
      /\ IsInjective(Tail(todo)) /\ i \notin ToSet(Tail(todo))
  BY <1>0, <1>2, ListTail
<1>4. /\ online' = [online EXCEPT ![n] = IF got = "frames" THEN online[n] \cup {i} ELSE online[n]]
      /\ route'.ifo = i /\ route'.works = works /\ route'.indexed = indexed /\ route'.got = got
  BY <1>1 DEF Joined
<1> HIDE DEF i, got, D
<1>5. /\ online' \in Seq(SUBSET D) /\ Len(online') = n
      /\ online'[n] = IF got = "frames" THEN online[n] \cup {i} ELSE online[n]
  <2>1. i \in D /\ online[n] \in SUBSET D
    BY <1>2, <1>3
  <2>2. (IF got = "frames" THEN online[n] \cup {i} ELSE online[n]) \in SUBSET D
    BY <2>1
  <2> QED
    BY <1>2, <1>4, <2>2
<1>6. i \in online'[n] <=> got = "frames"
  BY <1>2, <1>3, <1>5
<1>7. ToSet(Tail(todo)) \cap online'[n] = {} /\ ToSet(Tail(todo)) \subseteq D
  BY <1>2, <1>3, <1>5
<1>8. ASSUME OverOsdf, indexed, "lookup" \in works,
             {"gwdatafind", "cvmfs"} \cap case.worker # {},
             PelicanExe(case.worker) \in works \/ "pelicanfs" \in works,
             ~Stuck(case.worker, works)
      PROVE  got = "frames"
  <2>1. Params(case.payload).source = "gwdatafind" /\ indexed = TRUE
    BY <1>0, <1>8 DEF OverOsdf
  <2>2. got = FetchFrames(case.worker, works, TRUE)
    BY <2>1 DEF got, Strain
  <2> QED
    BY <1>8, <2>2, FramesCome
<1>9. OverOsdf' <=> OverOsdf
  BY <1>0 DEF OverOsdf, OnOsdf
<1>10. OnlineIsTrue'
  BY <1>0, <1>4, <1>5, <1>6, <1>8, <1>9 DEF OnlineIsTrue
<1>11. D' = D
  BY <1>0 DEF D
<1> QED
  BY <1>0, <1>2, <1>3, <1>5, <1>7, <1>10, <1>11 DEF OnlineInv, D

\* That of one detector for aframe.
LEMMA OnlineFetchOnsource ==
  ASSUME WellAsked, PlanInv, OnlineInv, FetchOnsource
  PROVE  OnlineInv'
<1>0. /\ pc = "fetch" /\ case.kind = "aframe" /\ todo # <<>> /\ todo' = Tail(todo)
      /\ UNCHANGED <<case, pc, plan, ti>>
  BY DEF FetchOnsource
<1>1. PICK works \in SUBSET (case.worker \cup {"lookup", "stuck"}), indexed \in BOOLEAN :
         LET got == Onsource(works, indexed)
         IN  /\ got # "raised"
             /\ route' = [ifo |-> Head(todo), works |-> works, indexed |-> indexed, got |-> got]
             /\ online' = [online EXCEPT ![1] = IF got = "frames" THEN @ \cup {Head(todo)} ELSE @]
  BY DEF FetchOnsource, Worlds
<1> DEFINE i == Head(todo)
           got == Onsource(works, indexed)
           D == ToSet(plan.dets)
<1>2. /\ online \in Seq(SUBSET D) /\ Len(online) = 1 /\ DOMAIN online = 1 .. 1
      /\ todo \in Seq(STRING) /\ IsInjective(todo) /\ ToSet(todo) \subseteq D
      /\ ToSet(todo) \cap online[1] = {}
  <2>1. Len(online) = 1
    BY <1>0 DEF OnlineInv
  <2>2. /\ online \in Seq(SUBSET D) /\ todo \in Seq(STRING) /\ IsInjective(todo)
        /\ ToSet(todo) \subseteq D /\ ToSet(todo) \cap online[Len(online)] = {}
    BY <1>0 DEF OnlineInv
  <2> QED
    BY <2>1, <2>2
<1>3. /\ Tail(todo) \in Seq(STRING) /\ ToSet(todo) = {i} \cup ToSet(Tail(todo))
      /\ IsInjective(Tail(todo)) /\ i \notin ToSet(Tail(todo))
  BY <1>0, <1>2, ListTail
<1>4. /\ online' = [online EXCEPT ![1] = IF got = "frames" THEN online[1] \cup {i} ELSE online[1]]
      /\ route'.ifo = i /\ route'.works = works /\ route'.indexed = indexed /\ route'.got = got
  BY <1>1
<1> HIDE DEF i, got, D
<1>5. /\ online' \in Seq(SUBSET D) /\ Len(online') = 1
      /\ online'[1] = IF got = "frames" THEN online[1] \cup {i} ELSE online[1]
  <2>1. i \in D /\ online[1] \in SUBSET D
    BY <1>2, <1>3
  <2>2. PICK x \in SUBSET D : x = IF got = "frames" THEN online[1] \cup {i} ELSE online[1]
    BY <2>1
  <2>3. online' = [online EXCEPT ![1] = x]
    BY <1>4, <2>2
  <2>4. online' \in Seq(SUBSET D) /\ Len(online') = 1 /\ online'[1] = x
    BY <1>2, <2>3
  <2> QED
    BY <2>2, <2>4
<1>6. i \in online'[1] <=> got = "frames"
  BY <1>2, <1>3, <1>5
<1>7. ToSet(Tail(todo)) \cap online'[1] = {} /\ ToSet(Tail(todo)) \subseteq D
  BY <1>2, <1>3, <1>5
<1>8. ASSUME OverOsdf, indexed, "lookup" \in works,
             {"gwdatafind", "cvmfs"} \cap case.worker # {},
             PelicanExe(case.worker) \in works \/ "pelicanfs" \in works,
             ~Stuck(case.worker, works)
      PROVE  got = "frames"
  <2>1. OnOsdf(case.payload) /\ indexed = TRUE
    BY <1>0, <1>8 DEF OverOsdf
  <2>2. got = FetchFrames(case.worker, works, TRUE)
    BY <2>1 DEF got, Onsource
  <2> QED
    BY <1>8, <2>2, FramesCome
<1>9. OverOsdf' <=> OverOsdf
  BY <1>0 DEF OverOsdf, OnOsdf
<1>10. OnlineIsTrue'
  BY <1>0, <1>4, <1>5, <1>6, <1>8, <1>9 DEF OnlineIsTrue
<1>11. D' = D
  BY <1>0 DEF D
<1> QED
  BY <1>0, <1>2, <1>3, <1>5, <1>7, <1>10, <1>11 DEF OnlineInv, D

\* The fetch that ends aframe's search got nothing, and its client did not work.
LEMMA OnlineFetchRaises ==
  ASSUME WellAsked, PlanInv, OnlineInv, FetchRaises
  PROVE  OnlineInv'
<1>0. /\ pc = "fetch" /\ case.kind = "aframe" /\ todo # <<>> /\ pc' = "done"
      /\ UNCHANGED <<case, plan, online, ti>>
  BY DEF FetchRaises, Raise
<1>1. PICK works \in SUBSET (case.worker \cup {"lookup", "stuck"}), indexed \in BOOLEAN :
         /\ Onsource(works, indexed) = "raised"
         /\ route' = [ifo |-> Head(todo), works |-> works, indexed |-> indexed, got |-> "raised"]
  BY DEF FetchRaises, Worlds
<1>2. /\ todo \in Seq(STRING) /\ ToSet(todo) \cap online[Len(online)] = {}
  BY <1>0 DEF OnlineInv
<1>3. Head(todo) \in ToSet(todo)
  BY <1>0, <1>2, ListTail
<1>4. ~(OverOsdf /\ indexed /\ "lookup" \in works
        /\ {"gwdatafind", "cvmfs"} \cap case.worker # {}
        /\ (PelicanExe(case.worker) \in works \/ "pelicanfs" \in works)
        /\ ~Stuck(case.worker, works))
  <2> SUFFICES ASSUME OverOsdf, indexed, "lookup" \in works,
                      {"gwdatafind", "cvmfs"} \cap case.worker # {},
                      PelicanExe(case.worker) \in works \/ "pelicanfs" \in works,
                      ~Stuck(case.worker, works)
               PROVE  FALSE
    OBVIOUS
  <2>1. OnOsdf(case.payload) /\ indexed = TRUE
    BY <1>0 DEF OverOsdf
  <2>2. Onsource(works, indexed) = FetchFrames(case.worker, works, TRUE)
    BY <2>1 DEF Onsource
  <2>3. FetchFrames(case.worker, works, TRUE) = "frames"
    BY FramesCome
  <2> QED
    BY <1>1, <2>2, <2>3
<1>5. OverOsdf' <=> OverOsdf
  BY <1>0 DEF OverOsdf, OnOsdf
<1>6. OnlineIsTrue'
  BY <1>0, <1>1, <1>2, <1>3, <1>4, <1>5 DEF OnlineIsTrue
<1> QED
  BY <1>0, <1>6 DEF OnlineInv

\* The first fetch: all detectors are to be asked, of the plan of the case.
LEMMA OnlineBegin ==
  ASSUME WellAsked, PlanInv, Begin \/ Target
  PROVE  OnlineInv'
<1>1. /\ pc = "request" /\ pc' = "fetch" /\ online' = <<{}>> /\ UNCHANGED <<case, route, ti>>
      /\ plan' = PlanOf(case) /\ todo' = plan'.dets
      /\ case.kind = "pygrb" => ~Bad(case.payload)
  <2>1. CASE Begin
    BY <2>1 DEF Begin, PlanOf
  <2>2. CASE Target
    <3>1. case.kind = "aframe" /\ case.kind # "pygrb"
      BY <2>2 DEF Target
    <3> QED
      BY <2>2, <3>1 DEF Target, PlanOf, NoPlan
  <2> QED
    BY <2>1, <2>2
<1>2. case \in Cases /\ route' = NoRoute /\ ti' = 0
  BY <1>1 DEF PlanInv
<1>3. /\ plan'.dets \in Seq(STRING) /\ IsInjective(plan'.dets)
      /\ case.kind = "pygrb" => SoundPlan(plan')
      /\ case.kind # "pygrb" => plan'.bank = <<>>
  BY <1>1, <1>2, PlanFacts
<1>4. Len(plan'.bank) \in Nat /\ (case.kind = "pygrb" => Len(plan'.segs) >= 1)
  BY <1>3 DEF SoundPlan, IsList
<1>5. <<{}>> \in Seq(SUBSET ToSet(plan'.dets)) /\ Len(<<{}>>) = 1 /\ <<{}>>[1] = {}
  OBVIOUS
<1>6. OnlineIsTrue'
  BY <1>2 DEF OnlineIsTrue
<1> QED
  BY <1>1, <1>2, <1>3, <1>4, <1>5, <1>6 DEF OnlineInv

\* The next segment begins like the first.
LEMMA OnlineNext ==
  ASSUME WellAsked, PlanInv, OnlineInv, NextSegment
  PROVE  OnlineInv'
<1>1. /\ pc = "filter" /\ pc' = "fetch" /\ Len(online) < Len(plan.segs)
      /\ online' = Append(online, {}) /\ todo' = plan.dets /\ UNCHANGED <<case, plan, route, ti>>
  BY DEF NextSegment
<1>2. case.kind = "pygrb" /\ route' = NoRoute /\ Planned
  BY <1>1 DEF PlanInv
<1>3. /\ plan.dets \in Seq(STRING) /\ IsInjective(plan.dets) /\ SoundPlan(plan)
  BY <1>2, PlanKnown
<1>4. Len(plan.segs) \in Nat
  BY <1>3 DEF SoundPlan, IsList
<1>5. online \in Seq(SUBSET ToSet(plan.dets)) /\ ti \in 0 .. Len(plan.bank)
  BY DEF OnlineInv
<1>6. /\ online' \in Seq(SUBSET ToSet(plan.dets)) /\ Len(online') = Len(online) + 1
      /\ online'[Len(online')] = {} /\ Len(online) \in Nat
  BY <1>1, <1>5
<1>7. OnlineIsTrue'
  BY <1>2 DEF OnlineIsTrue
<1>8. Len(online') >= 1 /\ Len(online') <= Len(plan.segs)
  BY <1>1, <1>4, <1>6
<1> QED
  BY <1>1, <1>2, <1>3, <1>5, <1>6, <1>7, <1>8 DEF OnlineInv

LEMMA OnlineStep ==
  ASSUME WellAsked, PlanInv, OnlineInv, [Next]_vars
  PROVE  OnlineInv'
<1>1. ti \in 0 .. Len(plan.bank) /\ Len(plan.bank) \in Nat
  <2>1. Len(plan.bank) \in Nat
    <3>1. CASE Planned /\ case.kind = "pygrb"
      BY <3>1, PlanKnown DEF SoundPlan, IsList
    <3>2. CASE ~(Planned /\ case.kind = "pygrb")
      BY <3>2, PlanKnown
    <3> QED
      BY <3>1, <3>2
  <2> QED
    BY <2>1 DEF OnlineInv
<1>2. CASE Refuse \/ NoSky \/ NoStrain \/ NoTime \/ Missing \/ LibraryRaises
  <2>1. Raise /\ route' = NoRoute
    BY <1>2 DEF Refuse, NoSky, NoStrain, NoTime, Missing, LibraryRaises
  <2>2. UNCHANGED <<case, plan, online, ti>> /\ pc' = "done"
    BY <2>1 DEF Raise
  <2> QED
    BY <1>1, <2>1, <2>2, OnlineKept
<1>3. CASE FetchRaises
  BY <1>3, OnlineFetchRaises
<1>4. CASE DryRun
  <2>1. pc = "request" /\ pc' = "done" /\ UNCHANGED <<case, plan, online, route, ti>>
    BY <1>4 DEF DryRun
  <2>2. route' = NoRoute
    BY <2>1 DEF PlanInv
  <2> QED
    BY <1>1, <2>1, <2>2, OnlineKept
<1>5. CASE Begin \/ Target
  BY <1>5, OnlineBegin
<1>6. CASE FetchStrain
  BY <1>6, OnlineFetchStrain
<1>7. CASE FetchOnsource
  BY <1>7, OnlineFetchOnsource
<1>8. CASE Conditioned
  <2>1. /\ pc = "fetch" /\ pc' = "filter" /\ ti' = 0 /\ route' = NoRoute
        /\ UNCHANGED <<case, plan, online>>
    BY <1>8 DEF Conditioned
  <2> QED
    BY <1>1, <2>1, OnlineKept
<1>9. CASE Filter
  <2>1. /\ pc = "filter" /\ ti < Len(plan.bank) /\ ti' = ti + 1
        /\ UNCHANGED <<case, pc, plan, online, route>>
    BY <1>9 DEF Filter
  <2>2. route' = NoRoute
    BY <2>1 DEF PlanInv
  <2>3. ti' \in 0 .. Len(plan.bank)
    BY <1>1, <2>1
  <2> QED
    BY <2>1, <2>2, <2>3, OnlineKept
<1>10. CASE NextSegment
  BY <1>10, OnlineNext
<1>11. CASE LastSegment
  <2>1. /\ pc = "filter" /\ pc' = "report" /\ Len(online) = Len(plan.segs)
        /\ UNCHANGED <<case, plan, online, route, ti>>
    BY <1>11 DEF LastSegment
  <2>2. route' = NoRoute /\ case.kind = "pygrb"
    BY <2>1 DEF PlanInv
  <2>3. OnlineIsTrue'
    BY <2>2 DEF OnlineIsTrue
  <2> QED
    BY <2>1, <2>2, <2>3 DEF OnlineInv
<1>12. CASE Report
  <2>1. /\ pc = "report" /\ pc' = "done" /\ UNCHANGED <<case, plan, online, route, ti>>
    BY <1>12 DEF Report
  <2>2. route' = NoRoute
    BY <2>1 DEF PlanInv
  <2> QED
    BY <1>1, <2>1, <2>2, OnlineKept
<1>13. CASE Infer
  <2>1. /\ pc' = "done" /\ route' = NoRoute /\ UNCHANGED <<case, plan, online, ti>>
    BY <1>13 DEF Infer
  <2> QED
    BY <1>1, <2>1, OnlineKept
<1>14. CASE UNCHANGED vars
  BY <1>14 DEF vars, OnlineInv, OnlineIsTrue, OverOsdf, OnOsdf
<1> QED
  BY <1>2, <1>3, <1>4, <1>5, <1>6, <1>7, <1>8, <1>9, <1>10, <1>11, <1>12, <1>13, <1>14 DEF Next

\* Whatever was fetched last, its detector is online exactly if its frames came, and they
\* come whenever they are indexed and a client of the worker works, unless the command line
\* runs into its time limit or cannot be run, when pelicanfs is not tried
\* (pygrb_bridge.py 414-438, igwn_strain.py 133-153).
THEOREM OnlineAlways ==
  ASSUME WellAsked
  PROVE  Spec => []OnlineIsTrue
<1>1. Init => PlanInv /\ OnlineInv
  BY PlanInit, OnlineInit
<1>2. PlanInv /\ OnlineInv /\ [Next]_vars => (PlanInv /\ OnlineInv)'
  BY PlanStep, OnlineStep
<1>3. PlanInv /\ OnlineInv => OnlineIsTrue
  BY DEF OnlineInv
<1> QED
  BY <1>1, <1>2, <1>3, PTL DEF Spec

-----------------------------------------------------------------------------
(***************************************************************************)
(* The score of aframe                                                     *)
(***************************************************************************)
\* The loudest score is one the network gave after its warm-up.
LEMMA LoudestScore ==
  ASSUME NEW scores \in Seq(Int), NEW w \in 0 .. Len(scores) - 1, NEW S,
         S = {scores[j] : j \in w + 1 .. Len(scores)}
  PROVE  Max(S) \in Int /\ \E j \in DOMAIN scores : j > w /\ scores[j] = Max(S)
<1>1. Len(scores) \in Nat /\ DOMAIN scores = 1 .. Len(scores)
  OBVIOUS
<1>2. S \in SUBSET Int /\ S # {}
  <2>1. Len(scores) \in w + 1 .. Len(scores)
    BY <1>1
  <2>2. \A j \in w + 1 .. Len(scores) : scores[j] \in Int
    BY <1>1
  <2> QED
    BY <2>1, <2>2
<1>3. IsFiniteSet(S)
  <2>1. IsFiniteSet(w + 1 .. Len(scores))
    BY <1>1, FS_Interval
  <2> QED
    BY <2>1, ValuesFinite
<1>4. Max(S) \in S /\ Max(S) \in Int
  BY <1>2, <1>3, MaxOf
<1>5. PICK j \in w + 1 .. Len(scores) : scores[j] = Max(S)
  BY <1>4
<1>6. j \in 1 .. Len(scores) /\ j > w
  BY <1>1
<1> QED
  BY <1>1, <1>4, <1>5, <1>6

\* The answer of aframe, once it has scored.
LEMMA HonestInfer ==
  ASSUME WellHeard, Recorded, PlanInv, Infer
  PROVE  ScoreIsHonest'
<1>1. case \in Cases /\ case' = case /\ online' = online
  BY DEF PlanInv, Infer
<1>2. PICK x : x = Loudest
  OBVIOUS
<1>3. PICK far : far = ComputeFar(x, case.background)
  OBVIOUS
<1>4. answer' = [NoAnswer EXCEPT !.status = "success", !.snr = x, !.at = plan.gps,
                   !.dets = ToSet(plan.dets), !.bound = far.bound, !.n = far.n]
  BY <1>2, <1>3 DEF Infer
<1>5. answer'.snr = x /\ answer'.dets = ToSet(plan.dets) /\ answer'.bound = far.bound
      /\ answer'.n = far.n
  BY <1>4 DEF NoAnswer
<1>6. case.scores \in Seq(Int) /\ case.warmup \in 0 .. Len(case.scores) - 1
  BY <1>1 DEF WellHeard
<1>7. x \in Int /\ \E j \in DOMAIN case.scores : j > case.warmup /\ case.scores[j] = x
  <2>1. PICK scores, w : scores = case.scores /\ w = case.warmup
    OBVIOUS
  <2>2. PICK S : S = {scores[j] : j \in w + 1 .. Len(scores)}
    OBVIOUS
  <2>3. Max(S) \in Int /\ \E j \in DOMAIN scores : j > w /\ scores[j] = Max(S)
    <3>1. scores \in Seq(Int) /\ w \in 0 .. Len(scores) - 1
      BY <1>6, <2>1
    <3> QED
      BY <2>2, <3>1, LoudestScore
  <2>4. x = Max(S)
    BY <1>2, <2>1, <2>2 DEF Loudest
  <2> QED
    BY <2>1, <2>3, <2>4
<1>8. ScoreIsWhole'
  <2>1. online[1] = ToSet(plan.dets)
    BY DEF Infer, Complete
  <2> QED
    BY <1>1, <1>5, <1>7, <2>1 DEF ScoreIsWhole
<1>9. FarIsHonest'
  <2>1. LET louder == Cardinality({i \in DOMAIN case.events : case.events[i] >= x})
        IN  CASE far.bound = "exact" ->
                   /\ louder > 0 /\ far.n <= louder
                   /\ \/ far.n = louder
                      \/ case.background.kind = "tail" /\ x = case.background.cut
              [] far.bound = "upper" -> louder = 0
              [] far.bound = "lower" -> far.n <= louder
              [] far.bound = "none" -> case.background.kind = "none"
    BY <1>1, <1>3, <1>7, FarHonest
  <2> QED
    BY <1>1, <1>5, <2>1 DEF FarIsHonest
<1> QED
  BY <1>8, <1>9 DEF ScoreIsHonest

LEMMA HonestStep ==
  ASSUME WellHeard, Recorded, PlanInv, ScoreIsHonest, [Next]_vars
  PROVE  ScoreIsHonest'
<1>1. CASE Infer
  BY <1>1, HonestInfer
<1>2. CASE UNCHANGED vars
  BY <1>2 DEF vars, ScoreIsHonest, ScoreIsWhole, FarIsHonest, Done
<1>3. CASE Next /\ ~Infer
  <2>1. ~Done("aframe")'
    <3>1. CASE Refuse \/ NoSky \/ NoStrain \/ NoTime \/ FetchRaises \/ Missing \/ LibraryRaises
      <4>1. Raise
        BY <3>1 DEF Refuse, NoSky, NoStrain, NoTime, FetchRaises, Missing, LibraryRaises
      <4> QED
        BY <4>1 DEF Raise, Done, Failure, NoAnswer
    <3>2. CASE DryRun \/ Report
      BY <3>2 DEF DryRun, Report, Done
    <3>3. CASE Begin \/ Target \/ FetchStrain \/ FetchOnsource \/ Conditioned \/ Filter
               \/ NextSegment \/ LastSegment
      BY <3>3 DEF Begin, Target, FetchStrain, FetchOnsource, Conditioned, Filter, NextSegment,
                  LastSegment, Done
    <3> QED
      BY <1>3, <3>1, <3>2, <3>3 DEF Next
  <2> QED
    BY <2>1 DEF ScoreIsHonest, ScoreIsWhole, FarIsHonest
<1> QED
  BY <1>1, <1>2, <1>3

\* An answer of aframe is the score of all detectors asked for, and what it says of the
\* false-alarm rate is true of the whole background, but for a score at the cut of a tail,
\* whose rate may be too low (aframe_bridge.py 75-83, 105-149, slim_background.py 49-65).
THEOREM ScoreAlwaysHonest ==
  ASSUME WellHeard, Recorded
  PROVE  Spec => []ScoreIsHonest
<1>1. Init => PlanInv /\ ScoreIsHonest
  BY PlanInit DEF Init, ScoreIsHonest, ScoreIsWhole, FarIsHonest, Done
<1>2. PlanInv /\ ScoreIsHonest /\ [Next]_vars => (PlanInv /\ ScoreIsHonest)'
  BY PlanStep, HonestStep
<1> QED
  BY <1>1, <1>2, PTL DEF Spec

-----------------------------------------------------------------------------
(***************************************************************************)
(* The statistic                                                           *)
(***************************************************************************)
\* The statistic of a template at a time, by the case and the detectors alone.
Heard(c, i, m, at) ==
    LET h == {g \in c.sky : g.ifo = i /\ g.mass = m /\ g.at \in at}
    IN  IF h = {} THEN 0 ELSE Max({g.snr : g \in h})
Sound(c, on, m, t) == Volume([i \in on |-> Heard(c, i, m, {t + Delay[i]})])

LEMMA SoundIs ==
  ASSUME NEW k, NEW m, NEW t
  PROVE  Stat(k, m, t) = Sound(case, online[k], m, t)
BY DEF Stat, Sound, Output, Heard

LEMMA HeardNat ==
  ASSUME WellHeard, NEW c \in Cases, NEW i, NEW m, NEW at
  PROVE  Heard(c, i, m, at) \in Nat
<1> DEFINE h == {g \in c.sky : g.ifo = i /\ g.mass = m /\ g.at \in at}
           v == {g.snr : g \in h}
           f == [g \in h |-> g.snr]
<1>1. IsFiniteSet(h) /\ \A g \in h : g.snr \in Nat
  BY FS_Subset DEF WellHeard
<1>2. f \in Surjection(h, v)
  BY DEF Surjection
<1>3. IsFiniteSet(v) /\ v \subseteq Nat /\ (h # {} => v # {})
  BY <1>1, <1>2, FS_Surjection
<1>4. Heard(c, i, m, at) = IF h = {} THEN 0 ELSE Max(v)
  BY DEF Heard
<1> HIDE DEF h, v
<1>5. v \subseteq Int
  BY <1>3
<1>6. CASE h = {}
  BY <1>4, <1>6
<1>7. CASE h # {}
  <2>1. v # {}
    BY <1>3, <1>7
  <2>2. Max(v) \in v
    BY <1>3, <1>5, <2>1, MaxOf
  <2>3. Max(v) \in Nat
    BY <1>3, <2>2
  <2> QED
    BY <1>4, <1>7, <2>3
<1> QED
  BY <1>6, <1>7

LEMMA SoundNat ==
  ASSUME WellHeard, NEW c \in Cases, NEW on, IsFiniteSet(on), NEW m, NEW t
  PROVE  Sound(c, on, m, t) \in Nat
<1> DEFINE len == [i \in on |-> Heard(c, i, m, {t + Delay[i]})]
<1>1. DOMAIN len = on /\ \A i \in on : len[i] \in Nat
  BY HeardNat
<1>2. Sound(c, on, m, t) = Volume(len)
  BY DEF Sound
<1> HIDE DEF len
<1>3. Weighs(len)
  BY <1>1 DEF Weighs
<1> QED
  BY <1>2, <1>3, VolumeNat

\* The grid has it at each of its times.
LEMMA CoherentIs ==
  ASSUME NEW s, s.first \in Int, s.size \in Nat, NEW on \in SUBSET Valid, NEW m,
         NEW j \in 0 .. s.size - 1
  PROVE  Coherent(s, on, m, j) = Sound(case, on, m, s.first + j)
<1>1. \A i \in on : AlignedAt(s, Delay[i], j) = {s.first + j + Delay[i]}
  BY SearchAssumption, GridAligned
<1>2. \A i \in on : Output(i, m, AlignedAt(s, Delay[i], j))
                     = Heard(case, i, m, {s.first + j + Delay[i]})
  BY <1>1 DEF Output, Heard
<1>3. [i \in on |-> Output(i, m, AlignedAt(s, Delay[i], j))]
        = [i \in on |-> Heard(case, i, m, {s.first + j + Delay[i]})]
  BY <1>2
<1> QED
  BY <1>3 DEF Coherent, Sound

-----------------------------------------------------------------------------
(***************************************************************************)
(* The maximum over the bank                                               *)
(***************************************************************************)
\* The grid of a segment after n templates: at each time the loudest, and its template.
GridOf(c, s, on, bank, n, g) ==
    /\ DOMAIN g = 0 .. s.size - 1
    /\ \A j \in 0 .. s.size - 1 :
         /\ g[j].snr \in Nat /\ g[j].template \in 1 .. Len(bank)
         /\ \A m \in 1 .. n : Sound(c, on, bank[m], s.first + j) <= g[j].snr
         /\ n = 0 => g[j].snr = 0 /\ g[j].template = 1
         /\ n > 0 => g[j].snr = Sound(c, on, bank[g[j].template], s.first + j)

LEMMA GridMerge ==
  ASSUME WellHeard, NEW c \in Cases, NEW s, NEW on, IsFiniteSet(on),
         NEW bank, Len(bank) \in Nat, NEW n \in Nat, n < Len(bank),
         NEW g, GridOf(c, s, on, bank, n, g),
         NEW x, \A j \in 0 .. s.size - 1 : x[j] = Sound(c, on, bank[n + 1], s.first + j)
  PROVE  GridOf(c, s, on, bank, n + 1, Merge(g, x, n + 1))
<1> DEFINE h == Merge(g, x, n + 1)
<1>1. DOMAIN g = 0 .. s.size - 1
  BY DEF GridOf
<1>2. h = [j \in DOMAIN g |-> IF x[j] > g[j].snr THEN [snr |-> x[j], template |-> n + 1] ELSE g[j]]
  BY DEF Merge
<1> HIDE DEF h
<1>3. ASSUME NEW j \in 0 .. s.size - 1
      PROVE  /\ h[j].snr \in Nat /\ h[j].template \in 1 .. Len(bank)
             /\ \A m \in 1 .. n + 1 : Sound(c, on, bank[m], s.first + j) <= h[j].snr
             /\ h[j].snr = Sound(c, on, bank[h[j].template], s.first + j)
  <2>1. /\ g[j].snr \in Nat /\ g[j].template \in 1 .. Len(bank)
        /\ \A m \in 1 .. n : Sound(c, on, bank[m], s.first + j) <= g[j].snr
        /\ n = 0 => g[j].snr = 0 /\ g[j].template = 1
        /\ n > 0 => g[j].snr = Sound(c, on, bank[g[j].template], s.first + j)
    BY DEF GridOf
  <2>2. x[j] \in Nat /\ x[j] = Sound(c, on, bank[n + 1], s.first + j)
    BY SoundNat
  <2>3. \A m \in 1 .. n : Sound(c, on, bank[m], s.first + j) \in Nat
    BY SoundNat
  <2>4. \A m \in 1 .. n + 1 : m \in 1 .. n \/ m = n + 1
    OBVIOUS
  <2>5. CASE x[j] > g[j].snr
    <3>1. h[j] = [snr |-> x[j], template |-> n + 1]
      BY <1>1, <1>2, <2>5
    <3>2. h[j].snr = x[j] /\ h[j].template = n + 1
      BY <3>1
    <3>3. \A m \in 1 .. n : Sound(c, on, bank[m], s.first + j) <= x[j]
      BY <2>1, <2>2, <2>3, <2>5
    <3> QED
      BY <2>2, <2>4, <3>2, <3>3
  <2>6. CASE ~(x[j] > g[j].snr)
    <3>1. h[j] = g[j]
      BY <1>1, <1>2, <2>6
    <3>2. x[j] <= g[j].snr
      BY <2>1, <2>2, <2>6
    <3>3. n = 0 => g[j].snr = Sound(c, on, bank[g[j].template], s.first + j)
      BY <2>1, <2>2, <3>2
    <3> QED
      BY <2>1, <2>2, <2>4, <3>1, <3>2, <3>3
  <2> QED
    BY <2>5, <2>6
<1>4. DOMAIN h = 0 .. s.size - 1
  BY <1>1, <1>2
<1>5. GridOf(c, s, on, bank, n + 1, h)
  BY <1>3, <1>4 DEF GridOf
<1> QED
  BY <1>5 DEF h

\* The peak of a grid is one of its times, and no time is louder.
LEMMA PeakIs ==
  ASSUME NEW n \in Nat, n > 0, NEW g, DOMAIN g = 0 .. n - 1, \A j \in 0 .. n - 1 : g[j].snr \in Nat
  PROVE  Peak(g) \in 0 .. n - 1 /\ \A j \in 0 .. n - 1 : g[j].snr <= g[Peak(g)].snr
<1> DEFINE f == [j \in 0 .. n - 1 |-> g[j].snr]
           v == {f[j] : j \in 0 .. n - 1}
           top == {j \in 0 .. n - 1 : g[j].snr = Max(v)}
<1>1. IsFiniteSet(v)
  <2>1. IsFiniteSet(0 .. n - 1)
    BY FS_Interval
  <2> HIDE DEF f
  <2> QED
    BY <2>1, ValuesFinite
<1>2. v \subseteq Int /\ v # {} /\ \A j \in 0 .. n - 1 : g[j].snr \in v
  <2>1. 0 \in 0 .. n - 1
    OBVIOUS
  <2> QED
    BY <2>1
<1>3. top \subseteq Nat /\ top # {} /\ \A j \in 0 .. n - 1 : g[j].snr <= Max(v)
  <2>1. Max(v) \in v /\ \A y \in v : y <= Max(v)
    <3> HIDE DEF v
    <3> QED
      BY <1>1, <1>2, MaxOf
  <2>2. PICK j \in 0 .. n - 1 : Max(v) = g[j].snr
    BY <2>1
  <2> HIDE DEF v
  <2> QED
    BY <1>2, <2>1, <2>2
<1> HIDE DEF v
<1>4. PICK j \in top : \A i \in top : j <= i
  <2> HIDE DEF top
  <2> QED
    BY <1>3, LeastNat
<1>5. j \in DOMAIN g /\ g[j].snr = Max(v)
  OBVIOUS
<1>6. \A i \in DOMAIN g : g[i].snr <= g[j].snr
  BY <1>3, <1>5
<1>7. ASSUME NEW i \in 0 .. j - 1
      PROVE  g[i].snr < g[j].snr
  <2>1. i \in 0 .. n - 1 /\ i < j /\ i \in Int /\ j \in Int
    OBVIOUS
  <2>2. i \notin top
    BY <1>4, <2>1
  <2>3. g[i].snr # g[j].snr /\ g[i].snr <= g[j].snr
    BY <1>5, <1>6, <2>1, <2>2
  <2> QED
    BY <1>5, <2>1, <2>3
<1> HIDE DEF top
<1>8. /\ Peak(g) \in DOMAIN g
      /\ \A i \in DOMAIN g : g[i].snr <= g[Peak(g)].snr
  BY <1>5, <1>6, <1>7 DEF Peak
<1> QED
  BY <1>8

-----------------------------------------------------------------------------
(***************************************************************************)
(* The candidate and the triggers of the segments that are finished        *)
(***************************************************************************)
Samples(s) == s.first .. s.first + s.size - 1
\* A candidate of a segment, as loud as any template there at any time.
TopOf(c, s, on, bank, r) ==
    /\ r.snr \in Nat /\ r.snr = Sound(c, on, r.template, r.at)
    /\ \A m \in 1 .. Len(bank) : \A t \in Samples(s) : Sound(c, on, bank[m], t) <= r.snr
\* The loudest candidate of the first n segments.
BestOf(c, p, on, n, b) ==
    /\ n = 0 => b = NoBest
    /\ n > 0 => /\ b.snr \in Nat
                /\ \E k \in 1 .. n : b.snr = Sound(c, on[k], b.template, b.at)
                /\ \A k \in 1 .. n : \A m \in 1 .. Len(p.bank) : \A t \in Samples(p.segs[k]) :
                     Sound(c, on[k], p.bank[m], t) <= b.snr

\* A series with the loudest template's statistic at each time, and the triggers of one.
SeriesOf(c, s, on, bank, g) ==
    /\ DOMAIN g = 0 .. s.size - 1
    /\ \A j \in 0 .. s.size - 1 :
         /\ g[j] \in Nat
         /\ \A m \in 1 .. Len(bank) : Sound(c, on, bank[m], s.first + j) <= g[j]
         /\ \E m \in 1 .. Len(bank) : g[j] = Sound(c, on, bank[m], s.first + j)
Marks(k, s, g, scipy) ==
    {[seg |-> k, at |-> s.first + j, snr |-> g[j]] : j \in Triggers(g, scipy)}
MarkedBy(tr, k, s, g) == \E scipy \in BOOLEAN : {x \in tr : x.seg = k} = Marks(k, s, g, scipy)
\* The triggers of the first n segments.
TrigOf(c, p, on, n, tr) ==
    /\ \A x \in tr : x.seg \in 1 .. n
    /\ \A k \in 1 .. n : \E g : /\ SeriesOf(c, p.segs[k], on[k], p.bank, g)
                                /\ MarkedBy(tr, k, p.segs[k], g)

\* The peak of the filled grid is such a candidate, and the grid is such a series.
LEMMA GridScored ==
  ASSUME WellHeard, NEW c \in Cases, NEW on, IsFiniteSet(on),
         NEW s, s.first \in Int, s.size \in Nat, s.size > 0, NEW bank,
         Len(bank) \in Nat \ {0}, NEW g, GridOf(c, s, on, bank, Len(bank), g)
  PROVE  /\ TopOf(c, s, on, bank, [snr |-> g[Peak(g)].snr, at |-> s.first + Peak(g),
                                   template |-> bank[g[Peak(g)].template]])
         /\ SeriesOf(c, s, on, bank, [j \in DOMAIN g |-> g[j].snr])
<1> DEFINE k == Peak(g)
           r == [snr |-> g[k].snr, at |-> s.first + k, template |-> bank[g[k].template]]
           h == [j \in DOMAIN g |-> g[j].snr]
<1>1. /\ DOMAIN g = 0 .. s.size - 1
      /\ \A j \in 0 .. s.size - 1 :
           /\ g[j].snr \in Nat /\ g[j].template \in 1 .. Len(bank)
           /\ \A m \in 1 .. Len(bank) : Sound(c, on, bank[m], s.first + j) <= g[j].snr
           /\ g[j].snr = Sound(c, on, bank[g[j].template], s.first + j)
  BY DEF GridOf
<1>2. k \in 0 .. s.size - 1 /\ \A j \in 0 .. s.size - 1 : g[j].snr <= g[k].snr
  BY <1>1, PeakIs
<1>3. r.snr = g[k].snr /\ r.at = s.first + k /\ r.template = bank[g[k].template]
  OBVIOUS
<1> HIDE DEF k, r
<1>4. r.snr \in Nat /\ r.snr = Sound(c, on, r.template, r.at)
  BY <1>1, <1>2, <1>3
<1>5. ASSUME NEW m \in 1 .. Len(bank), NEW t \in Samples(s)
      PROVE  Sound(c, on, bank[m], t) <= r.snr
  <2>1. PICK j \in 0 .. s.size - 1 : t = s.first + j
    <3>1. t \in Int /\ t - s.first \in 0 .. s.size - 1 /\ t = s.first + (t - s.first)
      BY DEF Samples
    <3> QED
      BY <3>1
  <2>2. Sound(c, on, bank[m], t) <= g[j].snr /\ g[j].snr \in Nat
    BY <1>1, <2>1
  <2>3. g[j].snr <= r.snr
    BY <1>2, <1>3
  <2>4. Sound(c, on, bank[m], t) \in Nat
    BY SoundNat
  <2> QED
    BY <1>4, <2>2, <2>3, <2>4
<1>6. TopOf(c, s, on, bank, r)
  BY <1>4, <1>5 DEF TopOf
<1>7. SeriesOf(c, s, on, bank, h)
  <2>1. DOMAIN h = 0 .. s.size - 1 /\ \A j \in 0 .. s.size - 1 : h[j] = g[j].snr
    BY <1>1
  <2> HIDE DEF h
  <2> QED
    BY <1>1, <2>1 DEF SeriesOf
<1> QED
  BY <1>6, <1>7 DEF r, k

\* One more segment, and the louder of its candidate and the one in hand is kept.
LEMMA BestMore ==
  ASSUME WellHeard, NEW c \in Cases, NEW p, NEW on, NEW n \in Nat,
         \A k \in 1 .. n + 1 : IsFiniteSet(on[k]),
         NEW b, BestOf(c, p, on, n, b),
         NEW r, TopOf(c, p.segs[n + 1], on[n + 1], p.bank, r)
  PROVE  BestOf(c, p, on, n + 1, Keep(b, r))
<1>1. /\ r.snr \in Nat /\ r.snr = Sound(c, on[n + 1], r.template, r.at)
      /\ \A m \in 1 .. Len(p.bank) : \A t \in Samples(p.segs[n + 1]) :
           Sound(c, on[n + 1], p.bank[m], t) <= r.snr
  BY DEF TopOf
<1>2. \A k \in 1 .. n + 1 : \A m, t : Sound(c, on[k], m, t) \in Nat
  BY SoundNat
<1>3. n + 1 \in Nat /\ n + 1 > 0 /\ \A k \in 1 .. n + 1 : k \in 1 .. n \/ k = n + 1
  OBVIOUS
<1>4. n + 1 \in 1 .. n + 1 /\ \A k \in 1 .. n : k \in 1 .. n + 1
  OBVIOUS
<1>5. CASE n = 0
  <2>1. b = NoBest
    BY <1>5 DEF BestOf
  <2>2. Keep(b, r) = r
    BY <2>1 DEF Keep
  <2>3. \A k \in 1 .. n + 1 : k = n + 1
    BY <1>5
  <2> QED
    BY <1>1, <1>3, <1>4, <2>2, <2>3 DEF BestOf
<1>6. CASE n > 0
  <2>1. /\ b.snr \in Nat
        /\ \E k \in 1 .. n : b.snr = Sound(c, on[k], b.template, b.at)
        /\ \A k \in 1 .. n : \A m \in 1 .. Len(p.bank) : \A t \in Samples(p.segs[k]) :
             Sound(c, on[k], p.bank[m], t) <= b.snr
    BY <1>6 DEF BestOf
  <2>2. b # NoBest
    <3>1. NoBest.snr = -1
      BY DEF NoBest, Unset
    <3> QED
      BY <2>1, <3>1
  <2>3. CASE r.snr > b.snr
    <3>1. Keep(b, r) = r
      BY <2>3 DEF Keep
    <3>2. ASSUME NEW k \in 1 .. n + 1, NEW m \in 1 .. Len(p.bank), NEW t \in Samples(p.segs[k])
          PROVE  Sound(c, on[k], p.bank[m], t) <= r.snr
      <4>1. CASE k \in 1 .. n
        <5>1. Sound(c, on[k], p.bank[m], t) <= b.snr /\ Sound(c, on[k], p.bank[m], t) \in Nat
          BY <1>2, <2>1, <4>1
        <5> QED
          BY <1>1, <2>1, <2>3, <5>1
      <4>2. CASE k = n + 1
        BY <1>1, <4>2
      <4> QED
        BY <1>3, <4>1, <4>2
    <3>3. \E k \in 1 .. n + 1 : r.snr = Sound(c, on[k], r.template, r.at)
      BY <1>1, <1>4
    <3>4. BestOf(c, p, on, n + 1, r)
      BY <1>1, <1>3, <3>2, <3>3 DEF BestOf
    <3> QED
      BY <3>1, <3>4
  <2>4. CASE ~(r.snr > b.snr)
    <3>1. Keep(b, r) = b
      BY <2>2, <2>4 DEF Keep
    <3>2. r.snr <= b.snr
      BY <1>1, <2>1, <2>4
    <3>3. ASSUME NEW k \in 1 .. n + 1, NEW m \in 1 .. Len(p.bank), NEW t \in Samples(p.segs[k])
          PROVE  Sound(c, on[k], p.bank[m], t) <= b.snr
      <4>1. CASE k \in 1 .. n
        BY <2>1, <4>1
      <4>2. CASE k = n + 1
        <5>1. Sound(c, on[k], p.bank[m], t) <= r.snr /\ Sound(c, on[k], p.bank[m], t) \in Nat
          BY <1>1, <1>2, <4>2
        <5> QED
          BY <1>1, <2>1, <3>2, <5>1
      <4> QED
        BY <1>3, <4>1, <4>2
    <3>4. \E k \in 1 .. n + 1 : b.snr = Sound(c, on[k], b.template, b.at)
      BY <1>4, <2>1
    <3>5. BestOf(c, p, on, n + 1, b)
      BY <1>3, <2>1, <3>3, <3>4 DEF BestOf
    <3> QED
      BY <3>1, <3>5
  <2> QED
    BY <2>3, <2>4
<1> QED
  BY <1>5, <1>6

\* And its triggers join the others.
LEMMA TrigMore ==
  ASSUME NEW c, NEW p, NEW on, NEW n \in Nat, NEW tr, TrigOf(c, p, on, n, tr),
         NEW g, SeriesOf(c, p.segs[n + 1], on[n + 1], p.bank, g), NEW scipy \in BOOLEAN
  PROVE  TrigOf(c, p, on, n + 1, tr \cup Marks(n + 1, p.segs[n + 1], g, scipy))
<1> DEFINE new == Marks(n + 1, p.segs[n + 1], g, scipy)
           all == tr \cup new
<1>1. \A x \in new : x.seg = n + 1
  BY DEF Marks
<1> HIDE DEF new
<1>2. \A x \in tr : x.seg \in 1 .. n
  BY DEF TrigOf
<1>3. n + 1 \in 1 .. n + 1 /\ \A k \in 1 .. n : k \in 1 .. n + 1 /\ k # n + 1
  OBVIOUS
<1>4. \A x \in all : x.seg \in 1 .. n + 1
  BY <1>1, <1>2, <1>3
<1>5. \A k \in 1 .. n : {x \in all : x.seg = k} = {x \in tr : x.seg = k}
  BY <1>1, <1>3
<1>6. {x \in all : x.seg = n + 1} = new
  BY <1>1, <1>2, <1>3
<1> HIDE DEF all
<1>7. ASSUME NEW k \in 1 .. n + 1
      PROVE  \E h : /\ SeriesOf(c, p.segs[k], on[k], p.bank, h)
                    /\ MarkedBy(all, k, p.segs[k], h)
  <2>1. CASE k \in 1 .. n
    <3>1. PICK h : /\ SeriesOf(c, p.segs[k], on[k], p.bank, h)
                   /\ MarkedBy(tr, k, p.segs[k], h)
      BY <2>1 DEF TrigOf
    <3>2. MarkedBy(all, k, p.segs[k], h)
      BY <1>5, <2>1, <3>1 DEF MarkedBy
    <3> QED
      BY <3>1, <3>2
  <2>2. CASE k = n + 1
    <3>1. MarkedBy(all, k, p.segs[k], g)
      BY <1>6, <2>2 DEF new, MarkedBy
    <3>2. SeriesOf(c, p.segs[k], on[k], p.bank, g)
      BY <2>2
    <3> QED
      BY <3>1, <3>2
  <2> QED
    BY <2>1, <2>2
<1>8. TrigOf(c, p, on, n + 1, all)
  BY <1>4, <1>7 DEF TrigOf
<1> QED
  BY <1>8 DEF all, new

\* Neither depends on the detectors of a segment not finished.
LEMMA FinishedKept ==
  ASSUME NEW c, NEW p, NEW on, NEW more, NEW n \in Nat, \A k \in 1 .. n : more[k] = on[k],
         NEW b, NEW tr, BestOf(c, p, on, n, b), TrigOf(c, p, on, n, tr)
  PROVE  BestOf(c, p, more, n, b) /\ TrigOf(c, p, more, n, tr)
<1>1. BestOf(c, p, more, n, b)
  BY DEF BestOf
<1>2. TrigOf(c, p, more, n, tr)
  <2>1. ASSUME NEW k \in 1 .. n
        PROVE  \E g : /\ SeriesOf(c, p.segs[k], more[k], p.bank, g)
                      /\ MarkedBy(tr, k, p.segs[k], g)
    BY DEF TrigOf
  <2> QED
    BY <2>1 DEF TrigOf
<1> QED
  BY <1>1, <1>2

-----------------------------------------------------------------------------
(***************************************************************************)
(* A search that is whole                                                  *)
(***************************************************************************)
\* The segments that are scored, and what an answer has of them.
Finished == IF pc = "report" THEN Len(online) ELSE Len(online) - 1
FoundIn(c, p, on, a) ==
    /\ \E k \in DOMAIN p.segs : a.snr = Sound(c, on[k], a.template, a.at)
    /\ \A k \in DOMAIN p.segs : \A m \in 1 .. Len(p.bank) : \A t \in Samples(p.segs[k]) :
         Sound(c, on[k], p.bank[m], t) <= a.snr

\* The grid has the templates filtered, the candidate and the triggers the segments
\* finished, the answer all of them.
FoundInv ==
    /\ case.kind = "pygrb" /\ pc \in {"fetch", "filter", "report"} =>
          /\ BestOf(case, plan, online, Finished, best)
          /\ TrigOf(case, plan, online, Finished, trigs)
    /\ pc = "filter" => GridOf(case, Seg, online[Len(online)], plan.bank, ti, grid)
    /\ Searched => FoundIn(case, plan, online, answer)

\* What is known while a search goes on.
LEMMA Searching ==
  ASSUME WellAsked, PlanInv, OnlineInv, case.kind = "pygrb", pc \in {"fetch", "filter", "report"}
  PROVE  /\ case \in Cases /\ SoundPlan(plan) /\ Len(plan.bank) \in Nat \ {0}
         /\ DOMAIN plan.segs = 1 .. Len(plan.segs) /\ Len(plan.segs) \in Nat
         /\ Len(online) \in 1 .. Len(plan.segs) /\ DOMAIN online = 1 .. Len(online)
         /\ \A k \in 1 .. Len(online) : online[k] \in SUBSET Valid /\ IsFiniteSet(online[k])
         /\ \A k \in 1 .. Len(plan.segs) : plan.segs[k].first \in Int /\ plan.segs[k].size \in Nat
<1>1. case \in Cases /\ Planned
  BY DEF PlanInv
<1>2. SoundPlan(plan) /\ plan.dets \in Seq(STRING)
  BY <1>1, PlanKnown
<1>3. /\ DOMAIN plan.segs = 1 .. Len(plan.segs) /\ Len(plan.segs) \in Nat
      /\ Len(plan.bank) \in Nat \ {0} /\ ToSet(plan.dets) \subseteq Valid
      /\ \A k \in 1 .. Len(plan.segs) : plan.segs[k].first \in Int /\ plan.segs[k].size \in Nat
  BY <1>2 DEF SoundPlan, IsList
<1>4. /\ online \in Seq(SUBSET ToSet(plan.dets)) /\ Len(online) >= 1
      /\ Len(online) <= Len(plan.segs)
  BY DEF OnlineInv
<1>5. IsFiniteSet(ToSet(plan.dets))
  <2>1. DOMAIN plan.dets = 1 .. Len(plan.dets) /\ Len(plan.dets) \in Nat
    BY <1>2
  <2>2. IsFiniteSet(DOMAIN plan.dets)
    BY <2>1, FS_Interval
  <2> QED
    BY <2>2, ValuesFinite DEF ToSet
<1>6. DOMAIN online = 1 .. Len(online) /\ Len(online) \in 1 .. Len(plan.segs)
      /\ \A k \in 1 .. Len(online) : online[k] \in SUBSET ToSet(plan.dets)
  BY <1>3, <1>4
<1>7. ASSUME NEW k \in 1 .. Len(online)
      PROVE  online[k] \in SUBSET Valid /\ IsFiniteSet(online[k])
  BY <1>3, <1>5, <1>6, FS_Subset
<1> QED
  BY <1>1, <1>2, <1>3, <1>6, <1>7

\* A segment begins, or fetches: what is finished stays.
LEMMA FoundBegin ==
  ASSUME PlanInv, Begin
  PROVE  FoundInv'
<1>1. /\ pc = "request" /\ pc' = "fetch" /\ online' = <<{}>> /\ UNCHANGED <<best, trigs>>
  BY DEF Begin
<1>2. best' = NoBest /\ trigs' = {}
  BY <1>1 DEF PlanInv
<1>3. Finished' = 0
  BY <1>1 DEF Finished
<1>4. BestOf(case', plan', online', 0, best') /\ TrigOf(case', plan', online', 0, trigs')
  BY <1>2 DEF BestOf, TrigOf
<1>5. ~Searched'
  BY <1>1 DEF Searched, Done
<1> QED
  BY <1>1, <1>3, <1>4, <1>5 DEF FoundInv

LEMMA FoundFetch ==
  ASSUME WellAsked, PlanInv, OnlineInv, FoundInv, FetchStrain
  PROVE  FoundInv'
<1>1. /\ pc = "fetch" /\ case.kind = "pygrb" /\ UNCHANGED <<case, pc, plan, best, trigs>>
      /\ \E on : online' = [online EXCEPT ![Len(online)] = on]
  BY DEF FetchStrain
<1>2. Len(online) \in Nat \ {0} /\ DOMAIN online = 1 .. Len(online)
  <2>1. /\ Len(online) \in 1 .. Len(plan.segs) /\ DOMAIN online = 1 .. Len(online)
        /\ Len(plan.segs) \in Nat
    BY <1>1, Searching
  <2> QED
    BY <2>1
<1>3. /\ DOMAIN online' = 1 .. Len(online)
      /\ \A k \in 1 .. Len(online) - 1 : online'[k] = online[k]
  <2>1. PICK on : online' = [online EXCEPT ![Len(online)] = on]
    BY <1>1
  <2>2. PICK n \in Nat \ {0} : n = Len(online)
    BY <1>2
  <2>3. DOMAIN online = 1 .. n /\ online' = [online EXCEPT ![n] = on]
    BY <1>2, <2>1, <2>2
  <2>4. DOMAIN online' = 1 .. n /\ \A k \in 1 .. n - 1 : online'[k] = online[k]
    BY <2>3
  <2> QED
    BY <2>2, <2>4
<1>4. Len(online') = Len(online)
  <2>1. online' = [k \in 1 .. Len(online) |-> online'[k]]
    BY <1>1, <1>2
  <2> QED
    BY <1>2, <2>1, Listed
<1>5. Finished = Len(online) - 1 /\ Finished' = Len(online) - 1
  <2>1. pc # "report" /\ pc' # "report"
    BY <1>1
  <2> QED
    BY <1>4, <2>1 DEF Finished
<1>6. PICK n \in Nat : n = Len(online) - 1
  <2>1. Len(online) - 1 \in Nat
    BY <1>2
  <2> QED
    BY <2>1
<1>7. BestOf(case, plan, online, n, best) /\ TrigOf(case, plan, online, n, trigs)
  BY <1>1, <1>5, <1>6 DEF FoundInv
<1>8. BestOf(case, plan, online', n, best) /\ TrigOf(case, plan, online', n, trigs)
  BY <1>3, <1>6, <1>7, FinishedKept
<1>9. ~Searched' /\ pc' # "filter"
  BY <1>1 DEF Searched, Done
<1> QED
  BY <1>1, <1>5, <1>6, <1>8, <1>9 DEF FoundInv

\* The grid of a segment is empty of templates.
LEMMA FoundConditioned ==
  ASSUME WellAsked, PlanInv, OnlineInv, FoundInv, Conditioned
  PROVE  FoundInv'
<1>1. /\ pc = "fetch" /\ case.kind = "pygrb" /\ pc' = "filter" /\ ti' = 0
      /\ grid' = [j \in 0 .. Seg.size - 1 |-> [snr |-> 0, template |-> 1]]
      /\ UNCHANGED <<case, plan, online, best, trigs>>
  BY DEF Conditioned
<1>2. Len(plan.bank) \in Nat \ {0}
  BY <1>1, Searching
<1>3. Finished' = Finished /\ Seg' = Seg
  BY <1>1 DEF Finished, Seg
<1>4. GridOf(case, Seg, online[Len(online)], plan.bank, 0, grid')
  <2>1. \A j \in 0 .. Seg.size - 1 : grid'[j].snr = 0 /\ grid'[j].template = 1
    BY <1>1
  <2>2. DOMAIN grid' = 0 .. Seg.size - 1
    BY <1>1
  <2>3. 1 \in 1 .. Len(plan.bank)
    BY <1>2
  <2> QED
    BY <2>1, <2>2, <2>3 DEF GridOf
<1>5. ~Searched'
  BY <1>1 DEF Searched, Done
<1>6. BestOf(case, plan, online, Finished, best) /\ TrigOf(case, plan, online, Finished, trigs)
  BY <1>1 DEF FoundInv
<1> QED
  BY <1>1, <1>3, <1>4, <1>5, <1>6 DEF FoundInv

\* One template more.
LEMMA FoundFilter ==
  ASSUME WellAsked, WellHeard, PlanInv, OnlineInv, FoundInv, Filter
  PROVE  FoundInv'
<1>1. /\ pc = "filter" /\ pc' = "filter" /\ ti < Len(plan.bank) /\ ti' = ti + 1
      /\ UNCHANGED <<case, plan, online, best, trigs>>
  BY DEF Filter
<1>2. case.kind = "pygrb" /\ case \in Cases
  BY <1>1 DEF PlanInv
<1>3. PICK s : s = Seg
  OBVIOUS
<1>4. PICK on : on = online[Len(online)]
  OBVIOUS
<1>5. /\ s.first \in Int /\ s.size \in Nat /\ on \in SUBSET Valid /\ IsFiniteSet(on)
      /\ Len(plan.bank) \in Nat /\ ti \in Nat
  <2>1. /\ Len(online) \in 1 .. Len(plan.segs) /\ Len(plan.segs) \in Nat
        /\ Len(plan.bank) \in Nat \ {0}
        /\ \A k \in 1 .. Len(online) : online[k] \in SUBSET Valid /\ IsFiniteSet(online[k])
        /\ \A k \in 1 .. Len(plan.segs) :
             plan.segs[k].first \in Int /\ plan.segs[k].size \in Nat
    BY <1>1, <1>2, Searching
  <2>2. Len(online) \in 1 .. Len(online)
    BY <2>1
  <2>3. ti \in 0 .. Len(plan.bank)
    BY DEF OnlineInv
  <2> QED
    BY <1>3, <1>4, <2>1, <2>2, <2>3 DEF Seg
<1>6. GridOf(case, s, on, plan.bank, ti, grid)
  BY <1>1, <1>3, <1>4 DEF FoundInv
<1>7. PICK x : x = [j \in DOMAIN grid |-> Coherent(s, on, plan.bank[ti + 1], j)]
  OBVIOUS
<1>8. grid' = Merge(grid, x, ti + 1)
  BY <1>3, <1>4, <1>7 DEF Filter
<1>9. \A j \in 0 .. s.size - 1 : x[j] = Sound(case, on, plan.bank[ti + 1], s.first + j)
  <2>1. DOMAIN grid = 0 .. s.size - 1
    BY <1>6 DEF GridOf
  <2>2. \A j \in 0 .. s.size - 1 : Coherent(s, on, plan.bank[ti + 1], j)
                                    = Sound(case, on, plan.bank[ti + 1], s.first + j)
    BY <1>5, CoherentIs
  <2> QED
    BY <1>7, <2>1, <2>2
<1>10. GridOf(case, s, on, plan.bank, ti + 1, grid')
  BY <1>1, <1>2, <1>5, <1>6, <1>8, <1>9, GridMerge
<1>11. Seg' = s /\ online'[Len(online')] = on /\ Finished' = Finished
  BY <1>1, <1>3, <1>4 DEF Seg, Finished
<1>12. ~Searched'
  BY <1>1 DEF Searched, Done
<1>13. BestOf(case, plan, online, Finished, best) /\ TrigOf(case, plan, online, Finished, trigs)
  BY <1>1, <1>2 DEF FoundInv
<1> QED
  BY <1>1, <1>2, <1>10, <1>11, <1>12, <1>13 DEF FoundInv

\* A segment is finished: its candidate and its triggers join those before.
LEMMA FoundScored ==
  ASSUME WellAsked, WellHeard, PlanInv, OnlineInv, FoundInv, pc = "filter", ti = Len(plan.bank), Scored
  PROVE  /\ BestOf(case, plan, online, Len(online), best')
         /\ TrigOf(case, plan, online, Len(online), trigs')
<1>1. case.kind = "pygrb" /\ case \in Cases
  BY DEF PlanInv
<1>2. PICK s : s = Seg
  OBVIOUS
<1>3. PICK on : on = online[Len(online)]
  OBVIOUS
<1>4. /\ Len(online) \in 1 .. Len(plan.segs) /\ Len(plan.segs) \in Nat
      /\ Len(plan.bank) \in Nat \ {0}
      /\ \A k \in 1 .. Len(online) : online[k] \in SUBSET Valid /\ IsFiniteSet(online[k])
      /\ \A k \in 1 .. Len(plan.segs) : plan.segs[k].first \in Int /\ plan.segs[k].size \in Nat
  BY <1>1, Searching
<1>5. PICK n \in Nat : n + 1 = Len(online)
  <2>1. Len(online) - 1 \in Nat /\ (Len(online) - 1) + 1 = Len(online)
    BY <1>4
  <2> QED
    BY <2>1
<1>6. s = plan.segs[n + 1] /\ on = online[n + 1]
  BY <1>2, <1>3, <1>5 DEF Seg
<1>7. s.first \in Int /\ s.size \in Nat /\ \A k \in 1 .. n + 1 : IsFiniteSet(online[k])
  BY <1>4, <1>5, <1>6
<1>8. IsFiniteSet(on)
  <2>1. n + 1 \in 1 .. n + 1
    OBVIOUS
  <2> QED
    BY <1>6, <1>7, <2>1
<1>9. GridOf(case, s, on, plan.bank, Len(plan.bank), grid)
  BY <1>2, <1>3 DEF FoundInv
<1>10. BestOf(case, plan, online, n, best) /\ TrigOf(case, plan, online, n, trigs)
  <2>1. Finished = n
    BY <1>5 DEF Finished
  <2> QED
    BY <1>1, <2>1 DEF FoundInv
<1>11. PICK g : g = [j \in DOMAIN grid |-> grid[j].snr]
  OBVIOUS
<1>12. PICK r : r = [snr |-> grid[Peak(grid)].snr, at |-> s.first + Peak(grid),
                      template |-> plan.bank[grid[Peak(grid)].template]]
  OBVIOUS
<1>13. PICK scipy \in BOOLEAN : /\ DOMAIN grid # {} /\ best' = Keep(best, r)
                                /\ trigs' = trigs \cup Marks(n + 1, s, g, scipy)
  <2>1. DOMAIN grid # {} /\ best' = Keep(best, r)
    BY <1>2, <1>12 DEF Scored
  <2>2. PICK scipy \in BOOLEAN :
          trigs' = trigs \cup {[seg |-> Len(online), at |-> Seg.first + j, snr |-> g[j]] :
                                 j \in Triggers(g, scipy)}
    BY <1>11 DEF Scored
  <2>3. trigs' = trigs \cup Marks(n + 1, s, g, scipy)
    BY <1>2, <1>5, <2>2 DEF Marks
  <2> QED
    BY <2>1, <2>3
<1>14. s.size > 0
  <2>1. DOMAIN grid = 0 .. s.size - 1
    BY <1>9 DEF GridOf
  <2> QED
    BY <1>7, <1>13, <2>1
<1>15. TopOf(case, s, on, plan.bank, r) /\ SeriesOf(case, s, on, plan.bank, g)
  BY <1>1, <1>4, <1>7, <1>8, <1>9, <1>11, <1>12, <1>14, GridScored
<1>16. BestOf(case, plan, online, n + 1, Keep(best, r))
  BY <1>1, <1>6, <1>7, <1>10, <1>15, BestMore
<1>17. TrigOf(case, plan, online, n + 1, trigs \cup Marks(n + 1, s, g, scipy))
  BY <1>6, <1>10, <1>15, TrigMore
<1> QED
  BY <1>5, <1>13, <1>16, <1>17

LEMMA FoundSegment ==
  ASSUME WellAsked, WellHeard, PlanInv, OnlineInv, FoundInv, NextSegment \/ LastSegment
  PROVE  FoundInv'
<1>1. pc = "filter" /\ ti = Len(plan.bank) /\ Scored /\ UNCHANGED <<case, plan>>
  BY DEF NextSegment, LastSegment
<1>2. case.kind = "pygrb"
  BY <1>1 DEF PlanInv
<1>3. PICK n \in Nat : n = Len(online)
  <2>1. Len(online) \in 1 .. Len(plan.segs) /\ Len(plan.segs) \in Nat
    BY <1>1, <1>2, Searching
  <2>2. Len(online) \in Nat
    BY <2>1
  <2> QED
    BY <2>2
<1>4. BestOf(case, plan, online, n, best') /\ TrigOf(case, plan, online, n, trigs')
  BY <1>1, <1>3, FoundScored
<1>5. CASE NextSegment
  <2>1. pc' = "fetch" /\ online' = Append(online, {})
    BY <1>5 DEF NextSegment
  <2>2. online \in Seq(SUBSET ToSet(plan.dets))
    BY DEF OnlineInv
  <2>3. Len(online') = n + 1 /\ \A k \in 1 .. n : online'[k] = online[k]
    BY <1>3, <2>1, <2>2
  <2>4. BestOf(case, plan, online', n, best') /\ TrigOf(case, plan, online', n, trigs')
    BY <1>4, <2>3, FinishedKept
  <2>5. Finished' = n
    BY <2>1, <2>3 DEF Finished
  <2>6. ~Searched' /\ pc' # "filter"
    BY <2>1 DEF Searched, Done
  <2> QED
    BY <1>1, <2>4, <2>5, <2>6 DEF FoundInv
<1>6. CASE LastSegment
  <2>1. pc' = "report" /\ online' = online
    BY <1>6 DEF LastSegment
  <2>2. Finished' = n
    BY <1>3, <2>1 DEF Finished
  <2>3. ~Searched' /\ pc' # "filter"
    BY <2>1 DEF Searched, Done
  <2> QED
    BY <1>1, <1>4, <2>1, <2>2, <2>3 DEF FoundInv
<1> QED
  BY <1>5, <1>6

\* The answer is the candidate of all segments.
LEMMA FoundReport ==
  ASSUME WellAsked, PlanInv, OnlineInv, FoundInv, Report
  PROVE  FoundInv'
<1>1. /\ pc = "report" /\ case.kind = "pygrb" /\ pc' = "done" /\ UNCHANGED <<case, plan, online>>
      /\ answer' = [NoAnswer EXCEPT !.status = "success", !.snr = best.snr, !.at = best.at,
                      !.template = best.template, !.dets = ToSet(plan.dets),
                      !.n = Cardinality(trigs)]
  BY DEF Report
<1>2. answer'.snr = best.snr /\ answer'.at = best.at /\ answer'.template = best.template
  BY <1>1 DEF NoAnswer
<1>3. /\ DOMAIN plan.segs = 1 .. Len(plan.segs) /\ Len(online) \in 1 .. Len(plan.segs)
      /\ Len(plan.segs) \in Nat
  BY <1>1, Searching
<1>4. PICK n \in Nat : n = Len(online)
  <2>1. Len(online) \in Nat
    BY <1>3
  <2> QED
    BY <2>1
<1>5. n > 0 /\ DOMAIN plan.segs = 1 .. n
  <2>1. Len(online) = Len(plan.segs)
    BY <1>1 DEF OnlineInv
  <2> QED
    BY <1>3, <1>4, <2>1
<1>6. BestOf(case, plan, online, n, best)
  <2>1. Finished = n
    BY <1>1, <1>4 DEF Finished
  <2> QED
    BY <1>1, <2>1 DEF FoundInv
<1>7. FoundIn(case, plan, online, answer')
  <2>1. /\ \E k \in 1 .. n : best.snr = Sound(case, online[k], best.template, best.at)
        /\ \A k \in 1 .. n : \A m \in 1 .. Len(plan.bank) : \A t \in Samples(plan.segs[k]) :
             Sound(case, online[k], plan.bank[m], t) <= best.snr
    BY <1>5, <1>6 DEF BestOf
  <2> QED
    BY <1>2, <1>5, <2>1 DEF FoundIn
<1> QED
  BY <1>1, <1>7 DEF FoundInv

LEMMA FoundStep ==
  ASSUME WellAsked, WellHeard, PlanInv, OnlineInv, FoundInv, [Next]_vars
  PROVE  FoundInv'
<1>1. CASE Refuse \/ NoSky \/ NoStrain \/ NoTime \/ FetchRaises \/ Missing \/ LibraryRaises
  <2>1. Raise
    BY <1>1 DEF Refuse, NoSky, NoStrain, NoTime, FetchRaises, Missing, LibraryRaises
  <2>2. pc' = "done" /\ ~Searched'
    BY <2>1 DEF Raise, Searched, Done, Failure, NoAnswer
  <2> QED
    BY <2>2 DEF FoundInv
<1>2. CASE DryRun
  <2>1. pc = "request" /\ pc' = "done" /\ plan' = plan
    BY <1>2 DEF DryRun
  <2>2. plan' = NoPlan
    BY <2>1 DEF PlanInv
  <2>3. ~Searched'
    BY <2>2 DEF Searched
  <2> QED
    BY <2>1, <2>3 DEF FoundInv
<1>3. CASE Begin
  BY <1>3, FoundBegin
<1>4. CASE Target \/ FetchOnsource \/ Infer
  <2>1. case'.kind = "aframe" /\ pc' # "filter"
    BY <1>4 DEF Target, FetchOnsource, Infer
  <2>2. ~Searched'
    BY <2>1 DEF Searched, Done
  <2> QED
    BY <2>1, <2>2 DEF FoundInv
<1>5. CASE FetchStrain
  BY <1>5, FoundFetch
<1>6. CASE Conditioned
  BY <1>6, FoundConditioned
<1>7. CASE Filter
  BY <1>7, FoundFilter
<1>8. CASE NextSegment \/ LastSegment
  BY <1>8, FoundSegment
<1>9. CASE Report
  BY <1>9, FoundReport
<1>10. CASE UNCHANGED vars
  BY <1>10 DEF vars, FoundInv, Finished, Seg, Searched, Done
<1> QED
  BY <1>1, <1>2, <1>3, <1>4, <1>5, <1>6, <1>7, <1>8, <1>9, <1>10 DEF Next

\* The parts of a whole search follow.
LEMMA TypeAlways == ASSUME WellAsked, PlanInv, OnlineInv PROVE TypeOK
<1>1. /\ case \in Cases /\ pc \in {"request", "fetch", "filter", "report", "done"}
      /\ answer.status \in {"none", "success", "failure"}
  BY DEF PlanInv
<1>2. /\ online \in Seq(SUBSET ToSet(plan.dets)) /\ ti \in 0 .. Len(plan.bank)
      /\ Len(online) <= 1 \/ Len(online) <= Len(plan.segs)
  BY DEF OnlineInv
<1>3. \A k \in DOMAIN online : online[k] \subseteq ToSet(plan.dets)
  BY <1>2
<1>4. Len(plan.segs) \in Nat
  <2>1. CASE Planned /\ case.kind = "pygrb"
    BY <2>1, PlanKnown DEF SoundPlan, IsList
  <2>2. CASE ~(Planned /\ case.kind = "pygrb")
    BY <2>2, PlanKnown
  <2> QED
    BY <2>1, <2>2
<1>5. Len(online) <= Max({1, Len(plan.segs)})
  <2>1. Max({1, Len(plan.segs)}) = IF 1 <= Len(plan.segs) THEN Len(plan.segs) ELSE 1
    BY <1>4, MaxMin
  <2>2. Len(online) \in Nat
    BY <1>2
  <2> QED
    BY <1>2, <1>4, <2>1, <2>2
<1> QED
  BY <1>1, <1>2, <1>3, <1>5 DEF TypeOK

LEMMA FoundAlways == ASSUME WellAsked, PlanInv, FoundInv PROVE LoudestFound
<1> SUFFICES ASSUME Searched
             PROVE  /\ \E k \in DOMAIN plan.segs : answer.snr = Stat(k, answer.template, answer.at)
                    /\ \A k \in DOMAIN plan.segs : \A m \in ToSet(plan.bank) :
                         \A t \in Samples(plan.segs[k]) : Stat(k, m, t) <= answer.snr
  BY DEF LoudestFound, Samples
<1>1. FoundIn(case, plan, online, answer)
  BY DEF FoundInv
<1>2. \E k \in DOMAIN plan.segs : answer.snr = Stat(k, answer.template, answer.at)
  <2>1. PICK k \in DOMAIN plan.segs : answer.snr = Sound(case, online[k], answer.template, answer.at)
    BY <1>1 DEF FoundIn
  <2>2. PICK m, t : m = answer.template /\ t = answer.at
    OBVIOUS
  <2>3. Stat(k, m, t) = Sound(case, online[k], m, t)
    BY SoundIs
  <2> QED
    BY <2>1, <2>2, <2>3
<1>3. ASSUME NEW k \in DOMAIN plan.segs, NEW m \in ToSet(plan.bank), NEW t \in Samples(plan.segs[k])
      PROVE  Stat(k, m, t) <= answer.snr
  <2>1. Planned /\ case.kind = "pygrb"
    BY DEF Searched, Done, PlanInv
  <2>2. DOMAIN plan.bank = 1 .. Len(plan.bank)
    BY <2>1, PlanKnown DEF SoundPlan, IsList
  <2>3. PICK i \in 1 .. Len(plan.bank) : m = plan.bank[i]
    BY <2>2 DEF ToSet
  <2>4. Sound(case, online[k], plan.bank[i], t) <= answer.snr
    BY <1>1 DEF FoundIn
  <2> QED
    BY <2>3, <2>4, SoundIs
<1> QED
  BY <1>2, <1>3

\* Of one segment: its triggers were heard, and one is as loud as each of its tops.
Marked(s, g, M) ==
    /\ Cardinality(M) <= MaxTriggers
    /\ \A x \in M : \E j \in 0 .. s.size - 1 : /\ x.at = s.first + j /\ x.snr = g[j]
                                                /\ g[j] >= Threshold
    /\ \A x \in Crests(g) : \E y \in M : g[x[1]] <= y.snr
LEMMA TriggerOf ==
  ASSUME NEW c, NEW s, s.size \in Nat, NEW on, NEW bank, NEW g, SeriesOf(c, s, on, bank, g),
         NEW k, NEW scipy \in BOOLEAN
  PROVE  Marked(s, g, Marks(k, s, g, scipy))
<1> DEFINE n == s.size
           T == Triggers(g, scipy)
           M == {[seg |-> k, at |-> s.first + j, snr |-> g[j]] : j \in T}
           f == [j \in T |-> [seg |-> k, at |-> s.first + j, snr |-> g[j]]]
<1>1. DOMAIN g = 0 .. n - 1 /\ \A j \in 0 .. n - 1 : g[j] \in Nat
  BY DEF SeriesOf
<1>2. /\ IsFiniteSet(T) /\ Cardinality(T) <= MaxTriggers
      /\ T \subseteq {j \in 0 .. n - 1 : g[j] >= Threshold}
      /\ \A x \in Crests(g) : \E p \in T : g[x[1]] <= g[p]
  <2> HIDE DEF n
  <2>1. n \in Nat
    BY DEF n
  <2> QED
    BY <1>1, <2>1, TriggersHold
<1>3. f \in Surjection(T, M)
  BY DEF Surjection
<1>4. Cardinality(M) <= MaxTriggers
  <2> HIDE DEF f, M, T
  <2>1. IsFiniteSet(M) /\ Cardinality(M) <= Cardinality(T)
    BY <1>2, <1>3, FS_Surjection
  <2>2. Cardinality(M) \in Nat /\ Cardinality(T) \in Nat /\ MaxTriggers \in Nat
    BY <1>2, <2>1, FS_CardinalityType, SearchAssumption
  <2> QED
    BY <1>2, <2>1, <2>2
<1>5. ASSUME NEW x \in Crests(g)
      PROVE  \E y \in M : g[x[1]] <= y.snr
  <2>1. PICK p \in T : g[x[1]] <= g[p]
    BY <1>2
  <2>2. PICK y \in M : y = [seg |-> k, at |-> s.first + p, snr |-> g[p]]
    OBVIOUS
  <2> QED
    BY <2>1, <2>2
<1>6. ASSUME NEW x \in M
      PROVE  \E j \in 0 .. n - 1 : x.at = s.first + j /\ x.snr = g[j] /\ g[j] >= Threshold
  <2>1. PICK j \in T : x = [seg |-> k, at |-> s.first + j, snr |-> g[j]]
    OBVIOUS
  <2> QED
    BY <1>2, <2>1
<1>7. Marks(k, s, g, scipy) = M
  BY DEF Marks
<1> QED
  BY <1>4, <1>5, <1>6, <1>7 DEF Marked

\* The series of a finished segment has, at each time, the loudest of the bank's statistics.
LEMMA SeriesIs ==
  ASSUME WellHeard, case \in Cases, NEW k, IsFiniteSet(online[k]), NEW s, s.first \in Int, s.size \in Nat,
         NEW bank, DOMAIN bank = 1 .. Len(bank), NEW g, SeriesOf(case, s, online[k], bank, g),
         NEW j \in 0 .. s.size - 1, NEW v, v = {Stat(k, m, s.first + j) : m \in ToSet(bank)}
  PROVE  Max(v) = g[j]
<1>1. /\ g[j] \in Nat
      /\ \A m \in 1 .. Len(bank) : Sound(case, online[k], bank[m], s.first + j) <= g[j]
      /\ \E m \in 1 .. Len(bank) : g[j] = Sound(case, online[k], bank[m], s.first + j)
  BY DEF SeriesOf
<1>2. ASSUME NEW m \in ToSet(bank)
      PROVE  Stat(k, m, s.first + j) \in Nat /\ Stat(k, m, s.first + j) <= g[j]
  <2>1. PICK i \in 1 .. Len(bank) : m = bank[i]
    BY DEF ToSet
  <2>2. Stat(k, m, s.first + j) = Sound(case, online[k], m, s.first + j)
    BY SoundIs
  <2>3. Sound(case, online[k], m, s.first + j) \in Nat
    BY SoundNat
  <2> QED
    BY <1>1, <2>1, <2>2, <2>3
<1>3. g[j] \in v
  <2>1. PICK i \in 1 .. Len(bank) : g[j] = Sound(case, online[k], bank[i], s.first + j)
    BY <1>1
  <2>2. bank[i] \in ToSet(bank)
    BY DEF ToSet
  <2>3. Stat(k, bank[i], s.first + j) = Sound(case, online[k], bank[i], s.first + j)
    BY SoundIs
  <2> QED
    BY <2>1, <2>2, <2>3
<1>4. v \subseteq Int /\ \A y \in v : y <= g[j]
  BY <1>2
<1> QED
  BY <1>3, <1>4, MaxIs

LEMMA TriggerAlways ==
  ASSUME WellAsked, WellHeard, PlanInv, OnlineInv, FoundInv
  PROVE  LoudestIsTrigger
<1> DEFINE statOf(k) == [j \in 0 .. plan.segs[k].size - 1 |->
                           Max({Stat(k, m, plan.segs[k].first + j) : m \in ToSet(plan.bank)})]
<1> SUFFICES ASSUME pc = "report", NEW k \in DOMAIN plan.segs
             PROVE  LET s == plan.segs[k]
                        inner == 1 .. s.size - 2
                        stat == statOf(k)
                        mine == {x \in trigs : x.seg = k}
                    IN  /\ Cardinality(mine) <= MaxTriggers
                        /\ \A x \in mine : x.snr >= Threshold /\ x.snr = stat[x.at - s.first]
                        /\ \A l, r \in inner :
                             (/\ l <= r /\ stat[l] >= Threshold
                              /\ \A j \in l .. r : stat[j] = stat[l]
                              /\ stat[l - 1] < stat[l] /\ stat[r + 1] < stat[r])
                               => \E x \in mine : x.snr >= stat[l]
  BY DEF LoudestIsTrigger
<1>1. case.kind = "pygrb" /\ case \in Cases /\ Planned
  BY DEF PlanInv
<1>2. /\ Len(online) \in 1 .. Len(plan.segs) /\ Len(plan.segs) \in Nat
      /\ DOMAIN plan.segs = 1 .. Len(plan.segs)
      /\ \A i \in 1 .. Len(online) : IsFiniteSet(online[i])
      /\ \A i \in 1 .. Len(plan.segs) : plan.segs[i].first \in Int /\ plan.segs[i].size \in Nat
  BY <1>1, Searching
<1>3. DOMAIN plan.bank = 1 .. Len(plan.bank)
  BY <1>1, PlanKnown DEF SoundPlan, IsList
<1>4. Len(online) = Len(plan.segs) /\ k \in 1 .. Len(online)
  <2>1. Len(online) = Len(plan.segs)
    BY DEF OnlineInv
  <2> QED
    BY <1>2, <2>1
<1> DEFINE s == plan.segs[k]
           mine == {x \in trigs : x.seg = k}
<1>5. s.first \in Int /\ s.size \in Nat /\ IsFiniteSet(online[k])
  BY <1>2, <1>4
<1>6. TrigOf(case, plan, online, Len(online), trigs)
  BY <1>1 DEF FoundInv, Finished
<1>7. PICK g : SeriesOf(case, s, online[k], plan.bank, g) /\ MarkedBy(trigs, k, s, g)
  BY <1>4, <1>6 DEF TrigOf
<1>8. ASSUME NEW j \in 0 .. s.size - 1
      PROVE  statOf(k)[j] = g[j]
  <2>1. PICK u : u = {Stat(k, m, s.first + j) : m \in ToSet(plan.bank)}
    OBVIOUS
  <2>2. PICK bank : bank = plan.bank
    OBVIOUS
  <2>3. statOf(k)[j] = Max(u)
    BY <2>1
  <2> HIDE DEF s, statOf, mine
  <2>4. /\ DOMAIN bank = 1 .. Len(bank) /\ SeriesOf(case, s, online[k], bank, g)
        /\ u = {Stat(k, m, s.first + j) : m \in ToSet(bank)}
    BY <1>3, <1>7, <2>1, <2>2
  <2>5. Max(u) = g[j]
    BY <1>1, <1>5, <2>4, SeriesIs
  <2> QED
    BY <2>3, <2>5
<1>9. PICK scipy \in BOOLEAN : mine = Marks(k, s, g, scipy)
  BY <1>7 DEF MarkedBy
<1> HIDE DEF s, statOf, mine
<1>10. Marked(s, g, mine)
  BY <1>5, <1>7, <1>9, TriggerOf
<1>11. DOMAIN g = 0 .. s.size - 1 /\ \A j \in 0 .. s.size - 1 : g[j] \in Nat
  BY <1>7 DEF SeriesOf
<1>12. Cardinality(mine) <= MaxTriggers
  BY <1>10 DEF Marked
<1>13. ASSUME NEW x \in mine
       PROVE  x.snr >= Threshold /\ x.snr = statOf(k)[x.at - s.first]
  <2>1. PICK j \in 0 .. s.size - 1 : x.at = s.first + j /\ x.snr = g[j] /\ g[j] >= Threshold
    BY <1>10 DEF Marked
  <2>2. x.at - s.first = j
    BY <1>5, <2>1
  <2> QED
    BY <1>8, <2>1, <2>2
<1>14. ASSUME NEW l \in 1 .. s.size - 2, NEW r \in 1 .. s.size - 2, l <= r,
              statOf(k)[l] >= Threshold, \A j \in l .. r : statOf(k)[j] = statOf(k)[l],
              statOf(k)[l - 1] < statOf(k)[l], statOf(k)[r + 1] < statOf(k)[r]
       PROVE  \E x \in mine : x.snr >= statOf(k)[l]
  <2>1. Cardinality(DOMAIN g) = s.size
    <3>1. s.size - 1 \in Int /\ 0 \in Int
      BY <1>5
    <3>2. Cardinality(0 .. (s.size - 1)) = IF 0 > s.size - 1 THEN 0 ELSE (s.size - 1) - 0 + 1
      BY <3>1, FS_Interval
    <3> QED
      BY <1>5, <1>11, <3>2
  <2>2. /\ l \in 0 .. s.size - 1 /\ r \in 0 .. s.size - 1 /\ l - 1 \in 0 .. s.size - 1
        /\ r + 1 \in 0 .. s.size - 1 /\ \A j \in l .. r : j \in 0 .. s.size - 1
    BY <1>5
  <2>3. statOf(k)[l] = g[l] /\ statOf(k)[r] = g[r] /\ statOf(k)[l - 1] = g[l - 1]
        /\ statOf(k)[r + 1] = g[r + 1] /\ \A j \in l .. r : statOf(k)[j] = g[j]
    BY <1>8, <2>2
  <2>4. g[l] >= Threshold /\ (\A j \in l .. r : g[j] = g[l]) /\ g[l] > g[l - 1] /\ g[r] > g[r + 1]
    BY <1>11, <1>14, <2>2, <2>3
  <2>5. <<l, r>> \in Crests(g)
    <3>1. l \in 1 .. Cardinality(DOMAIN g) - 2 /\ r \in 1 .. Cardinality(DOMAIN g) - 2
      BY <2>1
    <3> QED
      BY <1>14, <2>4, <3>1 DEF Crests
  <2>6. \E y \in mine : g[l] <= y.snr
    BY <1>10, <2>5 DEF Marked
  <2>7. PICK y \in mine : g[l] <= y.snr
    BY <2>6
  <2>8. y.snr \in Int /\ g[l] \in Int
    BY <1>10, <1>11, <2>2 DEF Marked
  <2>9. y.snr >= statOf(k)[l]
    BY <2>3, <2>7, <2>8
  <2> QED
    BY <2>9
<1> QED
  BY <1>12, <1>13, <1>14 DEF s, mine

\* If the filter leaves the delays their margin (SearchAssumption), then whatever the
\* request, the sky and the strain that came, a search leaves no time of its window out and
\* reads none that is not there; its answer is the loudest candidate of all templates, times
\* and subsegments, and beside each top of a segment it has a trigger as loud, with scipy
\* or without (pygrb_bridge.py 365-373, 407-411, 426, 445-459, 510-518, 536-544, 557-575).
THEOREM SearchAlwaysWhole ==
  ASSUME WellAsked, WellHeard
  PROVE  Spec => []SearchIsWhole
<1>1. Init => PlanInv /\ OnlineInv /\ FoundInv
  <2>1. Init => FoundInv
    BY DEF Init, FoundInv, Searched, Done
  <2> QED
    BY <2>1, PlanInit, OnlineInit
<1>2. PlanInv /\ OnlineInv /\ FoundInv /\ [Next]_vars => (PlanInv /\ OnlineInv /\ FoundInv)'
  BY PlanStep, OnlineStep, FoundStep
<1>3. PlanInv /\ OnlineInv /\ FoundInv => SearchIsWhole
  BY TypeAlways, TiledAlways, FilledAlways, FoundAlways, TriggerAlways DEF SearchIsWhole
<1> QED
  BY <1>1, <1>2, <1>3, PTL DEF Spec
=============================================================================
