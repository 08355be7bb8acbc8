----------------------------- MODULE ListLemmas -----------------------------
(***************************************************************************)
(* Facts about part of a list, in its order: how long it is, that each of  *)
(* its places is one of the positions picked, that the order is kept, and  *)
(* that nothing picked is left out; about range, head and tail; and about  *)
(* sums.                                                                   *)
(***************************************************************************)
EXTENDS Subsequence, Sums, SequencesExt, TLAPS, FiniteSetTheorems, WellFoundedInduction, NaturalsInduction

\* Every set of naturals has a least element.
LEMMA LeastNat ==
  ASSUME NEW T, T \subseteq Nat, T # {}
  PROVE  \E x \in T : \A y \in T : x <= y
<1>1. IsWellFoundedOn(OpToRel(<, Nat), Nat)
  BY NatLessThanWellFounded
<1>2. PICK x \in T : \A y \in T : ~(<<y, x>> \in OpToRel(<, Nat))
  BY <1>1, WFMin
<1>3. \A y \in T : x <= y
  <2> TAKE y \in T
  <2>1. ~(y < x)
    BY <1>2 DEF OpToRel
  <2> QED
    BY <2>1
<1> QED
  BY <1>3

\* A set of positions is finite, and so is what comes before one of them.
LEMMA PositionsFinite ==
  ASSUME NEW n \in Nat, NEW at \in SUBSET (1 .. n)
  PROVE  /\ at \subseteq Nat /\ IsFiniteSet(at) /\ Cardinality(at) \in Nat
         /\ \A i \in at : /\ IsFiniteSet(Below(at, i)) /\ Before(at, i) \in Nat
                         /\ Below(at, i) \in SUBSET at
<1>1. IsFiniteSet(1 .. n)
  BY FS_Interval
<1>2. IsFiniteSet(at)
  BY <1>1, FS_Subset
<1>3. ASSUME NEW i \in at
      PROVE  IsFiniteSet(Below(at, i)) /\ Before(at, i) \in Nat /\ Below(at, i) \in SUBSET at
  <2>1. Below(at, i) \in SUBSET at
    BY DEF Below
  <2>2. IsFiniteSet(Below(at, i))
    BY <1>2, <2>1, FS_Subset
  <2> QED
    BY <2>1, <2>2, FS_CardinalityType DEF Before
<1>4. Cardinality(at) \in Nat
  BY <1>2, FS_CardinalityType
<1> QED
  BY <1>2, <1>3, <1>4

\* Each number below the size of a set of positions is how many come before one of them.
LEMMA EveryRank ==
  ASSUME NEW n \in Nat, NEW at \in SUBSET (1 .. n), NEW r \in Nat, r < Cardinality(at)
  PROVE  \E i \in at : Before(at, i) = r
<1> DEFINE Missing == {m \in Nat : m < Cardinality(at) /\ \A i \in at : Before(at, i) # m}
<1> SUFFICES ASSUME Missing # {} PROVE FALSE
  OBVIOUS
<1>1. /\ at \subseteq Nat /\ IsFiniteSet(at) /\ Cardinality(at) \in Nat
      /\ \A i \in at : IsFiniteSet(Below(at, i)) /\ Below(at, i) \in SUBSET at
  BY PositionsFinite
<1>2. PICK m \in Missing : \A k \in Missing : m <= k
  BY LeastNat
<1>3. m \in Nat /\ m < Cardinality(at) /\ \A i \in at : Before(at, i) # m
  OBVIOUS
<1>4. \E low \in SUBSET at : /\ IsFiniteSet(low) /\ Cardinality(low) = m
                             /\ \A i \in at \ low : \A j \in low : j < i
  <2>1. CASE m = 0
    <3>1. IsFiniteSet({}) /\ Cardinality({}) = m /\ {} \in SUBSET at
      BY <2>1, FS_EmptySet
    <3> QED
      BY <3>1
  <2>2. CASE m # 0
    <3>1. m - 1 \in Nat /\ m - 1 < Cardinality(at) /\ m - 1 \notin Missing
      BY <1>1, <1>2, <1>3, <2>2
    <3>2. PICK i \in at : Before(at, i) = m - 1
      BY <3>1
    <3> DEFINE low == Below(at, i) \cup {i}
    <3>3. /\ IsFiniteSet(Below(at, i)) /\ Cardinality(Below(at, i)) = m - 1
          /\ i \notin Below(at, i) /\ low \in SUBSET at
      BY <1>1, <3>2 DEF Before, Below
    <3>4. IsFiniteSet(low) /\ Cardinality(low) = m
      BY <1>3, <2>2, <3>3, FS_AddElement
    <3>5. \A k \in at \ low : \A j \in low : j < k
      BY <1>1 DEF Below
    <3> HIDE DEF low
    <3> QED
      BY <3>3, <3>4, <3>5
  <2> QED
    BY <2>1, <2>2
<1>5. PICK low \in SUBSET at : /\ IsFiniteSet(low) /\ Cardinality(low) = m
                              /\ \A i \in at \ low : \A j \in low : j < i
  BY <1>4
<1>6. at \ low # {}
  <2>1. at # low
    BY <1>1, <1>3, <1>5
  <2> QED
    BY <1>5, <2>1
<1>7. PICK i \in at \ low : \A k \in at \ low : i <= k
  BY <1>1, <1>6, LeastNat
<1>8. Below(at, i) = low
  <2>1. ASSUME NEW j \in at
        PROVE  j < i <=> j \in low
    <3>1. i \in Nat /\ j \in Nat
      BY <1>1
    <3> QED
      BY <1>5, <1>7, <3>1
  <2> QED
    BY <2>1, <1>5 DEF Below
<1> QED
  BY <1>3, <1>5, <1>7, <1>8 DEF Before

\* What is picked is made of the elements at the positions, each of them once.
LEMMA PickedSize ==
  ASSUME NEW n \in Nat, NEW at \in SUBSET (1 .. n), NEW s
  PROVE  Cardinality(at) \in Nat /\ DOMAIN Picked(s, at) = 1 .. Cardinality(at)
BY PositionsFinite DEF Picked

\* The k-th of them is the element at position i.
Comes(s, at, k, i) == Before(at, i) + 1 = k /\ Picked(s, at)[k] = s[i]

LEMMA PickedAt ==
  ASSUME NEW n \in Nat, NEW at \in SUBSET (1 .. n), NEW s, NEW k \in 1 .. Cardinality(at)
  PROVE  \E i \in at : Comes(s, at, k, i)
<1>1. Cardinality(at) \in Nat
  BY PositionsFinite
<1>2. k - 1 \in Nat /\ k - 1 < Cardinality(at)
  BY <1>1
<1>3. \E i \in at : Before(at, i) = k - 1
  BY <1>2, EveryRank
<1> DEFINE i == CHOOSE i \in at : Before(at, i) = k - 1
<1>4. i \in at /\ Before(at, i) = k - 1
  BY <1>3
<1>5. Picked(s, at)[k] = s[i]
  BY DEF Picked
<1> HIDE DEF i
<1>6. Before(at, i) + 1 = k
  BY <1>1, <1>4
<1> QED
  BY <1>4, <1>5, <1>6 DEF Comes

\* Picked from a list over S it is a list over S, empty if nothing was picked.
LEMMA PickedList ==
  ASSUME NEW S, NEW s \in Seq(S), NEW at \in SUBSET DOMAIN s
  PROVE  /\ Picked(s, at) \in Seq(S) /\ Len(Picked(s, at)) = Cardinality(at)
         /\ Picked(s, at) = <<>> <=> at = {}
         /\ \A k \in 1 .. Len(Picked(s, at)) : \E i \in at : Picked(s, at)[k] = s[i]
<1>1. Len(s) \in Nat /\ DOMAIN s = 1 .. Len(s) /\ \A i \in DOMAIN s : s[i] \in S
  OBVIOUS
<1>2. Len(s) \in Nat /\ at \in SUBSET (1 .. Len(s))
  BY <1>1
<1>3. Cardinality(at) \in Nat /\ DOMAIN Picked(s, at) = 1 .. Cardinality(at)
  BY <1>2, PickedSize
<1>4. ASSUME NEW k \in 1 .. Cardinality(at)
      PROVE  \E i \in at : Picked(s, at)[k] = s[i]
  <2> DEFINE n == Len(s)
  <2>1. n \in Nat /\ at \in SUBSET (1 .. n)
    BY <1>2
  <2> HIDE DEF n
  <2>2. \E i \in at : Comes(s, at, k, i)
    BY <2>1, PickedAt
  <2> QED
    BY <2>2 DEF Comes
<1>5. \A k \in 1 .. Cardinality(at) : Picked(s, at)[k] \in S
  BY <1>1, <1>4
<1>6. Picked(s, at) = [k \in 1 .. Cardinality(at) |-> Picked(s, at)[k]]
  BY <1>3 DEF Picked
<1>7. Picked(s, at) \in Seq(S) /\ Len(Picked(s, at)) = Cardinality(at)
  BY <1>3, <1>5, <1>6
<1>8. Cardinality(at) = 0 <=> at = {}
  BY <1>1, PositionsFinite, FS_EmptySet
<1>9. Picked(s, at) = <<>> <=> Len(Picked(s, at)) = 0
  BY <1>7
<1> QED
  BY <1>3, <1>4, <1>7, <1>8, <1>9

\* A later position has more before it.
LEMMA RankGrows ==
  ASSUME NEW n \in Nat, NEW at \in SUBSET (1 .. n), NEW a \in at, NEW b \in at, a < b
  PROVE  Before(at, a) < Before(at, b)
<1>1. /\ at \subseteq Nat /\ IsFiniteSet(Below(at, a)) /\ IsFiniteSet(Below(at, b))
      /\ Before(at, a) \in Nat /\ Before(at, b) \in Nat
  BY PositionsFinite
<1>2. Below(at, a) \cup {a} \in SUBSET Below(at, b) /\ a \notin Below(at, a)
  <2>1. a \in Nat /\ b \in Nat /\ ~(a < a)
    BY <1>1
  <2>2. ASSUME NEW x \in at, x < a
        PROVE  x < b
    <3>1. x \in Nat
      BY <1>1
    <3> QED
      BY <2>1, <2>2, <3>1
  <2> QED
    BY <2>1, <2>2 DEF Below
<1>3. Cardinality(Below(at, a) \cup {a}) = Before(at, a) + 1
  BY <1>1, <1>2, FS_AddElement DEF Before
<1>4. Cardinality(Below(at, a) \cup {a}) <= Before(at, b)
  BY <1>1, <1>2, FS_Subset DEF Before
<1> QED
  BY <1>1, <1>3, <1>4

\* Each position picked has a place of its own, where its element is.
LEMMA PickedRank ==
  ASSUME NEW n \in Nat, NEW at \in SUBSET (1 .. n), NEW s
  PROVE  \A i \in at : /\ Before(at, i) \in Nat /\ Before(at, i) + 1 \in 1 .. Cardinality(at)
                       /\ Picked(s, at)[Before(at, i) + 1] = s[i]
                       /\ \A j \in at : Before(at, i) = Before(at, j) => i = j
<1>1. \A k \in 1 .. Cardinality(at) : \E i \in at : Comes(s, at, k, i)
  BY PickedAt
<1>2. \A i \in at : \A j \in at : i < j => Before(at, i) < Before(at, j)
  BY RankGrows
<1>3. /\ at \subseteq Nat /\ IsFiniteSet(at) /\ Cardinality(at) \in Nat
      /\ \A i \in at : /\ IsFiniteSet(Below(at, i)) /\ Before(at, i) \in Nat
                      /\ Below(at, i) \in SUBSET at
  BY PositionsFinite
<1>4. \A i \in at : Before(at, i) + 1 \in 1 .. Cardinality(at)
  <2> TAKE i \in at
  <2>1. i \in Nat /\ ~(i < i)
    BY <1>3
  <2>2. i \notin Below(at, i) /\ Below(at, i) \in SUBSET at /\ IsFiniteSet(Below(at, i))
    BY <1>3, <2>1 DEF Below
  <2>3. Cardinality(Below(at, i)) <= Cardinality(at)
        /\ Cardinality(Below(at, i)) # Cardinality(at)
    BY <1>3, <2>2, FS_Subset
  <2>4. Before(at, i) \in Nat /\ Before(at, i) = Cardinality(Below(at, i))
    BY <1>3 DEF Before
  <2> QED
    BY <1>3, <2>3, <2>4
<1>5. \A i \in at : \A j \in at : Before(at, i) = Before(at, j) => i = j
  <2> SUFFICES ASSUME NEW i \in at, NEW j \in at, Before(at, i) = Before(at, j)
               PROVE  i = j
    OBVIOUS
  <2>1. i \in Nat /\ j \in Nat /\ Before(at, i) \in Nat
    BY <1>3
  <2>2. ~(i < j) /\ ~(j < i)
    BY <1>2, <2>1
  <2> QED
    BY <2>1, <2>2
<1>6. \A i \in at : Picked(s, at)[Before(at, i) + 1] = s[i]
  <2> TAKE i \in at
  <2>1. PICK j \in at : Comes(s, at, Before(at, i) + 1, j)
    BY <1>1, <1>4
  <2>2. Before(at, j) = Before(at, i) /\ Picked(s, at)[Before(at, i) + 1] = s[j]
    BY <1>3, <2>1 DEF Comes
  <2> QED
    BY <1>5, <2>2
<1> QED
  BY <1>3, <1>4, <1>5, <1>6

\* Each element at one of the positions is picked.
LEMMA PickedAll ==
  ASSUME NEW n \in Nat, NEW at \in SUBSET (1 .. n), NEW s, NEW i \in at
  PROVE  \E k \in 1 .. Cardinality(at) : Picked(s, at)[k] = s[i]
<1>1. /\ at \subseteq Nat /\ IsFiniteSet(at) /\ Cardinality(at) \in Nat
      /\ IsFiniteSet(Below(at, i)) /\ Before(at, i) \in Nat
  BY PositionsFinite
<1> DEFINE k == Before(at, i) + 1
<1>2. k \in 1 .. Cardinality(at)
  <2>1. Below(at, i) \cup {i} \in SUBSET at /\ i \notin Below(at, i)
    BY <1>1 DEF Below
  <2>2. Cardinality(Below(at, i) \cup {i}) = k
    BY <1>1, <2>1, FS_AddElement DEF Before
  <2>3. k <= Cardinality(at)
    BY <1>1, <2>1, <2>2, FS_Subset
  <2> QED
    BY <1>1, <2>3
<1>3. ASSUME NEW j \in at, Before(at, j) = Before(at, i)
      PROVE  j = i
  <2>1. j \in Nat /\ i \in Nat /\ ~(j < i) /\ ~(i < j)
    <3>1. j \in Nat /\ i \in Nat
      BY <1>1
    <3>2. ASSUME j < i PROVE FALSE
      <4>1. Before(at, j) < Before(at, i)
        BY <3>2, RankGrows
      <4> QED
        BY <1>1, <1>3, <4>1
    <3>3. ASSUME i < j PROVE FALSE
      <4>1. Before(at, i) < Before(at, j)
        BY <3>3, RankGrows
      <4> QED
        BY <1>1, <1>3, <4>1
    <3> QED
      BY <3>1, <3>2, <3>3
  <2> QED
    BY <2>1
<1> HIDE DEF k
<1>4. PICK j \in at : Comes(s, at, k, j)
  BY <1>2, PickedAt
<1>5. j = i
  <2>1. Before(at, j) \in Nat /\ Before(at, i) \in Nat
    BY PositionsFinite
  <2>2. Before(at, j) + 1 = Before(at, i) + 1
    BY <1>4 DEF k, Comes
  <2>3. Before(at, j) = Before(at, i)
    BY <2>1, <2>2
  <2> QED
    BY <1>3, <2>3
<1> QED
  BY <1>2, <1>4, <1>5 DEF Comes

-----------------------------------------------------------------------------
(***************************************************************************)
(* Lists as such                                                           *)
(***************************************************************************)
\* A list's range: what comes first, and the rest.
LEMMA ListRange ==
  ASSUME NEW S, NEW s \in Seq(S)
  PROVE  ToSet(s) \subseteq S /\ IsFiniteSet(ToSet(s))
<1>1. Len(s) \in Nat /\ DOMAIN s = 1 .. Len(s)
  OBVIOUS
<1>2. IsFiniteSet(1 .. Len(s))
  BY <1>1, FS_Interval
<1>3. s \in Surjection(1 .. Len(s), ToSet(s))
  BY <1>1 DEF Surjection, ToSet
<1>4. IsFiniteSet(ToSet(s))
  BY <1>2, <1>3, FS_Surjection
<1>5. ToSet(s) \subseteq S
  BY DEF ToSet
<1> QED
  BY <1>4, <1>5

\* The first of a list and the rest of it, which repeats nothing if the list does not.
LEMMA ListTail ==
  ASSUME NEW S, NEW s \in Seq(S), s # <<>>
  PROVE  /\ Head(s) \in S /\ Tail(s) \in Seq(S)
         /\ ToSet(s) = {Head(s)} \cup ToSet(Tail(s))
         /\ IsInjective(s) => IsInjective(Tail(s)) /\ Head(s) \notin ToSet(Tail(s))
<1>1. /\ Len(s) \in Nat \ {0} /\ DOMAIN s = 1 .. Len(s)
      /\ Tail(s) \in Seq(S) /\ Len(Tail(s)) = Len(s) - 1 /\ DOMAIN Tail(s) = 1 .. (Len(s) - 1)
      /\ \A i \in 1 .. (Len(s) - 1) : Tail(s)[i] = s[i + 1]
      /\ Head(s) = s[1] /\ Head(s) \in S
  OBVIOUS
<1>2. ASSUME NEW i \in DOMAIN s, i # 1
      PROVE  \E k \in DOMAIN Tail(s) : s[i] = Tail(s)[k]
  <2>1. i \in Nat /\ i - 1 \in 1 .. (Len(s) - 1) /\ (i - 1) + 1 = i
    BY <1>1, <1>2
  <2> QED
    BY <1>1, <2>1
<1>3. \A i \in DOMAIN Tail(s) : i + 1 \in DOMAIN s /\ Tail(s)[i] = s[i + 1]
  BY <1>1
<1>4. ToSet(s) = {Head(s)} \cup ToSet(Tail(s))
  <2>1. ASSUME NEW x \in ToSet(s)
        PROVE  x \in {Head(s)} \cup ToSet(Tail(s))
    BY <1>1, <1>2 DEF ToSet
  <2>2. ASSUME NEW x \in {Head(s)} \cup ToSet(Tail(s))
        PROVE  x \in ToSet(s)
    BY <1>1, <1>3 DEF ToSet
  <2> QED
    BY <2>1, <2>2
<1>5. ASSUME IsInjective(s)
      PROVE  IsInjective(Tail(s)) /\ Head(s) \notin ToSet(Tail(s))
  <2>1. \A i, j \in DOMAIN s : s[i] = s[j] => i = j
    BY <1>5 DEF IsInjective
  <2>2. ASSUME NEW i \in DOMAIN Tail(s), NEW j \in DOMAIN Tail(s), Tail(s)[i] = Tail(s)[j]
        PROVE  i = j
    <3>1. i \in Nat /\ j \in Nat /\ i + 1 \in DOMAIN s /\ j + 1 \in DOMAIN s
      BY <1>1
    <3>2. s[i + 1] = s[j + 1]
      BY <1>3, <2>2
    <3> QED
      BY <2>1, <3>1, <3>2
  <2>3. ASSUME NEW i \in DOMAIN Tail(s), Tail(s)[i] = Head(s)
        PROVE  FALSE
    <3>1. i \in Nat /\ i >= 1 /\ i + 1 \in DOMAIN s /\ 1 \in DOMAIN s /\ s[i + 1] = s[1]
      BY <1>1, <2>3
    <3> QED
      BY <2>1, <3>1
  <2> QED
    BY <2>2, <2>3 DEF IsInjective, ToSet
<1> QED
  BY <1>1, <1>4, <1>5

\* A picked part of a list that repeats nothing repeats nothing.
LEMMA PickedOnce ==
  ASSUME NEW S, NEW s \in Seq(S), NEW at \in SUBSET DOMAIN s, IsInjective(s)
  PROVE  IsInjective(Picked(s, at))
<1>1. Len(s) \in Nat /\ at \in SUBSET (1 .. Len(s)) /\ DOMAIN s = 1 .. Len(s)
  OBVIOUS
<1> DEFINE n == Len(s)
<1>2. n \in Nat /\ at \in SUBSET (1 .. n)
  BY <1>1
<1> HIDE DEF n
<1>3. DOMAIN Picked(s, at) = 1 .. Cardinality(at) /\ Cardinality(at) \in Nat
  BY <1>2, PickedSize
<1>4. \A i \in at : Before(at, i) \in Nat
  BY <1>2, PositionsFinite
<1>5. ASSUME NEW k \in 1 .. Cardinality(at), NEW l \in 1 .. Cardinality(at),
             Picked(s, at)[k] = Picked(s, at)[l]
      PROVE  k = l
  <2>1. PICK i \in at : Comes(s, at, k, i)
    BY <1>2, PickedAt
  <2>2. PICK j \in at : Comes(s, at, l, j)
    BY <1>2, PickedAt
  <2>3. s[i] = s[j]
    BY <1>5, <2>1, <2>2 DEF Comes
  <2>4. i = j
    BY <2>3 DEF IsInjective
  <2> QED
    BY <2>1, <2>2, <2>4 DEF Comes
<1> QED
  BY <1>3, <1>5 DEF IsInjective

\* Two lists of different things, one behind the other.
LEMMA JoinOnce ==
  ASSUME NEW S, NEW a \in Seq(S), NEW b \in Seq(S)
  PROVE  /\ a \o b \in Seq(S) /\ ToSet(a \o b) = ToSet(a) \cup ToSet(b)
         /\ IsInjective(a) /\ IsInjective(b) /\ ToSet(a) \cap ToSet(b) = {} => IsInjective(a \o b)
<1> DEFINE m == Len(a)
          n == Len(b)
          c == a \o b
<1>1. /\ m \in Nat /\ n \in Nat /\ DOMAIN a = 1 .. m /\ DOMAIN b = 1 .. n
      /\ c \in Seq(S) /\ DOMAIN c = 1 .. (m + n)
      /\ \A i \in 1 .. (m + n) : c[i] = IF i <= m THEN a[i] ELSE b[i - m]
  OBVIOUS
<1> HIDE DEF m, n, c
<1>2. \A i \in 1 .. m : i \in 1 .. (m + n) /\ c[i] = a[i]
  BY <1>1
<1>3. \A i \in 1 .. n : i + m \in 1 .. (m + n) /\ c[i + m] = b[i]
  <2> TAKE i \in 1 .. n
  <2>1. i + m \in 1 .. (m + n) /\ ~(i + m <= m) /\ (i + m) - m = i
    BY <1>1
  <2> QED
    BY <1>1, <2>1
<1>4. \A i \in 1 .. (m + n) : \/ i \in 1 .. m /\ c[i] = a[i]
                              \/ i - m \in 1 .. n /\ c[i] = b[i - m]
  BY <1>1
<1>5. ToSet(c) = ToSet(a) \cup ToSet(b)
  <2>1. ASSUME NEW x \in ToSet(c) PROVE x \in ToSet(a) \cup ToSet(b)
    BY <1>1, <1>4 DEF ToSet
  <2>2. ASSUME NEW x \in ToSet(a) PROVE x \in ToSet(c)
    BY <1>1, <1>2 DEF ToSet
  <2>3. ASSUME NEW x \in ToSet(b) PROVE x \in ToSet(c)
    BY <1>1, <1>3 DEF ToSet
  <2> QED
    BY <2>1, <2>2, <2>3
<1>6. ASSUME IsInjective(a), IsInjective(b), ToSet(a) \cap ToSet(b) = {},
             NEW i \in 1 .. (m + n), NEW j \in 1 .. (m + n), c[i] = c[j]
      PROVE  i = j
  <2>1. \A k \in 1 .. m, l \in 1 .. n : a[k] # b[l]
    BY <1>1, <1>6 DEF ToSet
  <2>2. /\ \A k, l \in 1 .. m : a[k] = a[l] => k = l
        /\ \A k, l \in 1 .. n : b[k] = b[l] => k = l
    BY <1>1, <1>6 DEF IsInjective
  <2>3. CASE i \in 1 .. m /\ c[i] = a[i] /\ j \in 1 .. m /\ c[j] = a[j]
    BY <1>6, <2>2, <2>3
  <2>4. CASE i - m \in 1 .. n /\ c[i] = b[i - m] /\ j - m \in 1 .. n /\ c[j] = b[j - m]
    <3>1. i - m = j - m
      BY <1>6, <2>2, <2>4
    <3> QED
      BY <1>1, <3>1
  <2> QED
    BY <1>4, <1>6, <2>1, <2>3, <2>4
<1>7. c \in Seq(S) /\ ToSet(c) = ToSet(a) \cup ToSet(b)
        /\ (IsInjective(a) /\ IsInjective(b) /\ ToSet(a) \cap ToSet(b) = {} => IsInjective(c))
  BY <1>1, <1>5, <1>6 DEF IsInjective
<1> QED
  BY <1>7 DEF c

-----------------------------------------------------------------------------
(***************************************************************************)
(* Sums                                                                    *)
(***************************************************************************)
\* The units of a sum, and when there are finitely many of them.
Units(len) == UNION {{i} \X (1 .. len[i]) : i \in DOMAIN len}
Weighs(len) == IsFiniteSet(DOMAIN len) /\ \A i \in DOMAIN len : len[i] \in Nat

\* A unit belongs to one of the indices.
LEMMA UnitsOf ==
  ASSUME NEW len
  PROVE  \A p : p \in Units(len) <=> \E i \in DOMAIN len : \E n \in 1 .. len[i] : p = <<i, n>>
BY DEF Units

\* A sum of finitely many numbers is a number.
LEMMA VolumeNat ==
  ASSUME NEW len, Weighs(len)
  PROVE  IsFiniteSet(Units(len)) /\ Volume(len) \in Nat
<1> DEFINE All == {{i} \X (1 .. len[i]) : i \in DOMAIN len}
<1>1. IsFiniteSet(All)
  <2> DEFINE f == [i \in DOMAIN len |-> {i} \X (1 .. len[i])]
  <2>1. f \in Surjection(DOMAIN len, All)
    BY DEF Surjection
  <2> QED
    BY <2>1, FS_Surjection DEF Weighs
<1>2. ASSUME NEW T \in All
      PROVE  IsFiniteSet(T)
  <2>1. PICK i \in DOMAIN len : T = {i} \X (1 .. len[i])
    OBVIOUS
  <2>2. len[i] \in Nat /\ IsFiniteSet({i})
    BY FS_Singleton DEF Weighs
  <2>3. IsFiniteSet(1 .. len[i])
    BY <2>2, FS_Interval
  <2> QED
    BY <2>1, <2>2, <2>3, FS_Product
<1>3. IsFiniteSet(UNION All)
  BY <1>1, <1>2, FS_UNION
<1> QED
  BY <1>3, FS_CardinalityType DEF Volume, Units

-----------------------------------------------------------------------------
(***************************************************************************)
(* Sums of integers                                                        *)
(***************************************************************************)
\* Induction over the naturals up to n, by way of the set that has them.
LEMMA UpTo ==
  ASSUME NEW n \in Nat, NEW S, 0 \in S, \A i \in 0 .. n - 1 : i \in S => i + 1 \in S
  PROVE  \A i \in 0 .. n : i \in S
<1> DEFINE T == {i \in 0 .. n : i \notin S}
<1> SUFFICES ASSUME T # {} PROVE FALSE
  OBVIOUS
<1>1. T \subseteq Nat
  OBVIOUS
<1>2. PICK m \in T : \A i \in T : m <= i
  BY <1>1, LeastNat
<1>3. m # 0 /\ m \in 0 .. n /\ m \notin S
  BY <1>2
<1>4. m - 1 \in 0 .. n - 1 /\ m - 1 \in 0 .. n
  BY <1>3
<1>5. m - 1 \in S
  <2>1. ~(m <= m - 1)
    BY <1>3
  <2>2. m - 1 \notin T
    BY <1>2, <2>1
  <2> QED
    BY <1>4, <2>2
<1>6. (m - 1) + 1 \in S
  BY <1>4, <1>5
<1>7. (m - 1) + 1 = m
  BY <1>3
<1> QED
  BY <1>3, <1>6, <1>7

\* The partial sums of a list of integers are what the recursion says.
PartialsOf(f, s, n) == f = [i \in 0 .. n |-> IF i = 0 THEN 0 ELSE f[i - 1] + s[i]]

LEMMA PartialsExist ==
  ASSUME NEW s \in Seq(Int), NEW n \in Nat
  PROVE  \E f : PartialsOf(f, s, n)
<1> DEFINE S == {k \in 0 .. n : \E f : PartialsOf(f, s, k)}
<1>1. 0 \in S
  <2> DEFINE f == [i \in 0 .. 0 |-> 0]
  <2>1. PartialsOf(f, s, 0)
    <3>1. \A i \in 0 .. 0 : i = 0
      OBVIOUS
    <3> QED
      BY <3>1 DEF PartialsOf
  <2> QED
    BY <2>1
<1>2. ASSUME NEW k \in 0 .. n - 1, k \in S
      PROVE  k + 1 \in S
  <2>1. PICK f : PartialsOf(f, s, k)
    BY <1>2
  <2> DEFINE g == [i \in 0 .. k + 1 |-> IF i = k + 1 THEN f[k] + s[k + 1] ELSE f[i]]
  <2>2. k \in 0 .. n /\ k + 1 \in 0 .. n /\ k \in 0 .. k + 1
    OBVIOUS
  <2>3. ASSUME NEW i \in 0 .. k + 1
        PROVE  g[i] = IF i = 0 THEN 0 ELSE g[i - 1] + s[i]
    <3>1. CASE i = k + 1
      <4>1. i # 0 /\ i - 1 = k /\ k # k + 1 /\ k \in 0 .. k + 1
        BY <3>1
      <4>2. g[i] = f[k] + s[k + 1] /\ g[k] = f[k]
        BY <3>1, <4>1
      <4> QED
        BY <3>1, <4>1, <4>2
    <3>2. CASE i # k + 1
      <4>1. i \in 0 .. k /\ (i # 0 => i - 1 \in 0 .. k + 1 /\ i - 1 # k + 1)
        BY <3>2
      <4>2. f[i] = IF i = 0 THEN 0 ELSE f[i - 1] + s[i]
        BY <2>1, <4>1 DEF PartialsOf
      <4>3. g[i] = f[i] /\ (i # 0 => g[i - 1] = f[i - 1])
        BY <3>2, <4>1
      <4> QED
        BY <4>2, <4>3
    <3> QED
      BY <3>1, <3>2
  <2>4. g = [i \in 0 .. k + 1 |-> g[i]]
    OBVIOUS
  <2> HIDE DEF g
  <2>5. PartialsOf(g, s, k + 1)
    BY <2>3, <2>4 DEF PartialsOf
  <2> QED
    BY <2>2, <2>5
<1> HIDE DEF S
<1>3. \A k \in 0 .. n : k \in S
  BY <1>1, <1>2, UpTo
<1> QED
  BY <1>3 DEF S

LEMMA PartialsAre ==
  ASSUME NEW s \in Seq(Int)
  PROVE  /\ Partials(s) \in [0 .. Len(s) -> Int]
         /\ Partials(s)[0] = 0
         /\ \A i \in 1 .. Len(s) : Partials(s)[i] = Partials(s)[i - 1] + s[i]
<1>1. Len(s) \in Nat /\ \A i \in 1 .. Len(s) : s[i] \in Int
  OBVIOUS
<1>2. \E f : f = [i \in 0 .. Len(s) |-> IF i = 0 THEN 0 ELSE f[i - 1] + s[i]]
  BY <1>1, PartialsExist DEF PartialsOf
<1>3. Partials(s) = [i \in 0 .. Len(s) |-> IF i = 0 THEN 0 ELSE Partials(s)[i - 1] + s[i]]
  BY <1>2 DEF Partials
<1>4. PICK f : f = Partials(s)
  OBVIOUS
<1>5. f = [i \in 0 .. Len(s) |-> IF i = 0 THEN 0 ELSE f[i - 1] + s[i]]
  BY <1>3, <1>4
<1>6. f[0] = 0 /\ \A i \in 1 .. Len(s) : f[i] = f[i - 1] + s[i]
  <2>1. 0 \in 0 .. Len(s) /\ \A i \in 1 .. Len(s) : i \in 0 .. Len(s) /\ i # 0
    BY <1>1
  <2> QED
    BY <1>5, <2>1
<1> DEFINE S == {i \in 0 .. Len(s) : f[i] \in Int}
<1>7. 0 \in S
  BY <1>1, <1>6
<1>8. ASSUME NEW i \in 0 .. Len(s) - 1, i \in S
      PROVE  i + 1 \in S
  <2>1. i + 1 \in 1 .. Len(s) /\ (i + 1) - 1 = i /\ i + 1 \in 0 .. Len(s)
    BY <1>1
  <2>2. f[i + 1] = f[i] + s[i + 1] /\ f[i] \in Int /\ s[i + 1] \in Int
    BY <1>1, <1>6, <1>8, <2>1
  <2> QED
    BY <2>1, <2>2
<1>9. \A i \in 0 .. Len(s) : i \in S
  <2> HIDE DEF S
  <2> QED
    BY <1>1, <1>7, <1>8, UpTo
<1> QED
  BY <1>4, <1>5, <1>6, <1>9

\* A function that grows by the elements of a list ends at its sum.
LEMMA TotalIs ==
  ASSUME NEW s \in Seq(Int), NEW f,
         f[0] = 0, \A i \in 1 .. Len(s) : f[i] = f[i - 1] + s[i]
  PROVE  Total(s) = f[Len(s)] /\ Total(s) \in Int
<1>1. PICK p : p = Partials(s)
  OBVIOUS
<1>2. /\ p \in [0 .. Len(s) -> Int] /\ p[0] = 0
      /\ \A i \in 1 .. Len(s) : p[i] = p[i - 1] + s[i]
  BY <1>1, PartialsAre
<1>3. Len(s) \in Nat
  OBVIOUS
<1> DEFINE S == {i \in 0 .. Len(s) : p[i] = f[i]}
<1>4. 0 \in S
  BY <1>2, <1>3
<1>5. ASSUME NEW i \in 0 .. Len(s) - 1, i \in S
      PROVE  i + 1 \in S
  <2>1. i + 1 \in 1 .. Len(s) /\ (i + 1) - 1 = i /\ i + 1 \in 0 .. Len(s)
    BY <1>3
  <2> QED
    BY <1>2, <1>5, <2>1
<1>6. \A i \in 0 .. Len(s) : i \in S
  <2> HIDE DEF S
  <2> QED
    BY <1>3, <1>4, <1>5, UpTo
<1> QED
  BY <1>1, <1>2, <1>3, <1>6 DEF Total

\* A list has partial sums, and they end at its sum.
LEMMA Summed ==
  ASSUME NEW s \in Seq(Int)
  PROVE  \E f : /\ \A i \in 0 .. Len(s) : f[i] \in Int
                /\ f[0] = 0 /\ f[Len(s)] = Total(s)
                /\ \A i \in 1 .. Len(s) : f[i] = f[i - 1] + s[i]
<1>1. Len(s) \in Nat
  OBVIOUS
<1> QED
  BY <1>1, PartialsAre DEF Total

LEMMA TotalInt == ASSUME NEW s \in Seq(Int) PROVE Total(s) \in Int
<1>1. Len(s) \in 0 .. Len(s)
  OBVIOUS
<1> QED
  BY <1>1, Summed

\* Sums are linear.
LEMMA Regroup ==
  ASSUME NEW a \in Int, NEW b \in Int, NEW c \in Int, NEW i \in Int,
         NEW x \in Int, NEW y \in Int, NEW v \in Int, NEW w \in Int
  PROVE  a * (x + v) + b * (y + w) + c * i = (a * x + b * y + c * (i - 1)) + (a * v + b * w + c)
OBVIOUS

Combines(u, s, t, a, b, c) == \A i \in 1 .. Len(s) : u[i] = a * s[i] + b * t[i] + c

LEMMA TotalLinear ==
  ASSUME NEW s \in Seq(Int), NEW t \in Seq(Int), NEW u \in Seq(Int),
         Len(t) = Len(s), Len(u) = Len(s),
         NEW a \in Int, NEW b \in Int, NEW c \in Int, Combines(u, s, t, a, b, c)
  PROVE  Total(u) = a * Total(s) + b * Total(t) + c * Len(s)
<1>1. PICK n \in Nat : n = Len(s) /\ n = Len(t) /\ n = Len(u)
  OBVIOUS
<1>2. PICK f : /\ \A i \in 0 .. n : f[i] \in Int
               /\ f[0] = 0 /\ f[n] = Total(s)
               /\ \A i \in 1 .. n : f[i] = f[i - 1] + s[i]
  BY <1>1, Summed
<1>3. PICK g : /\ \A i \in 0 .. n : g[i] \in Int
               /\ g[0] = 0 /\ g[n] = Total(t)
               /\ \A i \in 1 .. n : g[i] = g[i - 1] + t[i]
  BY <1>1, Summed
<1>4. PICK h : h = [i \in 0 .. n |-> a * f[i] + b * g[i] + c * i]
  OBVIOUS
<1>5. 0 \in 0 .. n /\ n \in 0 .. n
  OBVIOUS
<1>6. h[0] = 0
  <2>1. h[0] = a * f[0] + b * g[0] + c * 0
    BY <1>4, <1>5
  <2>2. a * 0 + b * 0 + c * 0 = 0
    OBVIOUS
  <2> QED
    BY <1>2, <1>3, <2>1, <2>2
<1>7. ASSUME NEW i \in 1 .. n
      PROVE  h[i] = h[i - 1] + u[i]
  <2>1. i - 1 \in 0 .. n /\ i \in 0 .. n
    OBVIOUS
  <2>2. f[i - 1] \in Int /\ g[i - 1] \in Int /\ s[i] \in Int /\ t[i] \in Int
    BY <1>1, <1>2, <1>3, <2>1
  <2>3. h[i] = a * f[i] + b * g[i] + c * i /\ h[i - 1] = a * f[i - 1] + b * g[i - 1] + c * (i - 1)
    BY <1>4, <2>1
  <2>4. f[i] = f[i - 1] + s[i] /\ g[i] = g[i - 1] + t[i]
    BY <1>2, <1>3
  <2>5. u[i] = a * s[i] + b * t[i] + c
    BY <1>1 DEF Combines
  <2>6. h[i] = a * (f[i - 1] + s[i]) + b * (g[i - 1] + t[i]) + c * i
    BY <2>3, <2>4
  <2>7. a * (f[i - 1] + s[i]) + b * (g[i - 1] + t[i]) + c * i
          = (a * f[i - 1] + b * g[i - 1] + c * (i - 1)) + (a * s[i] + b * t[i] + c)
    <3>1. PICK x \in Int, y \in Int, v \in Int, w \in Int :
              x = f[i - 1] /\ y = g[i - 1] /\ v = s[i] /\ w = t[i]
      BY <2>2
    <3>2. a * (x + v) + b * (y + w) + c * i = (a * x + b * y + c * (i - 1)) + (a * v + b * w + c)
      BY Regroup
    <3> QED
      BY <3>1, <3>2
  <2> QED
    BY <2>3, <2>5, <2>6, <2>7
<1>8. h[n] = a * Total(s) + b * Total(t) + c * n
  BY <1>2, <1>3, <1>4, <1>5
<1> QED
  BY <1>1, <1>6, <1>7, <1>8, TotalIs

\* A list that is nowhere more has no greater sum.
LEMMA TotalMore ==
  ASSUME NEW s \in Seq(Int), NEW t \in Seq(Int), Len(t) = Len(s),
         \A i \in 1 .. Len(s) : s[i] <= t[i]
  PROVE  Total(s) <= Total(t)
<1>1. PICK n \in Nat : n = Len(s)
  OBVIOUS
<1>2. PICK f : /\ \A i \in 0 .. n : f[i] \in Int
               /\ f[0] = 0 /\ f[n] = Total(s)
               /\ \A i \in 1 .. n : f[i] = f[i - 1] + s[i]
  BY <1>1, Summed
<1>3. PICK g : /\ \A i \in 0 .. n : g[i] \in Int
               /\ g[0] = 0 /\ g[n] = Total(t)
               /\ \A i \in 1 .. n : g[i] = g[i - 1] + t[i]
  BY <1>1, Summed
<1> DEFINE S == {i \in 0 .. n : f[i] <= g[i]}
<1>4. 0 \in S
  BY <1>2, <1>3
<1>5. ASSUME NEW i \in 0 .. n - 1, i \in S
      PROVE  i + 1 \in S
  <2>1. i + 1 \in 1 .. n /\ (i + 1) - 1 = i /\ i + 1 \in 0 .. n /\ i \in 0 .. n
    OBVIOUS
  <2>2. /\ f[i + 1] = f[i] + s[i + 1] /\ g[i + 1] = g[i] + t[i + 1] /\ f[i] <= g[i]
        /\ f[i] \in Int /\ g[i] \in Int
    BY <1>2, <1>3, <1>5, <2>1
  <2>3. s[i + 1] <= t[i + 1] /\ s[i + 1] \in Int /\ t[i + 1] \in Int
    BY <1>1, <2>1
  <2> QED
    BY <2>1, <2>2, <2>3
<1> HIDE DEF S
<1>6. \A i \in 0 .. n : i \in S
  BY <1>4, <1>5, UpTo
<1>7. n \in S
  BY <1>6
<1> QED
  BY <1>2, <1>3, <1>7 DEF S

\* The sum of a list that has c at the positions in A, and zeros.
LEMMA TotalCount ==
  ASSUME NEW n \in Nat, NEW A \in SUBSET (1 .. n), NEW c \in Int, NEW u \in Seq(Int), Len(u) = n,
         \A i \in 1 .. n : u[i] = IF i \in A THEN c ELSE 0
  PROVE  Total(u) = c * Cardinality(A) /\ Cardinality(A) \in Nat
<1> DEFINE B(i) == A \cap (1 .. i)
           h == [i \in 0 .. n |-> c * Cardinality(B(i))]
<1>1. ASSUME NEW i \in 0 .. n
      PROVE  IsFiniteSet(B(i)) /\ Cardinality(B(i)) \in Nat
  <2>1. IsFiniteSet(1 .. i) /\ B(i) \in SUBSET (1 .. i)
    BY FS_Interval
  <2> QED
    BY <2>1, FS_Subset, FS_CardinalityType
<1>2. h[0] = 0
  <2>1. B(0) = {} /\ 0 \in 0 .. n
    OBVIOUS
  <2>2. Cardinality({}) = 0 /\ c * 0 = 0
    BY FS_EmptySet
  <2> QED
    BY <2>1, <2>2
<1>3. ASSUME NEW i \in 1 .. n
      PROVE  h[i] = h[i - 1] + u[i]
  <2>1. i - 1 \in 0 .. n /\ i \in 0 .. n /\ i \notin B(i - 1)
    OBVIOUS
  <2>2. PICK k \in Nat : k = Cardinality(B(i - 1))
    BY <1>1, <2>1
  <2>3. CASE i \in A
    <3>1. B(i) = B(i - 1) \cup {i}
      BY <2>1, <2>3
    <3>2. Cardinality(B(i)) = k + 1
      <4> HIDE DEF B
      <4> QED
        BY <1>1, <2>1, <2>2, <3>1, FS_AddElement
    <3>3. c * (k + 1) = c * k + c
      OBVIOUS
    <3> QED
      BY <2>1, <2>2, <2>3, <3>2, <3>3
  <2>4. CASE i \notin A
    <3>1. B(i) = B(i - 1)
      BY <2>1, <2>4
    <3>2. u[i] = 0 /\ c * k \in Int
      BY <2>4
    <3>3. h[i] = c * k /\ h[i - 1] = c * k
      <4> HIDE DEF B
      <4> QED
        BY <2>1, <2>2, <3>1
    <3> QED
      BY <3>2, <3>3
  <2> QED
    BY <2>3, <2>4
<1>4. B(n) = A /\ n \in 0 .. n
  <2>1. \A i \in A : i \in 1 .. n
    OBVIOUS
  <2>2. n \in 0 .. n
    OBVIOUS
  <2>3. A \cap (1 .. n) = A
    BY <2>1
  <2> QED
    BY <2>2, <2>3
<1>5. h[n] = c * Cardinality(A) /\ Cardinality(A) \in Nat
  <2>1. h[n] = c * Cardinality(B(n)) /\ Cardinality(B(n)) \in Nat
    BY <1>1, <1>4
  <2> HIDE DEF h, B
  <2> QED
    BY <1>4, <2>1
<1> HIDE DEF h
<1> QED
  BY <1>2, <1>3, <1>5, TotalIs
=============================================================================
