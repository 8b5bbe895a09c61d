--------------------------- MODULE HashRingProofs ---------------------------
(***************************************************************************)
(* Theorems about HashRing, for any nodes, any number of virtual nodes and *)
(* any ring.                                                               *)
(***************************************************************************)
EXTENDS HashRing, SequenceTheorems, DataLemmas

-----------------------------------------------------------------------------
(* Bisection in an ascending sequence. *)

Ascending(s) == \A i, j \in 1 .. Len(s) : i < j => s[i] < s[j]

LEMMA PointsAreNumbers == Points \subseteq Int /\ \A p \in Points : p >= 0 /\ p < Space
BY SpaceAssumption DEF Points

LEMMA InitialSegment ==
  ASSUME NEW n \in Nat, NEW T \in SUBSET (1 .. n), \A i \in T, j \in 1 .. n : j < i => j \in T
  PROVE  Cardinality(T) \in 0 .. n /\ \A i \in 1 .. n : i \in T <=> i <= Cardinality(T)
<1>1. CASE T = {}
  BY <1>1, FS_EmptySet
<1>2. CASE T # {}
  <2>1. PICK m \in T : \A i \in T : m >= i
    BY <1>2, GreatestOf
  <2>2. m \in 1 .. n /\ T = 1 .. m
    <3>1. m \in 1 .. n
      OBVIOUS
    <3>2. ASSUME NEW j \in 1 .. m PROVE j \in T
      <4>1. j = m \/ (j < m /\ j \in 1 .. n)
        BY <3>1
      <4> QED BY <4>1
    <3>3. ASSUME NEW j \in T PROVE j \in 1 .. m
      BY <2>1, <3>1
    <3> QED BY <3>1, <3>2, <3>3
  <2>3. Cardinality(T) = m
    BY <2>2, FS_Interval
  <2> QED BY <2>2, <2>3
<1> QED BY <1>1, <1>2

(* bisect, and bisect_left, cut the sequence at x. *)
LEMMA Cuts ==
  ASSUME NEW s \in Seq(Points), Ascending(s), NEW x \in Int
  PROVE  /\ Bisect(s, x) \in 0 .. Len(s)
         /\ \A i \in 1 .. Len(s) : s[i] <= x <=> i <= Bisect(s, x)
         /\ BisectLeft(s, x) \in 0 .. Len(s)
         /\ \A i \in 1 .. Len(s) : s[i] < x <=> i <= BisectLeft(s, x)
<1> DEFINE n == Len(s)
           T == {i \in DOMAIN s : s[i] <= x}
           U == {i \in DOMAIN s : s[i] < x}
<1>1. n \in Nat /\ DOMAIN s = 1 .. n /\ \A i \in 1 .. n : s[i] \in Int
  <2>1. \A i \in 1 .. n : s[i] \in Points
    OBVIOUS
  <2>2. n \in Nat /\ DOMAIN s = 1 .. n
    OBVIOUS
  <2> HIDE DEF n
  <2> QED BY ONLY <2>1, <2>2, PointsAreNumbers
<1>2. T \in SUBSET (1 .. n) /\ U \in SUBSET (1 .. n)
  BY <1>1
<1>3. ASSUME NEW i \in 1 .. n, NEW j \in 1 .. n, j < i PROVE s[j] < s[i]
  BY <1>3 DEF Ascending
<1>4. \A i \in T, j \in 1 .. n : j < i => j \in T
  <2> SUFFICES ASSUME NEW i \in T, NEW j \in 1 .. n, j < i PROVE s[j] <= x
    BY <1>1
  <2>1. s[j] < s[i] /\ s[i] <= x /\ s[i] \in Int /\ s[j] \in Int
    BY <1>1, <1>3
  <2> QED BY <2>1
<1>5. \A i \in U, j \in 1 .. n : j < i => j \in U
  <2> SUFFICES ASSUME NEW i \in U, NEW j \in 1 .. n, j < i PROVE s[j] < x
    BY <1>1
  <2>1. s[j] < s[i] /\ s[i] < x /\ s[i] \in Int /\ s[j] \in Int
    BY <1>1, <1>3
  <2> QED BY <2>1
<1>6. /\ \A i \in 1 .. n : i \in T <=> s[i] <= x
      /\ \A i \in 1 .. n : i \in U <=> s[i] < x
  BY <1>1
<1>7. Bisect(s, x) = Cardinality(T) /\ BisectLeft(s, x) = Cardinality(U)
  BY DEF Bisect, BisectLeft
<1> HIDE DEF T, U, n
<1>8. Cardinality(T) \in 0 .. n /\ \A i \in 1 .. n : i \in T <=> i <= Cardinality(T)
  BY <1>1, <1>2, <1>4, InitialSegment
<1>9. Cardinality(U) \in 0 .. n /\ \A i \in 1 .. n : i \in U <=> i <= Cardinality(U)
  BY <1>1, <1>2, <1>5, InitialSegment
<1> QED BY <1>6, <1>7, <1>8, <1>9 DEF n

(* Whatever the sequence, bisection gives a position of it. *)
LEMMA BisectType ==
  ASSUME NEW s \in Seq(Points), NEW x
  PROVE  Bisect(s, x) \in 0 .. Len(s) /\ BisectLeft(s, x) \in 0 .. Len(s)
<1>1. ASSUME NEW T \in SUBSET (1 .. Len(s)) PROVE Cardinality(T) \in 0 .. Len(s)
  <2>1. Len(s) \in Nat /\ IsFiniteSet(1 .. Len(s)) /\ Cardinality(1 .. Len(s)) = Len(s)
    BY FS_Interval
  <2>2. IsFiniteSet(T) /\ Cardinality(T) <= Len(s) /\ Cardinality(T) \in Nat
    BY <2>1, FS_Subset, FS_CardinalityType
  <2> QED BY <2>1, <2>2
<1>2. /\ {i \in DOMAIN s : s[i] <= x} \in SUBSET (1 .. Len(s))
      /\ {i \in DOMAIN s : s[i] < x} \in SUBSET (1 .. Len(s))
  OBVIOUS
<1> QED BY <1>1, <1>2 DEF Bisect, BisectLeft

LEMMA Concatenated ==
  \A s, t \in Seq(Points) :
    /\ s \o t \in Seq(Points) /\ Len(s \o t) = Len(s) + Len(t)
    /\ \A i \in 1 .. Len(s) + Len(t) : (s \o t)[i] = IF i <= Len(s) THEN s[i] ELSE t[i - Len(s)]
BY ConcatProperties

LEMMA Inserted ==
  ASSUME NEW s \in Seq(Points), NEW p \in Points, NEW k \in 0 .. Len(s)
  PROVE  /\ InsertAt(s, k + 1, p) \in Seq(Points)
         /\ Len(InsertAt(s, k + 1, p)) = Len(s) + 1
         /\ \A i \in 1 .. Len(s) + 1 :
              InsertAt(s, k + 1, p)[i] = IF i <= k THEN s[i] ELSE IF i = k + 1 THEN p ELSE s[i - 1]
<1> DEFINE n == Len(s)
           a == SubSeq(s, 1, k)
           b == SubSeq(s, k + 1, n)
           m == <<p>>
           am == a \o m
           t == am \o b
<1>1. n \in Nat /\ k \in Int /\ 0 <= k /\ k <= n /\ \A i \in 1 .. n : s[i] \in Points
  OBVIOUS
<1>2. a \in Seq(Points) /\ Len(a) = k /\ \A i \in 1 .. k : a[i] = s[i]
  <2>1. \A i \in 1 .. k : i \in 1 .. n /\ 1 + i - 1 = i
    BY <1>1
  <2>2. \A i \in 1 .. k : s[i] \in Points
    BY <1>1, <2>1
  <2>3. k - 1 + 1 = k /\ (1 <= k \/ k = 0)
    BY <1>1
  <2> QED BY <1>1, <2>1, <2>2, <2>3, SubSeqProperties
<1>3. b \in Seq(Points) /\ Len(b) = n - k /\ \A i \in 1 .. n - k : b[i] = s[k + i]
  <2>1. \A i \in k + 1 .. n : s[i] \in Points
    BY <1>1
  <2>2. n - (k + 1) + 1 = n - k /\ (k + 1 <= n \/ n - k = 0)
        /\ \A i \in 1 .. n - k : (k + 1) + i - 1 = k + i
    BY <1>1
  <2>3. k + 1 \in Int /\ n \in Int
    BY <1>1
  <2>4. /\ SubSeq(s, k + 1, n) \in Seq(Points)
        /\ Len(SubSeq(s, k + 1, n)) = IF k + 1 <= n THEN n - (k + 1) + 1 ELSE 0
        /\ \A i \in 1 .. n - (k + 1) + 1 : SubSeq(s, k + 1, n)[i] = s[(k + 1) + i - 1]
    BY ONLY <2>1, <2>3, SubSeqProperties
  <2> HIDE DEF n
  <2> QED BY <2>2, <2>4
<1>4. m \in Seq(Points) /\ Len(m) = 1 /\ m[1] = p
  OBVIOUS
<1> HIDE DEF a, b, m
<1>5. /\ am \in Seq(Points) /\ Len(am) = k + 1
      /\ \A i \in 1 .. k + 1 : am[i] = IF i <= k THEN s[i] ELSE p
  <2>0. /\ am \in Seq(Points) /\ Len(am) = Len(a) + Len(m)
        /\ \A i \in 1 .. Len(a) + Len(m) : am[i] = IF i <= Len(a) THEN a[i] ELSE m[i - Len(a)]
    BY ONLY <1>2, <1>4, Concatenated
  <2> HIDE DEF am
  <2>1. am \in Seq(Points) /\ Len(am) = k + 1
    BY <1>2, <1>4, <2>0
  <2>2. \A i \in 1 .. k + 1 : am[i] = IF i <= k THEN a[i] ELSE m[i - k]
    BY <1>2, <1>4, <2>0
  <2>3. \A i \in 1 .. k + 1 : (i <= k /\ i \in 1 .. k) \/ (~ (i <= k) /\ i - k = 1)
    BY <1>1
  <2> QED BY <1>2, <1>4, <2>1, <2>2, <2>3
<1> HIDE DEF am
<1>6. t \in Seq(Points) /\ Len(t) = n + 1
  <2>1. t \in Seq(Points) /\ Len(t) = k + 1 + (n - k)
    <3>1. t \in Seq(Points) /\ Len(t) = Len(am) + Len(b)
      BY ONLY <1>3, <1>5, Concatenated
    <3> HIDE DEF t
    <3> QED BY <1>3, <1>5, <3>1
  <2> QED BY <1>1, <2>1
<1>7. ASSUME NEW i \in 1 .. n + 1
      PROVE  t[i] = IF i <= k THEN s[i] ELSE IF i = k + 1 THEN p ELSE s[i - 1]
  <2>1. i \in 1 .. Len(am) + Len(b)
    BY <1>1, <1>3, <1>5
  <2>2. t[i] = IF i <= Len(am) THEN am[i] ELSE b[i - Len(am)]
    BY <1>3, <1>5, <2>1, Concatenated
  <2>3. CASE i <= k + 1
    <3>1. i \in 1 .. k + 1 /\ (i <= k \/ i = k + 1) /\ ~ (k + 1 <= k)
      BY <1>1, <2>3
    <3> QED BY <1>5, <2>2, <2>3, <3>1
  <2>4. CASE ~ (i <= k + 1)
    <3>1. i - (k + 1) \in 1 .. n - k /\ k + (i - (k + 1)) = i - 1 /\ ~ (i <= k) /\ i # k + 1
      BY <1>1, <2>4
    <3> QED BY <1>3, <1>5, <2>2, <2>4, <3>1
  <2> QED BY <2>3, <2>4
<1>8. InsertAt(s, k + 1, p) = t
  <2>1. (k + 1) - 1 = k
    BY <1>1
  <2> QED BY <2>1 DEF InsertAt, am, a, b, m
<1> HIDE DEF t
<1> QED BY <1>6, <1>7, <1>8

LEMMA Removed ==
  ASSUME NEW s \in Seq(Points), NEW k \in 1 .. Len(s)
  PROVE  /\ RemoveAt(s, k) \in Seq(Points)
         /\ Len(RemoveAt(s, k)) = Len(s) - 1
         /\ \A i \in 1 .. Len(s) - 1 : RemoveAt(s, k)[i] = IF i < k THEN s[i] ELSE s[i + 1]
<1> DEFINE n == Len(s)
           a == SubSeq(s, 1, k - 1)
           b == SubSeq(s, k + 1, n)
           t == a \o b
<1>1. n \in Nat /\ k \in Int /\ 1 <= k /\ k <= n /\ \A i \in 1 .. n : s[i] \in Points
  OBVIOUS
<1>2. a \in Seq(Points) /\ Len(a) = k - 1 /\ \A i \in 1 .. k - 1 : a[i] = s[i]
  <2>1. \A i \in 1 .. k - 1 : i \in 1 .. n /\ 1 + i - 1 = i
    BY <1>1
  <2>2. \A i \in 1 .. k - 1 : s[i] \in Points
    BY <1>1, <2>1
  <2>3. (k - 1) - 1 + 1 = k - 1 /\ (1 <= k - 1 \/ k - 1 = 0) /\ k - 1 \in Int
    BY <1>1
  <2> QED BY <1>1, <2>1, <2>2, <2>3, SubSeqProperties
<1>3. b \in Seq(Points) /\ Len(b) = n - k /\ \A i \in 1 .. n - k : b[i] = s[k + i]
  <2>1. \A i \in k + 1 .. n : s[i] \in Points
    BY <1>1
  <2>2. n - (k + 1) + 1 = n - k /\ (k + 1 <= n \/ n - k = 0)
        /\ \A i \in 1 .. n - k : (k + 1) + i - 1 = k + i
    BY <1>1
  <2>3. k + 1 \in Int /\ n \in Int
    BY <1>1
  <2>4. /\ SubSeq(s, k + 1, n) \in Seq(Points)
        /\ Len(SubSeq(s, k + 1, n)) = IF k + 1 <= n THEN n - (k + 1) + 1 ELSE 0
        /\ \A i \in 1 .. n - (k + 1) + 1 : SubSeq(s, k + 1, n)[i] = s[(k + 1) + i - 1]
    BY ONLY <2>1, <2>3, SubSeqProperties
  <2> HIDE DEF n
  <2> QED BY <2>2, <2>4
<1> HIDE DEF a, b
<1>4. t \in Seq(Points) /\ Len(t) = n - 1
  <2>1. t \in Seq(Points) /\ Len(t) = (k - 1) + (n - k)
    <3>1. a \in Seq(Points) /\ b \in Seq(Points) /\ Len(a) = k - 1 /\ Len(b) = n - k
      BY <1>2, <1>3
    <3>2. t \in Seq(Points) /\ Len(t) = Len(a) + Len(b)
      BY ONLY <3>1, Concatenated, Zenon
    <3> QED BY <3>1, <3>2
  <2> QED BY <1>1, <2>1
<1>5. ASSUME NEW i \in 1 .. n - 1 PROVE t[i] = IF i < k THEN s[i] ELSE s[i + 1]
  <2>1. i \in 1 .. Len(a) + Len(b)
    BY <1>1, <1>2, <1>3
  <2>2. t[i] = IF i <= Len(a) THEN a[i] ELSE b[i - Len(a)]
    BY <1>2, <1>3, <2>1, Concatenated
  <2>3. CASE i < k
    <3>1. i \in 1 .. k - 1 /\ i <= k - 1
      BY <1>1, <2>3
    <3> QED BY <1>2, <2>2, <2>3, <3>1
  <2>4. CASE ~ (i < k)
    <3>1. i - (k - 1) \in 1 .. n - k /\ k + (i - (k - 1)) = i + 1 /\ ~ (i <= k - 1)
      BY <1>1, <2>4
    <3> QED BY <1>2, <1>3, <2>2, <2>4, <3>1
  <2> QED BY <2>3, <2>4
<1>6. RemoveAt(s, k) = t
  BY DEF RemoveAt, a, b
<1> HIDE DEF t
<1> QED BY <1>4, <1>5, <1>6

-----------------------------------------------------------------------------
(* The dict and the list, through one round of the loops.                  *)

Dicts == UNION {[D -> Names] : D \in SUBSET Points}
Rings == [ring : Dicts, sorted : Seq(Points)]

(* The list has the keys of the dict, in ascending order. *)
Agree(r) == ToSet(r.sorted) = DOMAIN r.ring /\ Ascending(r.sorted)

LEMMA DictType ==
  ASSUME NEW d \in Dicts
  PROVE  DOMAIN d \subseteq Points /\ d \in [DOMAIN d -> Names]
BY DEF Dicts

LEMMA Placed ==
  ASSUME NEW r \in Rings, NEW n \in Names, NEW p \in Points
  PROVE  /\ Place(n, r, p) \in Rings
         /\ DOMAIN Place(n, r, p).ring = DOMAIN r.ring \union {p}
         /\ \A q \in DOMAIN r.ring \union {p} :
              Place(n, r, p).ring[q] = IF q = p THEN n ELSE r.ring[q]
         /\ Agree(r) /\ p \notin DOMAIN r.ring => Agree(Place(n, r, p))
<1> DEFINE D == DOMAIN r.ring \union {p}
           d == [q \in D |-> IF q = p THEN n ELSE r.ring[q]]
           s == r.sorted
           k == Bisect(s, p)
           t == InsertAt(s, k + 1, p)
<1>1. s \in Seq(Points) /\ r.ring \in Dicts
  BY DEF Rings
<1>2. D \subseteq Points /\ d \in [D -> Names]
  BY <1>1, DictType
<1>3. d \in Dicts
  <2> HIDE DEF d, D
  <2> QED BY <1>2 DEF Dicts
<1>4. k \in 0 .. Len(s)
  BY <1>1, BisectType
<1>5. /\ t \in Seq(Points) /\ Len(t) = Len(s) + 1
      /\ \A i \in 1 .. Len(s) + 1 : t[i] = IF i <= k THEN s[i] ELSE IF i = k + 1 THEN p ELSE s[i - 1]
  <2> HIDE DEF s, k
  <2> QED BY <1>1, <1>4, Inserted
<1>6. Place(n, r, p) = [ring |-> d, sorted |-> t]
  BY DEF Place, Insort
<1>7. ASSUME Agree(r), p \notin DOMAIN r.ring PROVE ToSet(t) = D /\ Ascending(t)
  <2>1. /\ ToSet(s) = DOMAIN r.ring /\ Ascending(s) /\ p \in Int /\ Len(s) \in Nat
        /\ DOMAIN s = 1 .. Len(s) /\ DOMAIN t = 1 .. Len(s) + 1
    <3>1. DOMAIN t = 1 .. Len(t) /\ DOMAIN s = 1 .. Len(s) /\ Len(s) \in Nat
      BY <1>1, <1>5
    <3> HIDE DEF s, t
    <3> QED BY <1>5, <1>7, <3>1, PointsAreNumbers DEF Agree, s
  <2> DEFINE c == Len(s)
  <2>2. ASSUME NEW i \in 1 .. c PROVE s[i] \in Int /\ s[i] # p /\ s[i] \in DOMAIN r.ring
    <3>1. s[i] \in ToSet(s) /\ s[i] \in Points
      BY <1>1, <2>1 DEF ToSet
    <3> QED BY <1>7, <2>1, <3>1, PointsAreNumbers
  <2>3. \A i \in 1 .. c : (s[i] <= p <=> i <= k)
    <3> HIDE DEF s, k
    <3> QED BY <1>1, <2>1, Cuts DEF k
  <2> HIDE DEF s, k, t, c
  <2>4. k \in Int /\ 0 <= k /\ k <= c /\ c \in Nat
    BY <1>4, <2>1 DEF c
  <2>5. \A i \in 1 .. c + 1 : t[i] = IF i <= k THEN s[i] ELSE IF i = k + 1 THEN p ELSE s[i - 1]
    BY <1>5 DEF c
  <2>6. ASSUME NEW i \in 1 .. c + 1
        PROVE  \/ i <= k /\ i \in 1 .. c /\ t[i] = s[i] /\ t[i] < p
               \/ i = k + 1 /\ t[i] = p
               \/ i > k + 1 /\ i - 1 \in 1 .. c /\ t[i] = s[i - 1] /\ t[i] > p
    <3>1. CASE i <= k
      <4>1. i \in 1 .. c
        BY <2>4, <3>1
      <4>2. t[i] = s[i]
        BY <2>5, <3>1
      <4> QED BY <2>1, <2>2, <2>3, <3>1, <4>1, <4>2
    <3>2. CASE i = k + 1
      <4>1. ~ (i <= k)
        BY <2>4, <3>2
      <4> QED BY <2>5, <3>2, <4>1
    <3>3. CASE i > k + 1
      <4>1. i - 1 \in 1 .. c /\ ~ (i <= k) /\ i # k + 1 /\ ~ (i - 1 <= k)
        BY <2>4, <3>3
      <4>2. t[i] = s[i - 1]
        BY <2>5, <4>1
      <4>3. s[i - 1] > p
        BY <2>1, <2>2, <2>3, <4>1
      <4> QED BY <3>3, <4>1, <4>2, <4>3
    <3> QED BY <2>4, <3>1, <3>2, <3>3
  <2>7. Ascending(t)
    <3> SUFFICES ASSUME NEW i \in 1 .. c + 1, NEW j \in 1 .. c + 1, i < j PROVE t[i] < t[j]
      BY <1>5 DEF Ascending, c
    <3>1. CASE i <= k /\ j <= k
      <4>1. i \in 1 .. c /\ j \in 1 .. c /\ t[i] = s[i] /\ t[j] = s[j]
        BY <2>4, <2>6, <3>1
      <4> QED BY <2>1, <4>1 DEF Ascending, c
    <3>2. CASE i > k + 1 /\ j > k + 1
      <4>1. i - 1 \in 1 .. c /\ j - 1 \in 1 .. c /\ t[i] = s[i - 1] /\ t[j] = s[j - 1]
            /\ i - 1 < j - 1
        BY <2>4, <2>6, <3>2
      <4> QED BY <2>1, <4>1 DEF Ascending, c
    <3>3. CASE (i <= k /\ j >= k + 1) \/ (i = k + 1 /\ j > k + 1)
      <4>1. t[i] \in Int /\ t[j] \in Int
        BY <2>1, <2>2, <2>6
      <4>2. (i <= k => t[i] < p) /\ (i = k + 1 => t[i] = p)
        BY <2>4, <2>6
      <4>3. (j >= k + 1 => t[j] = p \/ t[j] > p) /\ (j > k + 1 => t[j] > p)
        BY <2>4, <2>6
      <4> QED BY <2>1, <3>3, <4>1, <4>2, <4>3
    <3>4. i <= k \/ i = k + 1 \/ i > k + 1
      BY <2>4
    <3>5. j <= k \/ j >= k + 1
      BY <2>4
    <3>6. i = k + 1 \/ i > k + 1 => j > k + 1
      BY <2>4
    <3> QED BY ONLY <3>1, <3>2, <3>3, <3>4, <3>5, <3>6, Zenon
  <2>8. ToSet(t) = D
    <3>1. \A i \in 1 .. c + 1 : t[i] \in D
      BY <2>2, <2>6
    <3>2. ASSUME NEW q \in DOMAIN r.ring PROVE \E i \in 1 .. c + 1 : t[i] = q
      <4>1. PICK j \in 1 .. c : s[j] = q
        BY <2>1 DEF ToSet, c
      <4>2. CASE j <= k
        <5>1. j \in 1 .. c + 1
          BY <2>4
        <5>2. t[j] = s[j]
          BY <2>5, <4>2, <5>1
        <5> QED BY <4>1, <5>1, <5>2
      <4>3. CASE ~ (j <= k)
        <5>1. j + 1 \in 1 .. c + 1 /\ ~ (j + 1 <= k) /\ j + 1 # k + 1 /\ (j + 1) - 1 = j
          BY <2>4, <4>3
        <5>2. t[j + 1] = s[j]
          BY <2>5, <5>1
        <5> QED BY <4>1, <5>1, <5>2
      <4> QED BY <4>2, <4>3
    <3>3. k + 1 \in 1 .. c + 1 /\ ~ (k + 1 <= k)
      BY <2>4
    <3>4. t[k + 1] = p
      BY <2>5, <3>3
    <3>5. D \subseteq ToSet(t)
      <4>1. \A q \in D : \E i \in 1 .. c + 1 : t[i] = q
        BY <3>2, <3>3, <3>4
      <4> HIDE DEF t, D
      <4> QED BY <2>1, <4>1 DEF ToSet, c
    <3>6. ToSet(t) \subseteq D
      <4> HIDE DEF t, D
      <4> QED BY <2>1, <3>1 DEF ToSet, c
    <3> QED BY <3>5, <3>6
  <2> QED BY <2>7, <2>8
<1>8. \A q \in D : d[q] = IF q = p THEN n ELSE r.ring[q]
  OBVIOUS
<1>9. DOMAIN d = D
  OBVIOUS
<1> HIDE DEF d, t
<1> QED BY <1>3, <1>5, <1>6, <1>7, <1>8, <1>9 DEF Rings, Agree

LEMMA Displaced ==
  ASSUME NEW r \in Rings, NEW p \in Points
  PROVE  /\ Displace(r, p) \in Rings
         /\ DOMAIN Displace(r, p).ring = DOMAIN r.ring \ {p}
         /\ \A q \in DOMAIN r.ring \ {p} : Displace(r, p).ring[q] = r.ring[q]
         /\ Agree(r) => Agree(Displace(r, p))
<1> DEFINE D == DOMAIN r.ring \ {p}
           d == [q \in D |-> r.ring[q]]
           s == r.sorted
           k == BisectLeft(s, p)
           c == Len(s)
           t == IF k + 1 <= c /\ s[k + 1] = p THEN RemoveAt(s, k + 1) ELSE s
<1>1. s \in Seq(Points) /\ r.ring \in Dicts /\ c \in Nat /\ DOMAIN s = 1 .. c
  BY DEF Rings
<1>2. CASE p \notin DOMAIN r.ring
  <2>1. Displace(r, p) = r /\ DOMAIN r.ring \ {p} = DOMAIN r.ring
    BY <1>2 DEF Displace
  <2> QED BY <2>1
<1>3. CASE p \in DOMAIN r.ring
  <2>1. Displace(r, p) = [ring |-> d, sorted |-> t]
    BY <1>3 DEF Displace
  <2>2. D \subseteq Points /\ d \in [D -> Names]
    BY <1>1, DictType
  <2>3. d \in Dicts
    <3> HIDE DEF d, D
    <3> QED BY <2>2 DEF Dicts
  <2>4. k \in 0 .. c
    BY <1>1, BisectType
  <2> HIDE DEF s, k
  <2>5. ASSUME k + 1 <= c, s[k + 1] = p
        PROVE  /\ t \in Seq(Points) /\ Len(t) = c - 1
               /\ \A i \in 1 .. c - 1 : t[i] = IF i < k + 1 THEN s[i] ELSE s[i + 1]
    <3>1. k + 1 \in 1 .. c /\ t = RemoveAt(s, k + 1)
      BY <1>1, <2>4, <2>5
    <3> HIDE DEF t
    <3> QED BY <1>1, <3>1, Removed
  <2>6. t \in Seq(Points)
    <3>1. ~ (k + 1 <= c /\ s[k + 1] = p) => t = s
      OBVIOUS
    <3> HIDE DEF t
    <3> QED BY <1>1, <2>5, <3>1
  <2>7. ASSUME Agree(r) PROVE ToSet(t) = D /\ Ascending(t)
    <3>1. ToSet(s) = DOMAIN r.ring /\ Ascending(s) /\ p \in Int /\ \A i \in 1 .. c : s[i] \in Int
      <4>1. \A i \in 1 .. c : s[i] \in Points
        BY <1>1
      <4> QED BY <2>7, <4>1, PointsAreNumbers DEF Agree, s
    <3>2. PICK j \in 1 .. c : s[j] = p
      BY <1>1, <1>3, <3>1 DEF ToSet
    <3>3. \A i \in 1 .. c : (s[i] < p <=> i <= k)
      BY <1>1, <3>1, Cuts DEF k
    <3>4. \A i \in 1 .. c : i < j => s[i] < s[j]
      BY <3>1 DEF Ascending
    <3>5. j = k + 1
      <4>1. ~ (j <= k)
        BY <3>1, <3>2, <3>3
      <4>2. ~ (k + 1 < j)
        <5> SUFFICES ASSUME k + 1 < j PROVE FALSE
          OBVIOUS
        <5>1. k + 1 \in 1 .. c /\ ~ (k + 1 <= k)
          BY <1>1, <2>4
        <5> QED BY <3>2, <3>3, <3>4, <5>1
      <4> QED BY <1>1, <2>4, <4>1, <4>2
    <3>6. /\ k + 1 <= c /\ k + 1 \in 1 .. c /\ s[k + 1] = p
          /\ t \in Seq(Points) /\ Len(t) = c - 1
          /\ \A i \in 1 .. c - 1 : t[i] = IF i < k + 1 THEN s[i] ELSE s[i + 1]
      BY <2>5, <3>2, <3>5
    <3>7. DOMAIN t = 1 .. c - 1
      BY <3>6
    <3> HIDE DEF t, c
    <3>8. ASSUME NEW i \in 1 .. c - 1
          PROVE  \/ i < k + 1 /\ i \in 1 .. c /\ t[i] = s[i]
                 \/ i >= k + 1 /\ i + 1 \in 1 .. c /\ t[i] = s[i + 1]
      <4>1. i \in 1 .. c /\ i + 1 \in 1 .. c /\ (i < k + 1 \/ (~ (i < k + 1) /\ i >= k + 1))
        BY <1>1, <2>4
      <4> QED BY <3>6, <4>1
    <3>9. Ascending(t)
      <4> SUFFICES ASSUME NEW i \in 1 .. c - 1, NEW l \in 1 .. c - 1, i < l PROVE t[i] < t[l]
        BY <3>6 DEF Ascending
      <4>1. \A x, y \in 1 .. c : x < y => s[x] < s[y]
        BY <3>1 DEF Ascending, c
      <4>2. CASE i < k + 1 /\ l < k + 1
        BY <2>4, <3>8, <4>1, <4>2
      <4>3. CASE i < k + 1 /\ l >= k + 1
        <5>1. i \in 1 .. c /\ t[i] = s[i] /\ l + 1 \in 1 .. c /\ t[l] = s[l + 1] /\ i < l + 1
          BY <2>4, <3>8, <4>3
        <5> QED BY <4>1, <5>1
      <4>4. CASE i >= k + 1 /\ l >= k + 1
        <5>1. i + 1 \in 1 .. c /\ t[i] = s[i + 1] /\ l + 1 \in 1 .. c /\ t[l] = s[l + 1]
              /\ i + 1 < l + 1
          BY <2>4, <3>8, <4>4
        <5> QED BY <4>1, <5>1
      <4>5. (i < k + 1 \/ i >= k + 1) /\ (l < k + 1 \/ l >= k + 1) /\ (i >= k + 1 => l >= k + 1)
        BY <2>4, <1>1
      <4> QED BY ONLY <4>2, <4>3, <4>4, <4>5, Zenon
    <3>10. ToSet(t) = D
      <4>1. ASSUME NEW x \in 1 .. c, x # k + 1 PROVE s[x] # p /\ s[x] \in DOMAIN r.ring
        <5>1. s[x] \in DOMAIN r.ring
          BY <1>1, <3>1 DEF ToSet
        <5>2. x < k + 1 \/ k + 1 < x
          BY <2>4, <4>1
        <5>3. s[x] < s[k + 1] \/ s[k + 1] < s[x]
          BY <3>1, <3>6, <5>2 DEF Ascending, c
        <5> QED BY <3>1, <3>6, <5>1, <5>3
      <4>2. ASSUME NEW i \in 1 .. c - 1 PROVE t[i] \in D
        <5>1. i < k + 1 => i # k + 1
          BY <2>4
        <5>2. i >= k + 1 => i + 1 # k + 1
          BY <2>4
        <5> QED BY <3>8, <4>1, <5>1, <5>2
      <4>3. ASSUME NEW q \in D PROVE \E i \in 1 .. c - 1 : t[i] = q
        <5>1. PICK x \in 1 .. c : s[x] = q
          BY <1>1, <3>1 DEF ToSet
        <5>2. x # k + 1
          BY <3>6, <5>1
        <5>3. CASE x < k + 1
          <6>1. x \in 1 .. c - 1
            BY <2>4, <3>6, <5>3, <1>1
          <6> QED BY <3>6, <5>1, <5>3, <6>1
        <5>4. CASE x > k + 1
          <6>1. x - 1 \in 1 .. c - 1 /\ ~ (x - 1 < k + 1) /\ (x - 1) + 1 = x
            BY <2>4, <3>6, <5>4, <1>1
          <6> QED BY <3>6, <5>1, <6>1
        <5>5. x < k + 1 \/ x > k + 1
          BY <2>4, <5>2
        <5> QED BY <5>3, <5>4, <5>5
      <4> HIDE DEF D
      <4> QED BY <3>7, <4>2, <4>3 DEF ToSet
    <3> QED BY <3>9, <3>10
  <2>8. (\A q \in D : d[q] = r.ring[q]) /\ DOMAIN d = D
    OBVIOUS
  <2> HIDE DEF d, t
  <2> QED BY <2>1, <2>3, <2>6, <2>7, <2>8 DEF Rings, Agree
<1> QED BY <1>2, <1>3

-----------------------------------------------------------------------------
(* The loops of add_node and of remove_node, round by round. *)

PlaceAll(n, r, ps) == FoldLeft(LAMBDA s, p : Place(n, s, p), r, ps)
DisplaceAll(r, ps) == FoldLeft(Displace, r, ps)

PlacesEach(run, n, r, ps) ==
  /\ run \in [0 .. Len(ps) -> Rings]
  /\ run[0] = r
  /\ \A i \in 1 .. Len(ps) : run[i] = Place(n, run[i - 1], ps[i])

LEMMA PlaceRuns ==
  ASSUME NEW n \in Names, NEW r \in Rings, NEW ps \in Seq(Points)
  PROVE  \E run : PlacesEach(run, n, r, ps) /\ PlaceAll(n, r, ps) = run[Len(ps)]
<1> DEFINE m == Len(ps)
           step == [x \in Rings \X (1 .. m) |-> Place(n, x[1], ps[x[2]])]
           Equation(g) ==
             g = [t \in SUBSET DOMAIN ps |->
                    IF t = {} THEN r ELSE Place(n, g[t \ {Max(t)}], ps[Max(t)])]
           iter == CHOOSE g : Equation(g)
<1>1. m \in Nat /\ DOMAIN ps = 1 .. m /\ \A i \in 1 .. m : ps[i] \in Points
  OBVIOUS
<1>2. step \in [Rings \X (1 .. m) -> Rings]
  <2>1. ASSUME NEW x \in Rings \X (1 .. m) PROVE Place(n, x[1], ps[x[2]]) \in Rings
    <3>1. x[1] \in Rings /\ x[2] \in 1 .. m /\ ps[x[2]] \in Points
      BY <1>1
    <3> QED BY <3>1, Placed
  <2> QED BY <2>1
<1>3. \E g : Equation(g)
  <2>1. PICK g : IsFold(g, Rings, r, step, m)
    <3> HIDE DEF step, m
    <3> QED BY <1>1, <1>2, FoldExists
  <2>2. ASSUME NEW t \in SUBSET (1 .. m), t # {}
        PROVE g[t] = Place(n, g[t \ {Max(t)}], ps[Max(t)])
    <3>1. Greatest(t) \in 1 .. m
      BY <1>1, <2>2, GreatestOf
    <3>2. g[t \ {Greatest(t)}] \in Rings /\ g[t] = step[<<g[t \ {Greatest(t)}], Greatest(t)>>]
      BY <2>1, <2>2 DEF IsFold
    <3>3. <<g[t \ {Greatest(t)}], Greatest(t)>> \in Rings \X (1 .. m)
      BY <3>1, <3>2
    <3>4. Max(t) = Greatest(t)
      BY DEF Greatest, Max
    <3> HIDE DEF m
    <3> QED BY <3>2, <3>3, <3>4
  <2>3. g = [t \in SUBSET (1 .. m) |-> g[t]] /\ g[{}] = r
    BY <2>1 DEF IsFold
  <2>4. Equation(g)
    BY <1>1, <2>2, <2>3
  <2> QED BY <2>4
<1>4. Equation(iter)
  <2> HIDE DEF Equation
  <2> QED BY <1>3
<1>5. PlaceAll(n, r, ps) = iter[1 .. m]
  BY <1>1 DEF PlaceAll, FoldLeft, MapThenFoldSet
<1> HIDE DEF iter
<1>6. iter[{}] = r
  BY <1>4
<1>7. ASSUME NEW i \in 1 .. m PROVE iter[1 .. i] = Place(n, iter[1 .. i - 1], ps[i])
  <2>1. Max(1 .. i) = i /\ (1 .. i) \ {i} = 1 .. i - 1
    BY GreatestOfInterval DEF Greatest, Max
  <2>2. (1 .. i) \in SUBSET (DOMAIN ps) /\ 1 .. i # {}
    <3>1. i \in 1 .. i /\ \A j \in 1 .. i : j \in 1 .. m
      BY <1>1
    <3> QED BY <1>1, <3>1
  <2> QED BY <1>4, <2>1, <2>2
<1>8. PICK run : IsRecursion(run, Rings, r, step, m)
  <2> HIDE DEF step, m
  <2> QED BY <1>1, <1>2, RecursionExists
<1>9. ASSUME NEW i \in 1 .. m PROVE run[i] = Place(n, run[i - 1], ps[i]) /\ run[i - 1] \in Rings
  <2>1. i - 1 \in 0 .. m
    BY <1>1
  <2>2. run[i - 1] \in Rings /\ run[i] = step[<<run[i - 1], i>>]
    BY <1>8, <2>1 DEF IsRecursion
  <2> QED BY <2>2
<1> DEFINE S == {i \in Nat : i <= m => iter[1 .. i] = run[i]}
<1>10. 0 \in S
  <2>1. 1 .. 0 = {}
    OBVIOUS
  <2> QED BY <1>6, <1>8, <2>1 DEF IsRecursion
<1>11. ASSUME NEW i \in Nat, i \in S PROVE i + 1 \in S
  <2> SUFFICES ASSUME i + 1 <= m PROVE iter[1 .. i + 1] = run[i + 1]
    OBVIOUS
  <2>1. i + 1 \in 1 .. m /\ (i + 1) - 1 = i /\ iter[1 .. i] = run[i]
    BY <1>1, <1>11
  <2> QED BY <1>7, <1>9, <2>1
<1>12. Nat \subseteq S
  <2> HIDE DEF S
  <2> QED BY <1>10, <1>11, SetInduction
<1>13. PlacesEach(run, n, r, ps)
  BY <1>8, <1>9 DEF PlacesEach, IsRecursion
<1> QED BY <1>1, <1>5, <1>12, <1>13

DisplacesEach(run, r, ps) ==
  /\ run \in [0 .. Len(ps) -> Rings]
  /\ run[0] = r
  /\ \A i \in 1 .. Len(ps) : run[i] = Displace(run[i - 1], ps[i])

LEMMA DisplaceRuns ==
  ASSUME NEW r \in Rings, NEW ps \in Seq(Points)
  PROVE  \E run : DisplacesEach(run, r, ps) /\ DisplaceAll(r, ps) = run[Len(ps)]
<1> DEFINE m == Len(ps)
           step == [x \in Rings \X (1 .. m) |-> Displace(x[1], ps[x[2]])]
           Equation(g) ==
             g = [t \in SUBSET DOMAIN ps |->
                    IF t = {} THEN r ELSE Displace(g[t \ {Max(t)}], ps[Max(t)])]
           iter == CHOOSE g : Equation(g)
<1>1. m \in Nat /\ DOMAIN ps = 1 .. m /\ \A i \in 1 .. m : ps[i] \in Points
  OBVIOUS
<1>2. step \in [Rings \X (1 .. m) -> Rings]
  <2>1. ASSUME NEW x \in Rings \X (1 .. m) PROVE Displace(x[1], ps[x[2]]) \in Rings
    <3>1. x[1] \in Rings /\ x[2] \in 1 .. m /\ ps[x[2]] \in Points
      BY <1>1
    <3> QED BY <3>1, Displaced
  <2> QED BY <2>1
<1>3. \E g : Equation(g)
  <2>1. PICK g : IsFold(g, Rings, r, step, m)
    <3> HIDE DEF step, m
    <3> QED BY <1>1, <1>2, FoldExists
  <2>2. ASSUME NEW t \in SUBSET (1 .. m), t # {}
        PROVE g[t] = Displace(g[t \ {Max(t)}], ps[Max(t)])
    <3>1. Greatest(t) \in 1 .. m
      BY <1>1, <2>2, GreatestOf
    <3>2. g[t \ {Greatest(t)}] \in Rings /\ g[t] = step[<<g[t \ {Greatest(t)}], Greatest(t)>>]
      BY <2>1, <2>2 DEF IsFold
    <3>3. <<g[t \ {Greatest(t)}], Greatest(t)>> \in Rings \X (1 .. m)
      BY <3>1, <3>2
    <3>4. Max(t) = Greatest(t)
      BY DEF Greatest, Max
    <3> HIDE DEF m
    <3> QED BY <3>2, <3>3, <3>4
  <2>3. g = [t \in SUBSET (1 .. m) |-> g[t]] /\ g[{}] = r
    BY <2>1 DEF IsFold
  <2>4. Equation(g)
    BY <1>1, <2>2, <2>3
  <2> QED BY <2>4
<1>4. Equation(iter)
  <2> HIDE DEF Equation
  <2> QED BY <1>3
<1>5. DisplaceAll(r, ps) = iter[1 .. m]
  BY <1>1 DEF DisplaceAll, FoldLeft, MapThenFoldSet
<1> HIDE DEF iter
<1>6. iter[{}] = r
  BY <1>4
<1>7. ASSUME NEW i \in 1 .. m PROVE iter[1 .. i] = Displace(iter[1 .. i - 1], ps[i])
  <2>1. Max(1 .. i) = i /\ (1 .. i) \ {i} = 1 .. i - 1
    BY GreatestOfInterval DEF Greatest, Max
  <2>2. (1 .. i) \in SUBSET (DOMAIN ps) /\ 1 .. i # {}
    <3>1. i \in 1 .. i /\ \A j \in 1 .. i : j \in 1 .. m
      BY <1>1
    <3> QED BY <1>1, <3>1
  <2> QED BY <1>4, <2>1, <2>2
<1>8. PICK run : IsRecursion(run, Rings, r, step, m)
  <2> HIDE DEF step, m
  <2> QED BY <1>1, <1>2, RecursionExists
<1>9. ASSUME NEW i \in 1 .. m PROVE run[i] = Displace(run[i - 1], ps[i]) /\ run[i - 1] \in Rings
  <2>1. i - 1 \in 0 .. m
    BY <1>1
  <2>2. run[i - 1] \in Rings /\ run[i] = step[<<run[i - 1], i>>]
    BY <1>8, <2>1 DEF IsRecursion
  <2> QED BY <2>2
<1> DEFINE S == {i \in Nat : i <= m => iter[1 .. i] = run[i]}
<1>10. 0 \in S
  <2>1. 1 .. 0 = {}
    OBVIOUS
  <2> QED BY <1>6, <1>8, <2>1 DEF IsRecursion
<1>11. ASSUME NEW i \in Nat, i \in S PROVE i + 1 \in S
  <2> SUFFICES ASSUME i + 1 <= m PROVE iter[1 .. i + 1] = run[i + 1]
    OBVIOUS
  <2>1. i + 1 \in 1 .. m /\ (i + 1) - 1 = i /\ iter[1 .. i] = run[i]
    BY <1>1, <1>11
  <2> QED BY <1>7, <1>9, <2>1
<1>12. Nat \subseteq S
  <2> HIDE DEF S
  <2> QED BY <1>10, <1>11, SetInduction
<1>13. DisplacesEach(run, r, ps)
  BY <1>8, <1>9 DEF DisplacesEach, IsRecursion
<1> QED BY <1>1, <1>5, <1>12, <1>13

-----------------------------------------------------------------------------
(* The dict and the list hold the virtual nodes of the members. *)

HeldBy(h, ms) == {h[v] : v \in ms \X (1 .. VNodes)}
Held == HeldBy(hash, members)
HeldUpTo(n, i) == {hash[<<n, j>>] : j \in 1 .. i}

RingInv ==
  /\ hash \in Hashes
  /\ members \subseteq Names
  /\ Now \in Rings
  /\ Agree(Now)
  /\ DOMAIN ring = Held
  /\ \A n \in members, i \in 1 .. VNodes : ring[hash[<<n, i>>]] = n

LEMMA HeldByPoints ==
  \A h, ms, q : q \in HeldBy(h, ms) <=> \E n \in ms, i \in 1 .. VNodes : q = h[<<n, i>>]
<1> SUFFICES ASSUME NEW h, NEW ms, NEW q
             PROVE  q \in HeldBy(h, ms) <=> \E n \in ms, i \in 1 .. VNodes : q = h[<<n, i>>]
  OBVIOUS
<1>1. ASSUME q \in HeldBy(h, ms) PROVE \E n \in ms, i \in 1 .. VNodes : q = h[<<n, i>>]
  <2>1. PICK v \in ms \X (1 .. VNodes) : q = h[v]
    BY <1>1 DEF HeldBy
  <2>2. PICK n \in ms, i \in 1 .. VNodes : v = <<n, i>>
    OBVIOUS
  <2> QED BY <2>1, <2>2
<1>2. ASSUME NEW n \in ms, NEW i \in 1 .. VNodes, q = h[<<n, i>>] PROVE q \in HeldBy(h, ms)
  <2>1. <<n, i>> \in ms \X (1 .. VNodes)
    OBVIOUS
  <2> QED BY <1>2, <2>1 DEF HeldBy
<1> QED BY <1>1, <1>2

LEMMA HeldPoints ==
  \A q : q \in Held <=> \E n \in members, i \in 1 .. VNodes : q = hash[<<n, i>>]
BY HeldByPoints DEF Held

LEMMA HeldUpToPoints ==
  \A n, i, q : q \in HeldUpTo(n, i) <=> \E j \in 1 .. i : q = hash[<<n, j>>]
BY DEF HeldUpTo

(* The virtual nodes with one member more, and one less. *)
LEMMA HeldAdds ==
  ASSUME NEW n PROVE HeldBy(hash, members \union {n}) = Held \union HeldUpTo(n, VNodes)
<1> DEFINE all == members \union {n}
<1>1. ASSUME NEW q, q \in HeldBy(hash, all) PROVE q \in Held \union HeldUpTo(n, VNodes)
  <2>1. PICK o \in all, i \in 1 .. VNodes : q = hash[<<o, i>>]
    BY <1>1, HeldByPoints
  <2>2. o = n => q \in HeldUpTo(n, VNodes)
    BY <2>1, HeldUpToPoints
  <2>3. o \in members => q \in Held
    BY <2>1, HeldPoints
  <2> QED BY <2>2, <2>3
<1>2. ASSUME NEW q, q \in Held PROVE q \in HeldBy(hash, all)
  <2>1. PICK o \in members, i \in 1 .. VNodes : q = hash[<<o, i>>]
    BY <1>2, HeldPoints
  <2>2. o \in all
    OBVIOUS
  <2> HIDE DEF all
  <2> QED BY <2>1, <2>2, HeldByPoints
<1>3. ASSUME NEW q, q \in HeldUpTo(n, VNodes) PROVE q \in HeldBy(hash, all)
  <2>1. PICK i \in 1 .. VNodes : q = hash[<<n, i>>]
    BY <1>3, HeldUpToPoints
  <2>2. n \in all
    OBVIOUS
  <2> HIDE DEF all
  <2> QED BY <2>1, <2>2, HeldByPoints
<1> HIDE DEF all
<1>4. HeldBy(hash, all) = Held \union HeldUpTo(n, VNodes)
  BY <1>1, <1>2, <1>3
<1> QED BY <1>4 DEF all

LEMMA HeldDrops ==
  ASSUME NEW n \in members,
         \A o \in members, i \in 1 .. VNodes : hash[<<o, i>>] \in HeldUpTo(n, VNodes) <=> o = n
  PROVE  HeldBy(hash, members \ {n}) = Held \ HeldUpTo(n, VNodes)
<1> DEFINE rest == members \ {n}
<1>1. ASSUME NEW q, q \in HeldBy(hash, rest) PROVE q \in Held \ HeldUpTo(n, VNodes)
  <2>1. PICK o \in rest, i \in 1 .. VNodes : q = hash[<<o, i>>]
    BY <1>1, HeldByPoints
  <2>2. o \in members /\ o # n
    OBVIOUS
  <2> QED BY <2>1, <2>2, HeldPoints
<1>2. ASSUME NEW q, q \in Held, q \notin HeldUpTo(n, VNodes) PROVE q \in HeldBy(hash, rest)
  <2>1. PICK o \in members, i \in 1 .. VNodes : q = hash[<<o, i>>]
    BY <1>2, HeldPoints
  <2>2. o \in rest
    BY <1>2, <2>1
  <2> HIDE DEF rest
  <2> QED BY <2>1, <2>2, HeldByPoints
<1> HIDE DEF rest
<1>3. HeldBy(hash, rest) = Held \ HeldUpTo(n, VNodes)
  BY <1>1, <1>2
<1> QED BY <1>3 DEF rest

(* The values of _hash are points, and no two of one hash are the same. *)
LEMMA HashesType ==
  ASSUME NEW h \in Hashes
  PROVE  /\ \A n \in Names, i \in 1 .. VNodes : h[<<n, i>>] \in Points
         /\ \A n, o \in Names, i, j \in 1 .. VNodes :
              h[<<n, i>>] = h[<<o, j>>] => n = o /\ i = j
<1>1. h \in [Virtual -> Points] /\ IsInjective(h)
  BY HashesAssumption
<1>2. \A n \in Names, i \in 1 .. VNodes : <<n, i>> \in Virtual
  BY DEF Virtual
<1>3. \A n \in Names, i \in 1 .. VNodes : h[<<n, i>>] \in Points
  BY <1>1, <1>2
<1>4. ASSUME NEW n \in Names, NEW o \in Names, NEW i \in 1 .. VNodes, NEW j \in 1 .. VNodes,
             h[<<n, i>>] = h[<<o, j>>]
      PROVE  n = o /\ i = j
  <2>1. <<n, i>> = <<o, j>>
    BY <1>1, <1>2, <1>4 DEF IsInjective
  <2> QED BY <2>1
<1> QED BY <1>3, <1>4

LEMMA HashType ==
  ASSUME hash \in Hashes
  PROVE  /\ \A n \in Names, i \in 1 .. VNodes : hash[<<n, i>>] \in Points
         /\ \A n, o \in Names, i, j \in 1 .. VNodes :
              hash[<<n, i>>] = hash[<<o, j>>] => n = o /\ i = j
         /\ \A n \in Names : VNodesOf(n) \in Seq(Points) /\ Len(VNodesOf(n)) = VNodes
<1>1. /\ \A n \in Names, i \in 1 .. VNodes : hash[<<n, i>>] \in Points
      /\ \A n, o \in Names, i, j \in 1 .. VNodes :
           hash[<<n, i>>] = hash[<<o, j>>] => n = o /\ i = j
  BY HashesType
<1>2. ASSUME NEW n \in Names PROVE VNodesOf(n) \in Seq(Points) /\ Len(VNodesOf(n)) = VNodes
  <2>1. VNodesOf(n) \in [1 .. VNodes -> Points] /\ VNodes \in Nat
    BY <1>1, VNodesAssumption DEF VNodesOf
  <2> QED BY <2>1
<1> QED BY <1>1, <1>2

LEMMA FirstHeld ==
  ASSUME NEW n, NEW i \in Nat
  PROVE  HeldUpTo(n, 0) = {} /\ HeldUpTo(n, i + 1) = HeldUpTo(n, i) \union {hash[<<n, i + 1>>]}
<1>1. \A j \in 1 .. i + 1 : j \in 1 .. i \/ j = i + 1
  OBVIOUS
<1>2. i + 1 \in 1 .. i + 1 /\ (\A j \in 1 .. i : j \in 1 .. i + 1) /\ 1 .. 0 = {}
  OBVIOUS
<1> QED BY <1>1, <1>2 DEF HeldUpTo

(* add_node, from the first virtual node to the last. *)
LEMMA AddHolds ==
  ASSUME RingInv, NEW n \in Names, n \notin members,
         NEW r, r = PlaceAll(n, Now, VNodesOf(n))
  PROVE  /\ r \in Rings /\ Agree(r)
         /\ DOMAIN r.ring = DOMAIN ring \union HeldUpTo(n, VNodes)
         /\ \A q \in DOMAIN r.ring : r.ring[q] = IF q \in HeldUpTo(n, VNodes) THEN n ELSE ring[q]
<1> DEFINE ps == VNodesOf(n)
<1>1. /\ Now \in Rings /\ ps \in Seq(Points) /\ Len(ps) = VNodes /\ VNodes \in Nat
      /\ Now.ring = ring /\ Agree(Now)
  BY HashType, VNodesAssumption DEF RingInv, Now
<1>2. \A i \in 1 .. VNodes : ps[i] = hash[<<n, i>>] /\ ps[i] \in Points
  BY HashType DEF RingInv, VNodesOf
<1> HIDE DEF ps
<1>3. PICK run : PlacesEach(run, n, Now, ps) /\ PlaceAll(n, Now, ps) = run[VNodes]
  BY <1>1, PlaceRuns
<1> DEFINE Good(i) ==
             /\ run[i] \in Rings /\ Agree(run[i])
             /\ DOMAIN run[i].ring = DOMAIN ring \union HeldUpTo(n, i)
             /\ \A q \in DOMAIN run[i].ring :
                  run[i].ring[q] = IF q \in HeldUpTo(n, i) THEN n ELSE ring[q]
           S == {i \in Nat : i <= VNodes => Good(i)}
<1>4. 0 \in S
  <2>1. run[0] = Now /\ HeldUpTo(n, 0) = {}
    BY <1>3, FirstHeld DEF PlacesEach
  <2> QED BY <1>1, <2>1
<1>5. ASSUME NEW i \in Nat, i \in S PROVE i + 1 \in S
  <2> SUFFICES ASSUME i + 1 <= VNodes PROVE Good(i + 1)
    OBVIOUS
  <2> DEFINE p == hash[<<n, i + 1>>]
             d == run[i]
  <2>1. Good(i) /\ i + 1 \in 1 .. VNodes /\ (i + 1) - 1 = i
    BY <1>1, <1>5
  <2>2. run[i + 1] = Place(n, d, p) /\ p \in Points
    BY <1>1, <1>2, <1>3, <2>1 DEF PlacesEach
  <2>3. HeldUpTo(n, i + 1) = HeldUpTo(n, i) \union {p}
    BY FirstHeld
  <2>4. p \notin DOMAIN d.ring
    <3>0. \A a, o \in Names, x, y \in 1 .. VNodes :
            hash[<<a, x>>] = hash[<<o, y>>] => a = o /\ x = y
      BY HashType DEF RingInv
    <3>1. \A o \in members, j \in 1 .. VNodes : p # hash[<<o, j>>]
      <4>1. members \subseteq Names /\ i + 1 \in 1 .. VNodes
        BY <2>1 DEF RingInv
      <4> QED BY ONLY n \in Names, n \notin members, <3>0, <4>1 DEF p
    <3>2. \A j \in 1 .. i : j \in 1 .. VNodes /\ j # i + 1
      <4> HIDE DEF Good
      <4> QED BY <1>1, <2>1
    <3>3. \A j \in 1 .. i : p # hash[<<n, j>>]
      <4>1. i + 1 \in 1 .. VNodes
        BY <2>1
      <4> QED BY ONLY n \in Names, <3>0, <3>2, <4>1 DEF p
    <3>4. p \notin HeldUpTo(n, i)
      <4> HIDE DEF p
      <4>1. p \in HeldUpTo(n, i) <=> \E j \in 1 .. i : p = hash[<<n, j>>]
        BY ONLY HeldUpToPoints
      <4> QED BY ONLY <3>3, <4>1
    <3>5. p \notin DOMAIN ring
      <4>1. DOMAIN ring = Held
        BY DEF RingInv
      <4> QED BY ONLY <3>1, <4>1, HeldPoints
    <3> HIDE DEF p, d
    <3> QED BY <2>1, <3>4, <3>5 DEF d
  <2>5. d \in Rings /\ Agree(d)
    BY <2>1
  <2> HIDE DEF p, d
  <2>6. /\ run[i + 1] \in Rings /\ Agree(run[i + 1])
        /\ DOMAIN run[i + 1].ring = DOMAIN d.ring \union {p}
        /\ \A q \in DOMAIN d.ring \union {p} :
             run[i + 1].ring[q] = IF q = p THEN n ELSE d.ring[q]
    BY <2>2, <2>4, <2>5, Placed
  <2> QED BY <2>1, <2>3, <2>6 DEF d
<1>6. Nat \subseteq S
  <2> HIDE DEF S
  <2> QED BY <1>4, <1>5, SetInduction
<1>7. Good(VNodes)
  BY <1>1, <1>6
<1> QED BY <1>3, <1>7 DEF ps

(* remove_node, from the first virtual node to the last. *)
LEMMA RemoveHolds ==
  ASSUME RingInv, NEW n \in members, NEW r, r = DisplaceAll(Now, VNodesOf(n))
  PROVE  /\ r \in Rings /\ Agree(r)
         /\ DOMAIN r.ring = DOMAIN ring \ HeldUpTo(n, VNodes)
         /\ \A q \in DOMAIN r.ring : r.ring[q] = ring[q]
<1> DEFINE ps == VNodesOf(n)
<1>1. /\ Now \in Rings /\ ps \in Seq(Points) /\ Len(ps) = VNodes /\ VNodes \in Nat
      /\ Now.ring = ring /\ Agree(Now)
  BY HashType, VNodesAssumption DEF RingInv, Now
<1>2. \A i \in 1 .. VNodes : ps[i] = hash[<<n, i>>] /\ ps[i] \in Points
  BY HashType DEF RingInv, VNodesOf
<1> HIDE DEF ps
<1>3. PICK run : DisplacesEach(run, Now, ps) /\ DisplaceAll(Now, ps) = run[VNodes]
  BY <1>1, DisplaceRuns
<1> DEFINE Good(i) ==
             /\ run[i] \in Rings /\ Agree(run[i])
             /\ DOMAIN run[i].ring = DOMAIN ring \ HeldUpTo(n, i)
             /\ \A q \in DOMAIN run[i].ring : run[i].ring[q] = ring[q]
           S == {i \in Nat : i <= VNodes => Good(i)}
<1>4. 0 \in S
  <2>1. run[0] = Now /\ HeldUpTo(n, 0) = {}
    BY <1>3, FirstHeld DEF DisplacesEach
  <2> QED BY <1>1, <2>1
<1>5. ASSUME NEW i \in Nat, i \in S PROVE i + 1 \in S
  <2> SUFFICES ASSUME i + 1 <= VNodes PROVE Good(i + 1)
    OBVIOUS
  <2> DEFINE p == hash[<<n, i + 1>>]
             d == run[i]
  <2>1. Good(i) /\ i + 1 \in 1 .. VNodes /\ (i + 1) - 1 = i
    BY <1>1, <1>5
  <2>2. run[i + 1] = Displace(d, p) /\ p \in Points
    BY <1>1, <1>2, <1>3, <2>1 DEF DisplacesEach
  <2>3. HeldUpTo(n, i + 1) = HeldUpTo(n, i) \union {p}
    BY FirstHeld
  <2>4. d \in Rings /\ Agree(d)
    BY <2>1
  <2> HIDE DEF p, d
  <2>5. /\ run[i + 1] \in Rings /\ Agree(run[i + 1])
        /\ DOMAIN run[i + 1].ring = DOMAIN d.ring \ {p}
        /\ \A q \in DOMAIN d.ring \ {p} : run[i + 1].ring[q] = d.ring[q]
    BY <2>2, <2>4, Displaced
  <2> QED BY <2>1, <2>3, <2>5 DEF d
<1>6. Nat \subseteq S
  <2> HIDE DEF S
  <2> QED BY <1>4, <1>5, SetInduction
<1>7. Good(VNodes)
  BY <1>1, <1>6
<1> QED BY <1>3, <1>7 DEF ps

(* The invariant is inductive by itself. *)
THEOREM Holding == Spec => []RingInv
<1>1. Init => RingInv
  <2> SUFFICES ASSUME Init PROVE RingInv
    OBVIOUS
  <2>1. Now = [ring |-> << >>, sorted |-> << >>] /\ members = {} /\ ring = << >> /\ hash \in Hashes
    BY DEF Init, Now
  <2>2. << >> \in Seq(Points) /\ DOMAIN << >> = {} /\ Len(<< >>) = 0 /\ 1 .. 0 = {}
    OBVIOUS
  <2>3. << >> \in Dicts
    <3>1. << >> \in [{} -> Names]
      OBVIOUS
    <3> QED BY <3>1 DEF Dicts
  <2>4. ToSet(<< >>) = {} /\ Ascending(<< >>)
    BY <2>2 DEF ToSet, Ascending
  <2>5. Now \in Rings /\ Agree(Now)
    BY <2>1, <2>2, <2>3, <2>4 DEF Rings, Agree
  <2>6. DOMAIN ring = Held
    <3>1. \A q : ~ (q \in Held)
      BY <2>1, HeldPoints
    <3> QED BY <2>1, <2>2, <3>1
  <2> QED BY <2>1, <2>5, <2>6 DEF RingInv
<1>2. RingInv /\ [Next]_vars => RingInv'
  <2> SUFFICES ASSUME RingInv, [Next]_vars PROVE RingInv'
    OBVIOUS
  <2>1. ASSUME NEW n \in Names, AddNode(n) PROVE RingInv'
    <3> DEFINE r == PlaceAll(n, Now, VNodesOf(n))
               h == HeldUpTo(n, VNodes)
    <3>1. n \notin members /\ members' = members \union {n} /\ hash' = hash
          /\ ring' = r.ring /\ sorted' = r.sorted
      BY <2>1 DEF AddNode, Becomes, PlaceAll
    <3>2. /\ r \in Rings /\ Agree(r) /\ DOMAIN r.ring = DOMAIN ring \union h
          /\ \A q \in DOMAIN r.ring : r.ring[q] = IF q \in h THEN n ELSE ring[q]
      <4> HIDE DEF r
      <4> QED BY <3>1, AddHolds DEF r
    <3> HIDE DEF r
    <3>3. Now' = r
      BY <3>1, <3>2 DEF Now, Rings
    <3>4. DOMAIN ring' = Held'
      <4>1. DOMAIN ring' = Held \union h
        BY <3>1, <3>2 DEF RingInv
      <4>2. Held' = HeldBy(hash, members \union {n})
        BY <3>1 DEF Held
      <4> QED BY <4>1, <4>2, HeldAdds
    <3>5. ASSUME NEW o \in members', NEW i \in 1 .. VNodes PROVE ring'[hash[<<o, i>>]] = o
      <4>1. hash[<<o, i>>] \in DOMAIN ring'
        <5>1. Held' = HeldBy(hash, members')
          BY <3>1 DEF Held
        <5>2. hash[<<o, i>>] \in HeldBy(hash, members')
          BY ONLY o \in members', i \in 1 .. VNodes, HeldByPoints
        <5> QED BY <3>4, <5>1, <5>2
      <4>2. CASE o = n
        BY <3>1, <3>2, <4>1, <4>2 DEF HeldUpTo
      <4>3. CASE o # n
        <5>1. o \in members /\ o \in Names
          BY <3>1, <4>3 DEF RingInv
        <5>2. hash[<<o, i>>] \notin h
          BY <4>3, <5>1, HashType DEF RingInv, HeldUpTo
        <5> QED BY <3>1, <3>2, <4>1, <5>1, <5>2 DEF RingInv
      <4> QED BY <4>2, <4>3
    <3> QED BY <3>1, <3>2, <3>3, <3>4, <3>5 DEF RingInv, Agree
  <2>2. ASSUME NEW n \in Names, RemoveNode(n) PROVE RingInv'
    <3> DEFINE r == DisplaceAll(Now, VNodesOf(n))
               h == HeldUpTo(n, VNodes)
    <3>1. n \in members /\ members' = members \ {n} /\ hash' = hash
          /\ ring' = r.ring /\ sorted' = r.sorted
      BY <2>2 DEF RemoveNode, Becomes, DisplaceAll
    <3>2. /\ r \in Rings /\ Agree(r) /\ DOMAIN r.ring = DOMAIN ring \ h
          /\ \A q \in DOMAIN r.ring : r.ring[q] = ring[q]
      <4> HIDE DEF r
      <4> QED BY <3>1, RemoveHolds DEF r
    <3> HIDE DEF r
    <3>3. Now' = r
      BY <3>1, <3>2 DEF Now, Rings
    <3>4. ASSUME NEW o \in members, NEW i \in 1 .. VNodes
          PROVE  hash[<<o, i>>] \in h <=> o = n
      <4>1. hash \in Hashes /\ o \in Names /\ n \in Names
        BY <3>1 DEF RingInv
      <4>2. \A j \in 1 .. VNodes : hash[<<o, i>>] = hash[<<n, j>>] => <<o, i>> = <<n, j>>
        BY <4>1, HashType
      <4> QED BY <4>2 DEF HeldUpTo
    <3>5. DOMAIN ring' = Held'
      <4>1. DOMAIN ring' = Held \ h
        BY <3>1, <3>2 DEF RingInv
      <4>2. Held' = HeldBy(hash, members \ {n})
        BY <3>1 DEF Held
      <4> QED BY <3>1, <3>4, <4>1, <4>2, HeldDrops
    <3>6. ASSUME NEW o \in members', NEW i \in 1 .. VNodes PROVE ring'[hash[<<o, i>>]] = o
      <4>1. hash[<<o, i>>] \in DOMAIN ring' /\ o \in members
        <5>1. Held' = HeldBy(hash, members') /\ o \in members
          BY <3>1 DEF Held
        <5>2. hash[<<o, i>>] \in HeldBy(hash, members')
          BY ONLY o \in members', i \in 1 .. VNodes, HeldByPoints
        <5> QED BY <3>5, <5>1, <5>2
      <4> QED BY <3>1, <3>2, <4>1 DEF RingInv
    <3> QED BY <3>1, <3>2, <3>3, <3>5, <3>6 DEF RingInv, Agree
  <2>3. CASE UNCHANGED vars
    <3>1. hash' = hash /\ members' = members /\ ring' = ring /\ sorted' = sorted
      BY <2>3 DEF vars
    <3>2. Now' = Now /\ Held' = Held
      BY ONLY <3>1, Zenon DEF Now, Held
    <3> QED BY <3>1, <3>2 DEF RingInv, Agree
  <2> QED BY <2>1, <2>2, <2>3 DEF Next
<1> QED BY <1>1, <1>2, PTL DEF Spec

(* The dict maps points to nodes, and the list is one of points: the types *)
(* of HashRing's attributes, after any sequence of calls.                  *)
THEOREM TypeCorrect == Spec => []TypeOK
<1>1. RingInv => TypeOK
  BY DictType DEF RingInv, TypeOK, Now, Rings
<1> QED BY <1>1, Holding, PTL

(* After any calls of add_node and remove_node the dict and the sorted     *)
(* list hold the virtual nodes of the members and nothing else: get_node   *)
(* finds an entry for every point, and never a node that has left.         *)
THEOREM HoldsMembers == Spec => []RingHoldsMembers
<1>1. RingInv => RingHoldsMembers
  <2> SUFFICES ASSUME RingInv PROVE RingHoldsMembers
    OBVIOUS
  <2>1. ToSet(sorted) = DOMAIN ring /\ Ascending(sorted) /\ sorted \in Seq(Points)
    BY DEF RingInv, Agree, Now, Rings
  <2>2. ASSUME NEW i \in 1 .. Len(sorted) - 1 PROVE sorted[i] < sorted[i + 1]
    <3>1. i \in 1 .. Len(sorted) /\ i + 1 \in 1 .. Len(sorted) /\ i < i + 1
      BY <2>1
    <3> QED BY <2>1, <3>1 DEF Ascending
  <2>3. /\ DOMAIN ring = HeldBy(hash, members)
        /\ \A n \in members, i \in 1 .. VNodes : ring[hash[<<n, i>>]] = n
    BY DEF RingInv, Held
  <2> QED BY <2>1, <2>2, <2>3 DEF RingHoldsMembers, HeldBy
<1> QED BY <1>1, Holding, PTL

-----------------------------------------------------------------------------
(* Routing. *)

LEMMA Remainders ==
  \A a \in Int, b \in Nat \ {0} :
    (0 <= a /\ a < b => a % b = a) /\ (- b <= a /\ a < 0 => a % b = a + b)
OBVIOUS

LEMMA ClockwiseIs ==
  ASSUME NEW x \in Points, NEW p \in Points
  PROVE  Clockwise(x, p) = IF p > x THEN p - x - 1 ELSE p - x - 1 + Space
<1>1. x \in Int /\ p \in Int /\ 0 <= x /\ x < Space /\ 0 <= p /\ p < Space /\ Space \in Nat \ {0}
  BY PointsAreNumbers, SpaceAssumption
<1> DEFINE a == p - x - 1
<1>2. a \in Int /\ (p > x => 0 <= a /\ a < Space) /\ (~ (p > x) => - Space <= a /\ a < 0)
  BY <1>1
<1>3. (p > x => a % Space = a) /\ (~ (p > x) => a % Space = a + Space)
  <2> HIDE DEF a
  <2> QED BY <1>1, <1>2, Remainders
<1>4. Clockwise(x, p) = a % Space
  BY DEF Clockwise
<1> QED BY <1>1, <1>3, <1>4

(* Two points are not at the same distance. *)
LEMMA ClockwiseInjective ==
  ASSUME NEW x \in Points, NEW p \in Points, NEW q \in Points, Clockwise(x, p) = Clockwise(x, q)
  PROVE  p = q
<1>1. /\ x \in Int /\ p \in Int /\ 0 <= x /\ x < Space /\ 0 <= p /\ p < Space /\ Space \in Int
      /\ q \in Int /\ 0 <= q /\ q < Space
  BY PointsAreNumbers, SpaceAssumption
<1> QED BY <1>1, ClockwiseIs

(* Clockwise from x come the points after x, then those up to x. *)
LEMMA ClockwiseOrder ==
  ASSUME NEW x \in Points, NEW p \in Points, NEW q \in Points,
         \/ p <= x /\ q <= x /\ p <= q
         \/ p > x /\ (q <= x \/ p <= q)
  PROVE  Clockwise(x, p) <= Clockwise(x, q)
<1> DEFINE P == Clockwise(x, p)
           Q == Clockwise(x, q)
<1>1. /\ x \in Int /\ p \in Int /\ 0 <= x /\ x < Space /\ 0 <= p /\ p < Space /\ Space \in Int
      /\ q \in Int /\ 0 <= q /\ q < Space
  BY PointsAreNumbers, SpaceAssumption
<1>2. (p > x => P = p - x - 1) /\ (p <= x => P = p - x - 1 + Space)
  BY <1>1, ClockwiseIs
<1>3. (q > x => Q = q - x - 1) /\ (q <= x => Q = q - x - 1 + Space)
  BY <1>1, ClockwiseIs
<1> HIDE DEF P, Q
<1>4. ASSUME p <= x /\ q <= x /\ p <= q PROVE P <= Q
  <2>1. P = p - x - 1 + Space /\ Q = q - x - 1 + Space
    BY <1>2, <1>3, <1>4
  <2> QED BY ONLY <1>1, <1>4, <2>1
<1>5. ASSUME p > x /\ q <= x PROVE P <= Q
  <2>1. P = p - x - 1 /\ Q = q - x - 1 + Space
    BY <1>2, <1>3, <1>5
  <2> QED BY ONLY <1>1, <2>1
<1>6. ASSUME p > x /\ p <= q PROVE P <= Q
  <2>1. q > x
    BY ONLY <1>1, <1>6
  <2>2. P = p - x - 1 /\ Q = q - x - 1
    BY <1>2, <1>3, <1>6, <2>1
  <2> QED BY ONLY <1>1, <1>6, <2>2
<1>7. P <= Q
  BY <1>1, <1>4, <1>5, <1>6
<1> QED BY <1>7 DEF P, Q

(* The lookup ends at the nearest point of the list. *)
LEMMA NearestPoint ==
  ASSUME RingInv, sorted # << >>, NEW x \in Points
  PROVE  \E p \in Held : GetNode(x) = ring[p] /\ \A q \in Held : Clockwise(x, p) <= Clockwise(x, q)
<1> DEFINE k == Bisect(sorted, x)
           c == Len(sorted)
           j == IF k = c THEN 1 ELSE k + 1
           p == sorted[j]
<1>1. sorted \in Seq(Points) /\ Ascending(sorted) /\ ToSet(sorted) = Held /\ c \in Nat /\ c > 0
      /\ DOMAIN sorted = 1 .. c
  <2>1. sorted \in Seq(Points) /\ Ascending(sorted) /\ ToSet(sorted) = Held
    BY DEF RingInv, Agree, Now, Rings
  <2>2. c \in Nat /\ DOMAIN sorted = 1 .. c /\ c # 0
    BY <2>1
  <2> HIDE DEF c
  <2> QED BY <2>1, <2>2
<1>2. k \in 0 .. c /\ \A i \in 1 .. c : sorted[i] <= x <=> i <= k
  <2>1. x \in Int
    BY PointsAreNumbers
  <2> QED BY <1>1, <2>1, Cuts
<1>3. GetNode(x) = ring[p]
  BY DEF GetNode
<1> HIDE DEF k, c
<1>4. j \in 1 .. c
  BY <1>1, <1>2
<1>5. \A i \in 1 .. c : sorted[i] \in Points /\ sorted[i] \in Held
  <2>1. \A i \in 1 .. c : sorted[i] \in Points
    BY <1>1 DEF c
  <2>2. \A i \in 1 .. c : sorted[i] \in ToSet(sorted)
    BY <1>1 DEF ToSet
  <2> QED BY <1>1, <2>1, <2>2
<1>6. ASSUME NEW i \in 1 .. c PROVE Clockwise(x, p) <= Clockwise(x, sorted[i])
  <2> DEFINE q == sorted[i]
  <2>1. /\ x \in Int /\ p \in Int /\ 0 <= x /\ x < Space /\ 0 <= p /\ p < Space /\ Space \in Int
        /\ q \in Int /\ 0 <= q /\ q < Space /\ p \in Points /\ q \in Points
    <3>1. p \in Points /\ q \in Points
      BY <1>4, <1>5
    <3> HIDE DEF p, q
    <3> QED BY <3>1, PointsAreNumbers, SpaceAssumption
  <2>2. \A a, b \in 1 .. c : a < b => sorted[a] < sorted[b]
    BY <1>1 DEF Ascending, c
  <2>3. CASE k = c
    <3>1. j = 1 /\ p <= x /\ q <= x
      BY <1>1, <1>2, <1>4, <2>3
    <3>2. p <= q
      <4>1. i = 1 \/ 1 < i
        OBVIOUS
      <4> QED BY <1>4, <2>1, <2>2, <3>1, <4>1
    <3> QED BY <2>1, <3>1, <3>2, ClockwiseOrder
  <2>4. CASE k # c
    <3>1. j = k + 1 /\ ~ (j <= k)
      BY <1>2, <2>4
    <3>2. p > x
      <4>1. ~ (p <= x)
        BY <1>2, <1>4, <3>1
      <4> HIDE DEF p
      <4> QED BY <2>1, <4>1
    <3>3. q <= x \/ (q > x /\ p <= q)
      <4>1. CASE i <= k
        BY <1>2, <4>1
      <4>2. CASE ~ (i <= k)
        <5>1. ~ (q <= x) /\ (i = j \/ j < i)
          BY <1>2, <3>1, <4>2
        <5>2. p <= q
          BY <1>4, <2>1, <2>2, <5>1
        <5> HIDE DEF p, q
        <5> QED BY <2>1, <5>1, <5>2
      <4> QED BY <4>1, <4>2
    <3> QED BY <2>1, <3>2, <3>3, ClockwiseOrder
  <2> QED BY <2>3, <2>4
<1>7. ASSUME NEW q \in Held PROVE Clockwise(x, p) <= Clockwise(x, q)
  <2>1. PICK i \in 1 .. c : sorted[i] = q
    BY <1>1 DEF ToSet
  <2> HIDE DEF p
  <2> QED BY <1>6, <2>1
<1>8. p \in Held
  BY <1>4, <1>5
<1> QED BY <1>3, <1>7, <1>8

(* get_node finds the member with the nearest virtual node clockwise, for  *)
(* every key and whatever the order the members came in.                   *)
THEOREM RoutesToNearest == Spec => []RoutesClockwise
<1>1. RingInv => RoutesClockwise
  <2> SUFFICES ASSUME RingInv, NEW x \in Points
               PROVE  IF members = {} THEN GetNode(x) = None
                      ELSE \E i \in 1 .. VNodes :
                             /\ GetNode(x) \in members
                             /\ \A n \in members, j \in 1 .. VNodes :
                                  Clockwise(x, hash[<<GetNode(x), i>>]) <= Clockwise(x, hash[<<n, j>>])
    BY DEF RoutesClockwise
  <2>1. ToSet(sorted) = Held /\ sorted \in Seq(Points)
    BY DEF RingInv, Agree, Now, Rings
  <2>2. CASE members = {}
    <3>1. \A q : ~ (q \in Held)
      BY <2>2, HeldPoints
    <3>2. sorted = << >>
      <4> SUFFICES ASSUME sorted # << >> PROVE FALSE
        OBVIOUS
      <4>1. sorted[1] \in ToSet(sorted)
        BY <2>1 DEF ToSet
      <4> QED BY <2>1, <3>1, <4>1
    <3> QED BY <2>2, <3>2 DEF GetNode
  <2>3. CASE members # {}
    <3>1. sorted # << >>
      <4>1. PICK n \in members : TRUE
        BY <2>3
      <4>2. 1 \in 1 .. VNodes
        BY VNodesAssumption
      <4>3. hash[<<n, 1>>] \in Held
        BY <4>2, HeldPoints
      <4>4. DOMAIN << >> = {}
        OBVIOUS
      <4> QED BY <2>1, <4>3, <4>4 DEF ToSet
    <3>2. PICK p \in Held : GetNode(x) = ring[p] /\ \A q \in Held : Clockwise(x, p) <= Clockwise(x, q)
      BY <3>1, NearestPoint
    <3>3. PICK n \in members, i \in 1 .. VNodes : p = hash[<<n, i>>]
      BY HeldPoints
    <3>4. GetNode(x) = n
      BY <3>2, <3>3 DEF RingInv
    <3>5. \A o \in members, j \in 1 .. VNodes : hash[<<o, j>>] \in Held
      BY HeldPoints
    <3>6. \A o \in members, j \in 1 .. VNodes : Clockwise(x, hash[<<n, i>>]) <= Clockwise(x, hash[<<o, j>>])
      BY <3>2, <3>3, <3>5
    <3> QED BY <2>3, <3>4, <3>6
  <2> QED BY <2>2, <2>3
<1> QED BY <1>1, Holding, PTL
-----------------------------------------------------------------------------
(* What a change of the members moves. *)

(* The node o of M has the nearest virtual node clockwise from x. *)
Nearest(h, M, x, o) ==
  /\ o \in M
  /\ \E i \in 1 .. VNodes : \A n \in M, j \in 1 .. VNodes :
       Clockwise(x, h[<<o, i>>]) <= Clockwise(x, h[<<n, j>>])

Routes(h, M, x, o) == IF M = {} THEN o = None ELSE Nearest(h, M, x, o)

(* No two nodes are nearest, because no two virtual nodes share a point. *)
LEMMA OneNearest ==
  ASSUME NEW h \in Hashes, NEW M \in SUBSET Names, NEW x \in Points, NEW o, NEW q,
         Nearest(h, M, x, o), Nearest(h, M, x, q)
  PROVE  o = q
<1>1. PICK i \in 1 .. VNodes : \A n \in M, j \in 1 .. VNodes :
        Clockwise(x, h[<<o, i>>]) <= Clockwise(x, h[<<n, j>>])
  BY DEF Nearest
<1>2. PICK k \in 1 .. VNodes : \A n \in M, j \in 1 .. VNodes :
        Clockwise(x, h[<<q, k>>]) <= Clockwise(x, h[<<n, j>>])
  BY DEF Nearest
<1>3. o \in M /\ q \in M /\ o \in Names /\ q \in Names
  BY DEF Nearest
<1> DEFINE P == h[<<o, i>>]
           Q == h[<<q, k>>]
<1>4. P \in Points /\ Q \in Points
  BY <1>3, HashesType
<1>5. Clockwise(x, P) <= Clockwise(x, Q) /\ Clockwise(x, Q) <= Clockwise(x, P)
  BY <1>1, <1>2, <1>3
<1>6. P = Q
  <2> HIDE DEF P, Q
  <2>1. Clockwise(x, P) \in Int /\ Clockwise(x, Q) \in Int
    BY <1>4, PointsAreNumbers, SpaceAssumption, ClockwiseIs
  <2>2. Clockwise(x, P) = Clockwise(x, Q)
    BY ONLY <1>5, <2>1
  <2> QED BY <1>4, <2>2, ClockwiseInjective
<1> QED BY <1>3, <1>6, HashesType

(* A node that comes takes keys for itself and moves no other. *)
LEMMA KeysStay ==
  ASSUME NEW h \in Hashes, NEW M \in SUBSET Names, NEW x \in Points, NEW n \in Names,
         NEW o, NEW q, Routes(h, M, x, o), Routes(h, M \union {n}, x, q)
  PROVE  q \in {o, n}
<1>1. Nearest(h, M \union {n}, x, q)
  BY DEF Routes
<1> SUFFICES ASSUME q # n PROVE q = o
  OBVIOUS
<1>2. q \in M /\ M # {}
  BY <1>1 DEF Nearest
<1>3. Nearest(h, M, x, q)
  BY <1>1, <1>2 DEF Nearest
<1>4. Nearest(h, M, x, o)
  BY <1>2 DEF Routes
<1> QED BY <1>3, <1>4, OneNearest

(* When a node comes, the keys that change their node change it to that    *)
(* one; when a node leaves, only its own keys change: what a client can    *)
(* still find in the cache after add_node and remove_node.                 *)
THEOREM MovesFewKeys == Spec => OnlyItsKeysMove
<1> DEFINE Step == \A x \in Points, n \in Names :
                     /\ members' = members \union {n} => GetNode(x)' \in {GetNode(x), n}
                     /\ members' = members \ {n} => GetNode(x) \in {GetNode(x)', n}
<1>1. ASSUME RingInv, RoutesClockwise, RoutesClockwise', [Next]_vars PROVE Step
  <2>1. hash' = hash /\ hash \in Hashes /\ members \in SUBSET Names
    BY <1>1 DEF RingInv, Next, AddNode, RemoveNode, vars
  <2> SUFFICES ASSUME NEW x \in Points, NEW n \in Names
               PROVE  /\ members' = members \union {n} => GetNode(x)' \in {GetNode(x), n}
                      /\ members' = members \ {n} => GetNode(x) \in {GetNode(x)', n}
    OBVIOUS
  <2>2. Routes(hash, members, x, GetNode(x))
    BY <1>1 DEF RoutesClockwise, Routes, Nearest
  <2>3. Routes(hash, members', x, GetNode(x)')
    BY <1>1, <2>1 DEF RoutesClockwise, Routes, Nearest
  <2>4. ASSUME members' = members \union {n} PROVE GetNode(x)' \in {GetNode(x), n}
    BY <2>1, <2>2, <2>3, <2>4, KeysStay
  <2>5. ASSUME members' = members \ {n} PROVE GetNode(x) \in {GetNode(x)', n}
    <3>1. members' \in SUBSET Names
      BY <2>1, <2>5
    <3>2. CASE n \in members
      <4>1. members = members' \union {n}
        BY <2>5, <3>2
      <4> QED BY <2>1, <2>2, <2>3, <3>1, <4>1, KeysStay
    <3>3. CASE n \notin members
      <4>1. members' = members
        BY <2>5, <3>3
      <4>2. CASE members = {}
        BY <2>2, <2>3, <4>1, <4>2 DEF Routes
      <4>3. CASE members # {}
        <5>1. Nearest(hash, members, x, GetNode(x)) /\ Nearest(hash, members, x, GetNode(x)')
          BY <2>2, <2>3, <4>1, <4>3 DEF Routes
        <5> QED BY <2>1, <5>1, OneNearest
      <4> QED BY <4>2, <4>3
    <3> QED BY <3>2, <3>3
  <2> QED BY <2>4, <2>5
<1>2. Spec => [][Step]_vars
  BY <1>1, Holding, RoutesToNearest, PTL DEF Spec
<1> QED BY <1>2 DEF OnlyItsKeysMove
=============================================================================
