----------------------------- MODULE DataLemmas -----------------------------
(***************************************************************************)
(* Induction over data in the form of statements about sets, what the      *)
(* recursive operators on sequences that the specifications use give for   *)
(* every sequence, and what the parser makes of an encoded command.        *)
(***************************************************************************)
EXTENDS Integers, SequencesExt, KeyOrders, Protocol, FiniteSetTheorems,
        WellFoundedInduction, SequenceTheorems, TLAPS

(* A family of finite sets of numbers has a member that is minimal under   *)
(* inclusion; the intervals below the members of T are such a family.      *)
LEMMA LeastNumber ==
  ASSUME NEW T \in SUBSET Nat, T # {}
  PROVE  \E m \in T : \A n \in T : m <= n
<1> DEFINE Below(m) == 1 .. m
           F == {Below(m) : m \in T}
<1>1. IsWellFoundedOn(StrictSubsetOrdering(Nat), FiniteSubsetsOf(Nat))
  BY FS_StrictSubsetOrderingWellFounded
<1>2. F \subseteq FiniteSubsetsOf(Nat) /\ F # {}
  <2>1. ASSUME NEW m \in T PROVE Below(m) \in SUBSET Nat /\ IsFiniteSet(Below(m))
    BY FS_Interval
  <2> QED BY <2>1 DEF FiniteSubsetsOf
<1>3. PICK x \in F : \A y \in F : ~ (<<y, x>> \in StrictSubsetOrdering(Nat))
  <2> HIDE DEF F
  <2> QED BY <1>1, <1>2, WFMin
<1>4. PICK m \in T : x = Below(m)
  OBVIOUS
<1>5. ASSUME NEW n \in T, n < m PROVE FALSE
  <2>1. Below(n) \in F /\ Below(n) \subseteq Below(m)
    BY <1>5
  <2>2. m \in Below(m) /\ m \notin Below(n)
    BY <1>5
  <2>3. Below(n) \subseteq Nat /\ Below(m) \subseteq Nat
    OBVIOUS
  <2>4. <<Below(n), Below(m)>> \in StrictSubsetOrdering(Nat)
    <3> HIDE DEF Below
    <3> QED BY <2>1, <2>2, <2>3 DEF StrictSubsetOrdering
  <2> QED BY <1>3, <1>4, <2>1, <2>4
<1> QED BY <1>5

(* Induction, for a set of numbers. *)
LEMMA SetInduction ==
  ASSUME NEW S, 0 \in S, \A n \in Nat : n \in S => n + 1 \in S
  PROVE  Nat \subseteq S
<1> SUFFICES ASSUME Nat \ S # {} PROVE FALSE
  OBVIOUS
<1>1. PICK m \in Nat \ S : \A n \in Nat \ S : m <= n
  BY LeastNumber
<1>2. m # 0 /\ m - 1 \in Nat
  BY <1>1
<1>3. m - 1 \in S
  BY <1>1, <1>2
<1> QED BY <1>1, <1>2, <1>3

LEMMA GreatestNumber ==
  ASSUME NEW b \in Nat, NEW T \in SUBSET (0 .. b), T # {}
  PROVE  \E m \in T : \A n \in T : n <= m
<1> DEFINE R == {b - m : m \in T}
<1>1. R \in SUBSET Nat /\ R # {}
  <2>1. ASSUME NEW m \in T PROVE b - m \in Nat
    <3>1. m \in 0 .. b
      OBVIOUS
    <3> QED BY <3>1
  <2> QED BY <2>1
<1>2. PICK r \in R : \A x \in R : r <= x
  <2> HIDE DEF R
  <2> QED BY <1>1, LeastNumber
<1>3. PICK m \in T : r = b - m
  OBVIOUS
<1>4. ASSUME NEW n \in T PROVE n <= m
  <2>1. b - n \in R
    OBVIOUS
  <2> QED BY <1>2, <1>3, <2>1
<1> QED BY <1>4

-----------------------------------------------------------------------------
(* FoldLeft goes through the positions of a sequence by a recursive        *)
(* function on sets of positions that takes the greatest one off.  What it *)
(* defines exists: the step is given as a function, so that the lemma has  *)
(* no operator among its parameters.                                       *)

Greatest(T) == CHOOSE m \in T : \A n \in T : m >= n

LEMMA GreatestOf ==
  ASSUME NEW b \in Nat, NEW T \in SUBSET (1 .. b), T # {}
  PROVE  Greatest(T) \in T /\ \A n \in T : Greatest(T) >= n
<1>1. T \in SUBSET (0 .. b)
  OBVIOUS
<1>2. PICK m \in T : \A n \in T : n <= m
  BY <1>1, GreatestNumber
<1>3. \A n \in T : m >= n
  BY <1>2
<1> QED BY <1>3 DEF Greatest

LEMMA GreatestOfInterval ==
  ASSUME NEW i \in Nat, i # 0
  PROVE  Greatest(1 .. i) = i /\ (1 .. i) \ {i} = 1 .. i - 1
<1>1. Greatest(1 .. i) \in 1 .. i /\ \A n \in 1 .. i : Greatest(1 .. i) >= n
  <2>1. (1 .. i) \in SUBSET (1 .. i) /\ 1 \in 1 .. i
    OBVIOUS
  <2> QED BY <2>1, GreatestOf
<1>2. Greatest(1 .. i) >= i
  BY <1>1
<1> QED BY <1>1, <1>2

IsFold(g, V, base, step, n) ==
  /\ g \in [SUBSET (1 .. n) -> V]
  /\ \A s \in SUBSET (1 .. n) :
       g[s] = IF s = {} THEN base ELSE step[<<g[s \ {Greatest(s)}], Greatest(s)>>]

LEMMA FoldExists ==
  ASSUME NEW V, NEW base \in V, NEW N \in Nat, NEW step \in [V \X (1 .. N) -> V]
  PROVE  \E g : IsFold(g, V, base, step, N)
<1> DEFINE S == {n \in Nat : n <= N => \E g : IsFold(g, V, base, step, n)}
<1>1. 0 \in S
  <2>1. IsFold([s \in SUBSET (1 .. 0) |-> base], V, base, step, 0)
    BY DEF IsFold
  <2> QED BY <2>1
<1>2. ASSUME NEW n \in Nat, n \in S PROVE n + 1 \in S
  <2> SUFFICES ASSUME n + 1 <= N PROVE \E g : IsFold(g, V, base, step, n + 1)
    OBVIOUS
  <2>1. PICK g : IsFold(g, V, base, step, n)
    BY <1>2
  <2> DEFINE h == [s \in SUBSET (1 .. n + 1) |->
                     IF n + 1 \in s THEN step[<<g[s \ {n + 1}], n + 1>>] ELSE g[s]]
  <2>2. ASSUME NEW s \in SUBSET (1 .. n + 1) PROVE s \ {n + 1} \in SUBSET (1 .. n)
    OBVIOUS
  <2>3. h \in [SUBSET (1 .. n + 1) -> V]
    <3> SUFFICES ASSUME NEW s \in SUBSET (1 .. n + 1)
                 PROVE (IF n + 1 \in s THEN step[<<g[s \ {n + 1}], n + 1>>] ELSE g[s]) \in V
      OBVIOUS
    <3>1. g[s \ {n + 1}] \in V
      BY <2>1, <2>2 DEF IsFold
    <3>2. n + 1 \notin s => s = s \ {n + 1}
      OBVIOUS
    <3>3. n + 1 \in s => <<g[s \ {n + 1}], n + 1>> \in V \X (1 .. N)
      BY <3>1
    <3> QED BY <3>1, <3>2, <3>3
  <2>4. ASSUME NEW s \in SUBSET (1 .. n + 1)
        PROVE h[s] = IF s = {} THEN base ELSE step[<<h[s \ {Greatest(s)}], Greatest(s)>>]
    <3>1. CASE n + 1 \in s
      <4>1. Greatest(s) \in s /\ \A i \in s : Greatest(s) >= i
        <5>1. n + 1 \in Nat /\ s # {}
          BY <3>1
        <5> HIDE DEF h
        <5> QED BY <5>1, GreatestOf
      <4>2. Greatest(s) \in 1 .. n + 1 /\ Greatest(s) >= n + 1
        BY <3>1, <4>1
      <4>6. Greatest(s) = n + 1
        BY <4>2
      <4>3. s \ {n + 1} \in SUBSET (1 .. n + 1) /\ n + 1 \notin s \ {n + 1}
        OBVIOUS
      <4>4. h[s \ {n + 1}] = g[s \ {n + 1}]
        BY <4>3
      <4>5. h[s] = step[<<g[s \ {n + 1}], n + 1>>]
        BY <3>1
      <4> QED BY <3>1, <4>6, <4>4, <4>5
    <3>2. CASE n + 1 \notin s
      <4>1. s \in SUBSET (1 .. n)
        BY <3>2
      <4>2. h[s] = g[s]
        BY <3>2
      <4>3. s \ {Greatest(s)} \in SUBSET (1 .. n + 1) /\ n + 1 \notin s \ {Greatest(s)}
        BY <3>2
      <4>4. h[s \ {Greatest(s)}] = g[s \ {Greatest(s)}]
        BY <4>3
      <4> QED BY <2>1, <4>1, <4>2, <4>4 DEF IsFold
    <3> QED BY <3>1, <3>2
  <2>5. IsFold(h, V, base, step, n + 1)
    BY <2>3, <2>4 DEF IsFold
  <2> QED BY <2>5
<1>3. Nat \subseteq S
  <2> HIDE DEF S
  <2> QED BY <1>1, <1>2, SetInduction
<1> QED BY <1>3

(* The same for a recursion over the numbers up to N. *)
IsRecursion(r, V, base, step, N) ==
  /\ r \in [0 .. N -> V]
  /\ r[0] = base
  /\ \A i \in 1 .. N : r[i] = step[<<r[i - 1], i>>]

LEMMA RecursionExists ==
  ASSUME NEW V, NEW base \in V, NEW N \in Nat, NEW step \in [V \X (1 .. N) -> V]
  PROVE  \E r : IsRecursion(r, V, base, step, N)
<1>1. PICK g : IsFold(g, V, base, step, N)
  BY FoldExists
<1> DEFINE r == [i \in 0 .. N |-> g[1 .. i]]
<1>2. r \in [0 .. N -> V]
  <2>1. ASSUME NEW i \in 0 .. N PROVE g[1 .. i] \in V
    <3>1. (1 .. i) \in SUBSET (1 .. N)
      OBVIOUS
    <3> QED BY <1>1, <3>1 DEF IsFold
  <2> QED BY <2>1
<1>3. r[0] = base
  <2>1. 1 .. 0 = {} /\ {} \in SUBSET (1 .. N) /\ 0 \in 0 .. N
    OBVIOUS
  <2> QED BY <1>1, <2>1 DEF IsFold
<1>4. ASSUME NEW i \in 1 .. N PROVE r[i] = step[<<r[i - 1], i>>]
  <2>1. Greatest(1 .. i) = i /\ (1 .. i) \ {i} = 1 .. i - 1
    BY GreatestOfInterval
  <2>2. (1 .. i) \in SUBSET (1 .. N) /\ 1 .. i # {}
    <3>1. i \in 1 .. i
      OBVIOUS
    <3> QED BY <3>1
  <2>3. g[1 .. i] = step[<<g[1 .. i - 1], i>>]
    BY <1>1, <2>1, <2>2 DEF IsFold
  <2>4. i \in 0 .. N /\ i - 1 \in 0 .. N
    OBVIOUS
  <2> QED BY <2>3, <2>4
<1> QED BY <1>2, <1>3, <1>4 DEF IsRecursion

-----------------------------------------------------------------------------
(* What is left of a sequence, position by position. *)

KeptUpTo(r, s, gone) ==
  /\ r[0] = << >>
  /\ \A i \in 1 .. Len(s) : r[i] = IF s[i] \in gone THEN r[i - 1] ELSE Append(r[i - 1], s[i])

LEMMA WithoutByPosition ==
  ASSUME NEW V, NEW s \in Seq(V), NEW gone
  PROVE  \E r : KeptUpTo(r, s, gone) /\ Without(s, gone) = r[Len(s)]
<1> DEFINE n == Len(s)
           step == [x \in Seq(V) \X (1 .. n) |->
                      IF s[x[2]] \in gone THEN x[1] ELSE Append(x[1], s[x[2]])]
           Equation(r) ==
             r = [i \in 0 .. n |-> IF i = 0 THEN << >>
                                   ELSE IF s[i] \in gone THEN r[i - 1]
                                        ELSE Append(r[i - 1], s[i])]
           kept == CHOOSE r : Equation(r)
<1>1. n \in Nat /\ << >> \in Seq(V) /\ \A i \in 1 .. n : s[i] \in V
  OBVIOUS
<1>2. step \in [Seq(V) \X (1 .. n) -> Seq(V)]
  <2>1. ASSUME NEW x \in Seq(V) \X (1 .. n)
        PROVE (IF s[x[2]] \in gone THEN x[1] ELSE Append(x[1], s[x[2]])) \in Seq(V)
    <3>1. x[1] \in Seq(V) /\ x[2] \in 1 .. n /\ s[x[2]] \in V
      OBVIOUS
    <3> QED BY <3>1, AppendProperties
  <2> QED BY <2>1
<1>3. \E r : Equation(r)
  <2>1. PICK r : IsRecursion(r, Seq(V), << >>, step, n)
    <3> HIDE DEF step, n
    <3> QED BY <1>1, <1>2, RecursionExists
  <2>2. ASSUME NEW i \in 1 .. n
        PROVE r[i] = IF s[i] \in gone THEN r[i - 1] ELSE Append(r[i - 1], s[i])
    <3>1. i - 1 \in 0 .. n
      BY <1>1
    <3>2. <<r[i - 1], i>> \in Seq(V) \X (1 .. n)
      BY <2>1, <3>1 DEF IsRecursion
    <3> QED BY <2>1, <3>2 DEF IsRecursion
  <2>3. \A i \in 0 .. n : i = 0 \/ i \in 1 .. n
    BY <1>1
  <2>4. Equation(r)
    BY <2>1, <2>2, <2>3 DEF IsRecursion
  <2> QED BY <2>4
<1>4. Equation(kept)
  <2> HIDE DEF Equation
  <2> QED BY <1>3
<1>5. Without(s, gone) = kept[n]
  BY DEF Without
<1> HIDE DEF kept
<1>6. KeptUpTo(kept, s, gone)
  <2>1. \A i \in 1 .. n : i \in 0 .. n /\ i # 0
    BY <1>1
  <2>2. 0 \in 0 .. n
    BY <1>1
  <2> QED BY <1>4, <2>1, <2>2 DEF KeptUpTo
<1> QED BY <1>5, <1>6

-----------------------------------------------------------------------------
(* The elements of a sequence, and whether it names each of them once. *)

LEMMA AppendedSet ==
  ASSUME NEW V, NEW q \in Seq(V), NEW x \in V
  PROVE  /\ Append(q, x) \in Seq(V)
         /\ ToSet(Append(q, x)) = ToSet(q) \union {x}
         /\ IsInjective(q) /\ x \notin ToSet(q) => IsInjective(Append(q, x))
<1> DEFINE m == Len(q)
           a == Append(q, x)
<1>1. /\ a \in Seq(V) /\ Len(a) = m + 1 /\ a[m + 1] = x
      /\ \A i \in 1 .. m : a[i] = q[i]
  BY AppendProperties
<1>2. m \in Nat /\ DOMAIN q = 1 .. m /\ DOMAIN a = 1 .. m + 1
  BY <1>1
<1> HIDE DEF a, m
<1>3. ToSet(a) = ToSet(q) \union {x}
  <2>1. \A i \in 1 .. m + 1 : i \in 1 .. m \/ i = m + 1
    BY <1>2
  <2>2. \A i \in 1 .. m : i \in 1 .. m + 1
    BY <1>2
  <2>3. m + 1 \in 1 .. m + 1
    BY <1>2
  <2> QED BY <1>1, <1>2, <2>1, <2>2, <2>3 DEF ToSet
<1>4. ASSUME IsInjective(q), x \notin ToSet(q) PROVE IsInjective(a)
  <2>1. \A i \in 1 .. m : q[i] # x
    BY <1>2, <1>4 DEF ToSet
  <2>2. ASSUME NEW i \in 1 .. m + 1, NEW j \in 1 .. m + 1, a[i] = a[j] PROVE i = j
    <3>1. CASE i \in 1 .. m /\ j \in 1 .. m
      BY <1>1, <1>2, <1>4, <2>2, <3>1 DEF IsInjective
    <3>2. CASE i \notin 1 .. m \/ j \notin 1 .. m
      <4>1. \A l \in 1 .. m + 1 : l \in 1 .. m \/ l = m + 1
        BY <1>2
      <4> QED BY <1>1, <2>1, <2>2, <3>2, <4>1
    <3> QED BY <3>1, <3>2
  <2> QED BY <1>2, <2>2 DEF IsInjective
<1> QED BY <1>1, <1>3, <1>4 DEF a

(* Without takes the keys of gone out, and neither adds nor repeats one. *)
LEMMA WithoutProperties ==
  ASSUME NEW V, NEW s \in Seq(V), NEW gone
  PROVE  /\ Without(s, gone) \in Seq(V)
         /\ ToSet(Without(s, gone)) = ToSet(s) \ gone
         /\ IsInjective(s) => IsInjective(Without(s, gone))
<1> DEFINE n == Len(s)
           First(i) == {s[j] : j \in 1 .. i}
<1>1. PICK r : KeptUpTo(r, s, gone) /\ Without(s, gone) = r[n]
  BY WithoutByPosition
<1>2. n \in Nat /\ DOMAIN s = 1 .. n
  OBVIOUS
<1> DEFINE Good(i) == /\ r[i] \in Seq(V)
                      /\ ToSet(r[i]) = First(i) \ gone
                      /\ IsInjective(s) => IsInjective(r[i])
           S == {i \in Nat : i <= n => Good(i)}
<1>3. 0 \in S
  <2>1. r[0] = << >>
    BY <1>1 DEF KeptUpTo
  <2>2. 1 .. 0 = {} /\ DOMAIN << >> = {}
    OBVIOUS
  <2>3. First(0) = {}
    BY <2>2
  <2>4. ToSet(<< >>) = {} /\ IsInjective(<< >>) /\ << >> \in Seq(V)
    BY <2>2 DEF ToSet, IsInjective
  <2>5. Good(0)
    <3> HIDE DEF First
    <3> QED BY <2>1, <2>3, <2>4
  <2> QED BY <2>5
<1>4. ASSUME NEW i \in Nat, i \in S PROVE i + 1 \in S
  <2> SUFFICES ASSUME i + 1 <= n PROVE Good(i + 1)
    OBVIOUS
  <2> HIDE DEF n
  <2>1. Good(i) /\ i + 1 \in 1 .. n
    BY <1>2, <1>4
  <2>2. r[i + 1] = IF s[i + 1] \in gone THEN r[i] ELSE Append(r[i], s[i + 1])
    BY <1>1, <2>1 DEF KeptUpTo, n
  <2>3. s[i + 1] \in V
    BY <1>2, <2>1
  <2>4. First(i + 1) = First(i) \union {s[i + 1]}
    <3>1. \A j \in 1 .. i + 1 : j \in 1 .. i \/ j = i + 1
      OBVIOUS
    <3>2. i + 1 \in 1 .. i + 1 /\ \A j \in 1 .. i : j \in 1 .. i + 1
      OBVIOUS
    <3> QED BY <3>1, <3>2
  <2>5. IsInjective(s) => s[i + 1] \notin First(i)
    <3>1. \A j \in 1 .. i : j \in DOMAIN s /\ j # i + 1
      BY <1>2, <2>1
    <3> QED BY <1>2, <2>1, <3>1 DEF IsInjective
  <2> HIDE DEF First
  <2>6. CASE s[i + 1] \in gone
    BY <2>1, <2>2, <2>4, <2>6
  <2>7. CASE s[i + 1] \notin gone
    <3>1. /\ Append(r[i], s[i + 1]) \in Seq(V)
          /\ ToSet(Append(r[i], s[i + 1])) = ToSet(r[i]) \union {s[i + 1]}
          /\ IsInjective(r[i]) /\ s[i + 1] \notin ToSet(r[i])
               => IsInjective(Append(r[i], s[i + 1]))
      BY <2>1, <2>3, AppendedSet
    <3> QED BY <2>1, <2>2, <2>4, <2>5, <2>7, <3>1
  <2> QED BY <2>6, <2>7
<1>5. Nat \subseteq S
  <2> HIDE DEF S
  <2> QED BY <1>3, <1>4, SetInduction
<1>6. Good(n)
  BY <1>2, <1>5
<1>7. First(n) = ToSet(s)
  BY <1>2 DEF ToSet
<1> QED BY <1>1, <1>6, <1>7

LEMMA FrontProperties ==
  ASSUME NEW V, NEW s \in Seq(V), NEW k \in V
  PROVE  /\ <<k>> \o s \in Seq(V)
         /\ ToSet(<<k>> \o s) = ToSet(s) \union {k}
         /\ IsInjective(s) /\ k \notin ToSet(s) => IsInjective(<<k>> \o s)
         /\ Last(<<k>> \o s) \in ToSet(s) \union {k}
<1> DEFINE n == Len(s)
           f == <<k>> \o s
<1>1. /\ f \in Seq(V) /\ Len(f) = n + 1 /\ f[1] = k
      /\ \A i \in 2 .. n + 1 : f[i] = s[i - 1]
  OBVIOUS
<1>2. n \in Nat /\ DOMAIN s = 1 .. n /\ DOMAIN f = 1 .. n + 1
  BY <1>1
<1> HIDE DEF f, n
<1>3. \A i \in 1 .. n + 1 : i = 1 \/ (i \in 2 .. n + 1 /\ i - 1 \in 1 .. n)
  BY <1>2
<1>4. \A i \in 1 .. n : i + 1 \in 2 .. n + 1 /\ i + 1 \in 1 .. n + 1 /\ (i + 1) - 1 = i
  BY <1>2
<1>5. 1 \in 1 .. n + 1 /\ n + 1 \in 1 .. n + 1
  BY <1>2
<1>6. ToSet(f) = ToSet(s) \union {k}
  <2>1. ASSUME NEW x \in ToSet(f) PROVE x \in ToSet(s) \union {k}
    <3>1. PICK i \in 1 .. n + 1 : x = f[i]
      BY <1>2 DEF ToSet
    <3>2. CASE i = 1
      BY <1>1, <3>1, <3>2
    <3>3. CASE i # 1
      <4>1. i - 1 \in DOMAIN s /\ x = s[i - 1]
        BY <1>1, <1>2, <1>3, <3>1, <3>3
      <4> QED BY <4>1 DEF ToSet
    <3> QED BY <3>2, <3>3
  <2>2. ASSUME NEW x \in ToSet(s) PROVE x \in ToSet(f)
    <3>1. PICK i \in 1 .. n : x = s[i]
      BY <1>2 DEF ToSet
    <3>2. f[i + 1] = s[i] /\ i + 1 \in DOMAIN f
      BY <1>1, <1>2, <1>4
    <3> QED BY <3>1, <3>2 DEF ToSet
  <2>3. k \in ToSet(f)
    BY <1>1, <1>2, <1>5 DEF ToSet
  <2> QED BY <2>1, <2>2, <2>3
<1>7. ASSUME IsInjective(s), k \notin ToSet(s) PROVE IsInjective(f)
  <2>1. \A i \in 1 .. n : s[i] # k
    BY <1>2, <1>7 DEF ToSet
  <2>2. ASSUME NEW i \in 1 .. n + 1, NEW j \in 1 .. n + 1, f[i] = f[j] PROVE i = j
    <3>1. CASE i = 1 \/ j = 1
      BY <1>1, <1>3, <2>1, <2>2, <3>1
    <3>2. CASE i # 1 /\ j # 1
      <4>1. i - 1 \in 1 .. n /\ j - 1 \in 1 .. n /\ s[i - 1] = s[j - 1]
        BY <1>1, <1>3, <2>2, <3>2
      <4>2. i - 1 = j - 1
        BY <1>2, <1>7, <4>1 DEF IsInjective
      <4> QED BY <1>2, <4>2
    <3> QED BY <3>1, <3>2
  <2> QED BY <1>2, <2>2 DEF IsInjective
<1>8. Last(f) \in ToSet(f)
  BY <1>1, <1>2, <1>5 DEF Last, ToSet
<1> QED BY <1>1, <1>6, <1>7, <1>8 DEF f

LEMMA ReverseProperties ==
  ASSUME NEW V, NEW s \in Seq(V)
  PROVE  /\ Reverse(s) \in Seq(V)
         /\ ToSet(Reverse(s)) = ToSet(s)
         /\ IsInjective(s) => IsInjective(Reverse(s))
<1> DEFINE n == Len(s)
           r == Reverse(s)
           m(i) == (n - i) + 1
<1>1. n \in Nat /\ DOMAIN s = 1 .. n
  OBVIOUS
<1>2. r = [i \in 1 .. n |-> s[m(i)]]
  BY DEF Reverse
<1>3. \A i \in 1 .. n : m(i) \in 1 .. n /\ m(m(i)) = i
  BY <1>1
<1>4. \A i \in 1 .. n : s[i] \in V
  BY <1>1
<1> HIDE DEF n, r, m
<1>5. r \in Seq(V)
  BY <1>1, <1>2, <1>3, <1>4
<1>6. ToSet(r) = ToSet(s)
  <2>1. ASSUME NEW i \in 1 .. n PROVE r[i] = s[m(i)] /\ s[i] = r[m(i)]
    BY <1>2, <1>3
  <2> QED BY <1>1, <1>2, <1>3, <2>1 DEF ToSet
<1>7. ASSUME IsInjective(s) PROVE IsInjective(r)
  <2>1. ASSUME NEW i \in 1 .. n, NEW j \in 1 .. n, r[i] = r[j] PROVE i = j
    <3>1. m(i) = m(j)
      BY <1>1, <1>2, <1>3, <1>7, <2>1 DEF IsInjective
    <3> QED BY <1>3, <3>1
  <2> QED BY <1>2, <2>1 DEF IsInjective
<1> QED BY <1>5, <1>6, <1>7 DEF r
-----------------------------------------------------------------------------
(* Without, element by element. *)

(* Induction over the sequences that Append makes, for a set of them. *)
LEMMA SequenceInduction ==
  ASSUME NEW V, NEW S, << >> \in S,
         \A q \in Seq(V), x \in V : q \in S => Append(q, x) \in S
  PROVE  Seq(V) \subseteq S
<1> DEFINE L == {n \in Nat : \A q \in Seq(V) : Len(q) = n => q \in S}
<1>1. 0 \in L
  <2>1. \A q \in Seq(V) : Len(q) = 0 => q = << >>
    OBVIOUS
  <2> QED BY <2>1
<1>2. ASSUME NEW n \in Nat, n \in L PROVE n + 1 \in L
  <2> SUFFICES ASSUME NEW q \in Seq(V), Len(q) = n + 1 PROVE q \in S
    OBVIOUS
  <2>1. q # << >>
    BY EmptySeq
  <2>2. PICK p \in Seq(V), x \in V : q = Append(p, x)
    BY <2>1, SequenceEmptyOrAppend
  <2>3. Len(p) = n
    <3>1. Len(p) \in Nat /\ Len(q) = Len(p) + 1
      BY <2>2, AppendProperties, LenProperties
    <3> QED BY <3>1
  <2> QED BY <1>2, <2>2, <2>3
<1>3. Nat \subseteq L
  <2> HIDE DEF L
  <2> QED BY <1>1, <1>2, SetInduction
<1> QED BY <1>3, LenProperties

LEMMA WithoutEmpty == ASSUME NEW gone PROVE Without(<< >>, gone) = << >>
<1>1. << >> \in Seq({}) /\ Len(<< >>) = 0
  OBVIOUS
<1>2. PICK r : KeptUpTo(r, << >>, gone) /\ Without(<< >>, gone) = r[Len(<< >>)]
  BY <1>1, WithoutByPosition
<1> QED BY <1>1, <1>2 DEF KeptUpTo

LEMMA WithoutAppend ==
  ASSUME NEW V, NEW q \in Seq(V), NEW x \in V, NEW gone
  PROVE  Without(Append(q, x), gone) =
           IF x \in gone THEN Without(q, gone) ELSE Append(Without(q, gone), x)
<1> DEFINE n == Len(q)
           a == Append(q, x)
<1>1. /\ a \in Seq(V) /\ Len(a) = n + 1 /\ a[n + 1] = x
      /\ \A i \in 1 .. n : a[i] = q[i]
  BY AppendProperties
<1>2. PICK r : KeptUpTo(r, q, gone) /\ Without(q, gone) = r[n]
  BY WithoutByPosition
<1>3. PICK t : KeptUpTo(t, a, gone) /\ Without(a, gone) = t[n + 1]
  BY <1>1, WithoutByPosition
<1>4. n \in Nat
  OBVIOUS
<1> HIDE DEF a
<1> DEFINE S == {i \in Nat : i <= n => r[i] = t[i]}
<1>5. 0 \in S
  BY <1>2, <1>3 DEF KeptUpTo
<1>6. ASSUME NEW i \in Nat, i \in S PROVE i + 1 \in S
  <2> SUFFICES ASSUME i + 1 <= n PROVE r[i + 1] = t[i + 1]
    OBVIOUS
  <2> HIDE DEF n
  <2>1. i + 1 \in 1 .. n /\ i + 1 \in 1 .. n + 1 /\ (i + 1) - 1 = i /\ r[i] = t[i]
    BY <1>4, <1>6
  <2> QED BY <1>1, <1>2, <1>3, <2>1 DEF KeptUpTo, n
<1>7. Nat \subseteq S
  <2> HIDE DEF S
  <2> QED BY <1>5, <1>6, SetInduction
<1>8. r[n] = t[n]
  BY <1>4, <1>7
<1>9. n + 1 \in 1 .. n + 1 /\ (n + 1) - 1 = n
  BY <1>4
<1>10. t[n + 1] = IF a[n + 1] \in gone THEN t[n] ELSE Append(t[n], a[n + 1])
  <2> HIDE DEF n
  <2> QED BY <1>1, <1>3, <1>9 DEF KeptUpTo
<1> QED BY <1>1, <1>2, <1>3, <1>8, <1>10 DEF a

LEMMA WithoutNothing ==
  ASSUME NEW V, NEW s \in Seq(V), NEW gone, ToSet(s) \intersect gone = {}
  PROVE  Without(s, gone) = s
<1> DEFINE S == {q \in Seq(V) : ToSet(q) \intersect gone = {} => Without(q, gone) = q}
<1>1. << >> \in S
  BY WithoutEmpty
<1>2. ASSUME NEW q \in Seq(V), NEW x \in V, q \in S PROVE Append(q, x) \in S
  <2>1. Append(q, x) \in Seq(V) /\ ToSet(Append(q, x)) = ToSet(q) \union {x}
    BY AppendedSet
  <2>2. Without(Append(q, x), gone) =
          IF x \in gone THEN Without(q, gone) ELSE Append(Without(q, gone), x)
    BY WithoutAppend
  <2> QED BY <1>2, <2>1, <2>2
<1>3. Seq(V) \subseteq S
  <2> HIDE DEF S
  <2> QED BY <1>1, <1>2, SequenceInduction
<1> QED BY <1>3

LEMMA WithoutTwice ==
  ASSUME NEW V, NEW s \in Seq(V), NEW gone, NEW more
  PROVE  Without(Without(s, gone), more) = Without(s, gone \union more)
<1> DEFINE S == {q \in Seq(V) : Without(Without(q, gone), more) = Without(q, gone \union more)}
<1>1. << >> \in S
  BY WithoutEmpty
<1>2. ASSUME NEW q \in Seq(V), NEW x \in V, q \in S PROVE Append(q, x) \in S
  <2>1. Append(q, x) \in Seq(V) /\ Without(q, gone) \in Seq(V)
    BY AppendProperties, WithoutProperties
  <2>2. Without(Append(q, x), gone) =
          IF x \in gone THEN Without(q, gone) ELSE Append(Without(q, gone), x)
    BY WithoutAppend
  <2>3. Without(Append(q, x), gone \union more) =
          IF x \in gone \union more THEN Without(q, gone \union more)
          ELSE Append(Without(q, gone \union more), x)
    BY WithoutAppend
  <2>4. Without(Append(Without(q, gone), x), more) =
          IF x \in more THEN Without(Without(q, gone), more)
          ELSE Append(Without(Without(q, gone), more), x)
    BY <2>1, WithoutAppend
  <2> QED BY <1>2, <2>1, <2>2, <2>3, <2>4
<1>3. Seq(V) \subseteq S
  <2> HIDE DEF S
  <2> QED BY <1>1, <1>2, SequenceInduction
<1> QED BY <1>3

(* Taking out the element at position j closes the gap behind it. *)
LEMMA WithoutOne ==
  ASSUME NEW V, NEW s \in Seq(V), IsInjective(s), NEW j \in 1 .. Len(s)
  PROVE  /\ Len(Without(s, {s[j]})) = Len(s) - 1
         /\ \A i \in 1 .. Len(s) - 1 :
              Without(s, {s[j]})[i] = IF i < j THEN s[i] ELSE s[i + 1]
<1> DEFINE Closes(q, m) ==
             /\ Len(Without(q, {q[m]})) = Len(q) - 1
             /\ \A i \in 1 .. Len(q) - 1 :
                  Without(q, {q[m]})[i] = IF i < m THEN q[i] ELSE q[i + 1]
           S == {q \in Seq(V) : IsInjective(q) => \A m \in 1 .. Len(q) : Closes(q, m)}
<1>1. << >> \in S
  <2>1. << >> \in Seq(V) /\ 1 .. Len(<< >>) = {}
    OBVIOUS
  <2> HIDE DEF Closes
  <2> QED BY <2>1
<1>2. ASSUME NEW q \in Seq(V), NEW x \in V, q \in S PROVE Append(q, x) \in S
  <2> DEFINE a == Append(q, x)
             n == Len(q)
  <2>1. /\ a \in Seq(V) /\ Len(a) = n + 1 /\ a[n + 1] = x
        /\ \A i \in 1 .. n : a[i] = q[i]
    BY AppendProperties
  <2>2. n \in Nat /\ DOMAIN q = 1 .. n /\ DOMAIN a = 1 .. n + 1
    BY <2>1
  <2> HIDE DEF a
  <2> SUFFICES ASSUME IsInjective(a), NEW m \in 1 .. n + 1 PROVE Closes(a, m)
    <3> HIDE DEF Closes
    <3> QED BY <2>1 DEF a
  <2> HIDE DEF n
  <2>3. ASSUME NEW g PROVE Without(a, g) = IF x \in g THEN Without(q, g)
                                           ELSE Append(Without(q, g), x)
    BY WithoutAppend DEF a
  <2>4. \A i \in 1 .. n : i \in 1 .. n + 1 /\ i # n + 1
    BY <2>2
  <2>5. IsInjective(q)
    BY <2>1, <2>2, <2>4 DEF IsInjective
  <2>6. CASE m = n + 1
    <3>1. n + 1 \in 1 .. n + 1
      BY <2>2
    <3>2. x \notin ToSet(q)
      BY <2>1, <2>2, <2>4, <3>1 DEF IsInjective, ToSet
    <3>3. Without(q, {x}) = q
      BY <3>2, WithoutNothing
    <3>4. Without(a, {a[m]}) = q
      BY <2>1, <2>3, <2>6, <3>3
    <3>5. Len(a) - 1 = n /\ \A i \in 1 .. n : i < m
      BY <2>1, <2>2, <2>6
    <3> QED BY <2>1, <3>4, <3>5 DEF n
  <2>7. CASE m # n + 1
    <3>1. m \in 1 .. n /\ n + 1 \in 1 .. n + 1 /\ m \in 1 .. n + 1
      BY <2>2, <2>7
    <3>2. a[m] = q[m] /\ x # q[m]
      BY <2>1, <2>2, <2>7, <3>1 DEF IsInjective
    <3> DEFINE w == Without(q, {q[m]})
    <3>3. w \in Seq(V)
      BY WithoutProperties
    <3>4. Len(w) = n - 1 /\ \A i \in 1 .. n - 1 : w[i] = IF i < m THEN q[i] ELSE q[i + 1]
      BY <1>2, <2>5, <3>1 DEF n
    <3>5. Without(a, {a[m]}) = Append(w, x)
      BY <2>3, <3>2
    <3> HIDE DEF w
    <3>6. /\ Len(Append(w, x)) = Len(w) + 1 /\ Append(w, x)[Len(w) + 1] = x
          /\ \A i \in 1 .. Len(w) : Append(w, x)[i] = w[i]
      BY <3>3, AppendProperties
    <3>7. (n - 1) + 1 = n /\ (n + 1) - 1 = n /\ n >= m /\ n \in 1 .. n
      BY <2>2, <3>1
    <3>8. \A i \in 1 .. n : i = n \/ (i \in 1 .. n - 1 /\ i + 1 \in 1 .. n)
      BY <2>2
    <3>9. Len(Append(w, x)) = n
      BY <3>4, <3>6, <3>7
    <3>10. ASSUME NEW i \in 1 .. n
           PROVE Append(w, x)[i] = IF i < m THEN a[i] ELSE a[i + 1]
      <4>1. CASE i = n
        BY <2>1, <3>1, <3>4, <3>6, <3>7, <4>1
      <4>2. CASE i # n
        <5>1. i \in 1 .. n - 1 /\ i + 1 \in 1 .. n
          BY <3>8, <4>2
        <5>2. Append(w, x)[i] = w[i]
          BY <3>4, <3>6, <5>1
        <5> QED BY <2>1, <3>4, <5>1, <5>2
      <4> QED BY <4>1, <4>2
    <3> QED BY <2>1, <3>5, <3>7, <3>9, <3>10
  <2> QED BY <2>6, <2>7
<1>3. Seq(V) \subseteq S
  <2> HIDE DEF S
  <2> QED BY <1>1, <1>2, SequenceInduction
<1> QED BY <1>3

-----------------------------------------------------------------------------
(* Numbers as str() writes them and int() reads them. *)

DigitBytes == Range(Digits)

(* A digit is written by its symbol, which is no mark of the protocol. *)
LEMMA DigitFacts ==
  /\ \A d \in 0 .. 9 : Digits[d + 1] \in DigitBytes /\ Digit(Digits[d + 1]) = d
  /\ \A b \in DigitBytes : b \notin {"-", "$", "CR"} /\ Digit(b) \in 0 .. 9
<1>1. DOMAIN Digits = 1 .. 10
  BY DEF Digits
<1>2. \A i \in 1 .. 10 : Digits[i] \notin {"-", "$", "CR"}
  BY DEF Digits
<1>3. \A i, j \in 1 .. 10 : Digits[i] = Digits[j] => i = j
  BY DEF Digits
<1>4. \A d \in 0 .. 9 : d + 1 \in 1 .. 10
  OBVIOUS
<1>5. ASSUME NEW d \in 0 .. 9 PROVE Digit(Digits[d + 1]) = d
  <2>1. \A c \in 0 .. 9 : Digits[c + 1] = Digits[d + 1] => c = d
    <3>1. ASSUME NEW c \in 0 .. 9, Digits[c + 1] = Digits[d + 1] PROVE c = d
      <4>1. c + 1 = d + 1
        BY <1>3, <1>4, <3>1
      <4> QED BY <4>1
    <3> QED BY <3>1
  <2> QED BY <2>1 DEF Digit
<1>6. ASSUME NEW b \in DigitBytes PROVE \E d \in 0 .. 9 : b = Digits[d + 1]
  <2>1. PICK i \in 1 .. 10 : b = Digits[i]
    BY <1>1 DEF DigitBytes, Range
  <2>2. i - 1 \in 0 .. 9 /\ (i - 1) + 1 = i
    OBVIOUS
  <2> QED BY <2>1, <2>2
<1>7. \A d \in 0 .. 9 : Digits[d + 1] \in DigitBytes
  BY <1>1, <1>4 DEF DigitBytes, Range
<1>8. ASSUME NEW b \in DigitBytes PROVE b \notin {"-", "$", "CR"} /\ Digit(b) \in 0 .. 9
  <2>1. PICK d \in 0 .. 9 : b = Digits[d + 1]
    BY <1>6
  <2>2. b \notin {"-", "$", "CR"}
    BY <1>2, <1>4, <2>1
  <2>3. Digit(b) = d
    BY <1>5, <2>1
  <2> QED BY <2>2, <2>3
<1> QED BY <1>5, <1>7, <1>8

(* The numbers that int() passes through from digit to digit.              *)
Passes(v, q) ==
  /\ v \in [0 .. Len(q) -> Nat] /\ v[0] = 0
  /\ \A i \in 1 .. Len(q) : v[i] = 10 * v[i - 1] + Digit(q[i])

(* What the fold of IntOf gives for a sequence of digits. *)
LEMMA ReadsDigits ==
  ASSUME NEW q \in Seq(DigitBytes), q # << >>
  PROVE  IsInt(q) /\ \E v : Passes(v, q) /\ IntOf(q) = v[Len(q)]
<1> DEFINE n == Len(q)
           step == [x \in Nat \X (1 .. n) |-> 10 * x[1] + Digit(q[x[2]])]
           Equation(g) ==
             g = [t \in SUBSET DOMAIN q |->
                    IF t = {} THEN 0 ELSE 10 * g[t \ {Max(t)}] + Digit(q[Max(t)])]
           iter == CHOOSE g : Equation(g)
<1>1. n \in Nat /\ DOMAIN q = 1 .. n /\ n # 0 /\ \A i \in 1 .. n : q[i] \in DigitBytes
  BY EmptySeq
<1>2. \A i \in 1 .. n : Digit(q[i]) \in 0 .. 9
  BY <1>1, DigitFacts
<1>3. Head(q) = q[1] /\ 1 \in 1 .. n
  BY <1>1
<1>4. Head(q) # "-" /\ Unsigned(q) = q
  BY <1>1, <1>3, DigitFacts DEF Unsigned
<1>5. IsInt(q)
  <2>1. Range(q) \subseteq DigitBytes
    BY <1>1 DEF Range
  <2> QED BY <1>4, <2>1 DEF IsInt, DigitBytes
<1>6. IntOf(q) = iter[1 .. n]
  BY <1>1, <1>4 DEF IntOf, FoldLeft, MapThenFoldSet
<1>7. \E g : Equation(g) /\ g \in [SUBSET (1 .. n) -> Nat]
  <2>1. step \in [Nat \X (1 .. n) -> Nat]
    <3>1. ASSUME NEW x \in Nat \X (1 .. n) PROVE 10 * x[1] + Digit(q[x[2]]) \in Nat
      <4>1. x[1] \in Nat /\ Digit(q[x[2]]) \in 0 .. 9
        BY <1>2
      <4> QED BY <4>1
    <3> QED BY <3>1
  <2>2. PICK g : IsFold(g, Nat, 0, step, n)
    <3> HIDE DEF step, n
    <3> QED BY <1>1, <2>1, FoldExists
  <2>3. ASSUME NEW t \in SUBSET (1 .. n), t # {}
        PROVE g[t] = 10 * g[t \ {Max(t)}] + Digit(q[Max(t)])
    <3>1. Max(t) = Greatest(t)
      BY DEF Greatest, Max
    <3>2. Greatest(t) \in 1 .. n
      BY <1>1, <2>3, GreatestOf
    <3>3. g[t \ {Greatest(t)}] \in Nat /\ g[t] = step[<<g[t \ {Greatest(t)}], Greatest(t)>>]
      BY <2>2, <2>3 DEF IsFold
    <3>4. <<g[t \ {Greatest(t)}], Greatest(t)>> \in Nat \X (1 .. n)
      BY <3>2, <3>3
    <3> QED BY <3>1, <3>3, <3>4
  <2>4. g \in [SUBSET (1 .. n) -> Nat] /\ g[{}] = 0
    BY <2>2 DEF IsFold
  <2>5. Equation(g)
    BY <1>1, <2>3, <2>4
  <2> QED BY <2>4, <2>5
<1>8. Equation(iter)
  <2> HIDE DEF Equation
  <2> QED BY <1>7
<1> HIDE DEF iter, n
<1> DEFINE v == [i \in 0 .. n |-> iter[1 .. i]]
<1>9. \A i \in 1 .. n : i - 1 \in 0 .. n /\ i \in 0 .. n
  BY <1>1
<1>10. v[0] = 0
  <2>1. 1 .. 0 = {} /\ 0 \in 0 .. n
    BY <1>1
  <2> QED BY <1>8, <2>1
<1>11. ASSUME NEW i \in 1 .. n PROVE v[i] = 10 * v[i - 1] + Digit(q[i])
  <2>1. i \in Nat /\ i # 0
    BY <1>1
  <2>2. Max(1 .. i) = i /\ (1 .. i) \ {i} = 1 .. i - 1
    BY <2>1, GreatestOfInterval DEF Greatest, Max
  <2>3. (1 .. i) \in SUBSET (DOMAIN q) /\ 1 .. i # {}
    <3>1. i \in 1 .. i /\ \A j \in 1 .. i : j \in 1 .. n
      BY <1>1
    <3> QED BY <1>1, <3>1
  <2>4. iter[1 .. i] = 10 * iter[1 .. i - 1] + Digit(q[i])
    BY <1>8, <2>2, <2>3
  <2> QED BY <1>9, <2>4
<1>12. v \in [0 .. n -> Nat]
  <2> DEFINE S == {i \in Nat : i <= n => v[i] \in Nat}
  <2> HIDE DEF v
  <2>1. 0 \in S
    BY <1>10
  <2>2. ASSUME NEW i \in Nat, i \in S PROVE i + 1 \in S
    <3> SUFFICES ASSUME i + 1 <= n PROVE v[i + 1] \in Nat
      OBVIOUS
    <3>1. i + 1 \in 1 .. n /\ (i + 1) - 1 = i /\ v[i] \in Nat
      BY <1>1, <2>2
    <3>2. v[i + 1] = 10 * v[i] + Digit(q[i + 1]) /\ Digit(q[i + 1]) \in 0 .. 9
      BY <1>2, <1>11, <3>1
    <3>3. \A a \in Nat : \A d \in 0 .. 9 : 10 * a + d \in Nat
      OBVIOUS
    <3>4. 10 * v[i] + Digit(q[i + 1]) \in Nat
      BY <3>1, <3>2, <3>3
    <3> QED BY <3>2, <3>4
  <2>3. Nat \subseteq S
    <3> HIDE DEF S
    <3> QED BY <2>1, <2>2, SetInduction
  <2>4. \A i \in 0 .. n : v[i] \in Nat
    BY <2>3
  <2> QED BY <2>4 DEF v
<1>13. n \in 0 .. n /\ v[n] = iter[1 .. n]
  BY <1>1
<1>14. Passes(v, q)
  <2> HIDE DEF v
  <2> QED BY <1>10, <1>11, <1>12 DEF Passes, n
<1> QED BY <1>5, <1>6, <1>13, <1>14 DEF n

(* One digit more. *)
LEMMA IntOfAppend ==
  ASSUME NEW q \in Seq(DigitBytes), q # << >>, NEW d \in 0 .. 9
  PROVE  IntOf(Append(q, Digits[d + 1])) = 10 * IntOf(q) + d
<1> DEFINE b == Digits[d + 1]
           p == Append(q, b)
           n == Len(q)
<1>1. b \in DigitBytes /\ Digit(b) = d
  BY DigitFacts
<1> HIDE DEF b
<1>2. /\ p \in Seq(DigitBytes) /\ p # << >> /\ n \in Nat /\ Len(p) = n + 1
      /\ p[n + 1] = b /\ \A i \in 1 .. n : p[i] = q[i]
  BY <1>1, AppendProperties
<1> HIDE DEF p, n
<1>3. PICK u : Passes(u, p) /\ IntOf(p) = u[n + 1]
  BY <1>2, ReadsDigits
<1>4. PICK v : Passes(v, q) /\ IntOf(q) = v[n]
  BY ReadsDigits DEF n
<1>5. /\ u[0] = 0 /\ \A i \in 1 .. n + 1 : u[i] = 10 * u[i - 1] + Digit(p[i])
      /\ v[0] = 0 /\ \A i \in 1 .. n : v[i] = 10 * v[i - 1] + Digit(q[i])
  BY <1>2, <1>3, <1>4 DEF Passes, n
<1> DEFINE S == {i \in Nat : i <= n => u[i] = v[i]}
<1>6. 0 \in S
  BY <1>5
<1>7. ASSUME NEW i \in Nat, i \in S PROVE i + 1 \in S
  <2> SUFFICES ASSUME i + 1 <= n PROVE u[i + 1] = v[i + 1]
    OBVIOUS
  <2>1. i + 1 \in 1 .. n /\ i + 1 \in 1 .. n + 1 /\ (i + 1) - 1 = i /\ u[i] = v[i]
    BY <1>2, <1>7
  <2> QED BY <1>2, <1>5, <2>1
<1>8. Nat \subseteq S
  <2> HIDE DEF S
  <2> QED BY <1>6, <1>7, SetInduction
<1>9. u[n] = v[n] /\ n + 1 \in 1 .. n + 1 /\ (n + 1) - 1 = n
  BY <1>2, <1>8
<1>10. u[n + 1] = 10 * v[n] + Digit(b)
  BY <1>2, <1>5, <1>9
<1> QED BY <1>1, <1>3, <1>4, <1>10 DEF p, b

(* A numeral of one digit. *)
LEMMA IntOfDigit ==
  ASSUME NEW d \in 0 .. 9
  PROVE  /\ <<Digits[d + 1]>> \in Seq(DigitBytes) /\ <<Digits[d + 1]>> # << >>
         /\ IntOf(<<Digits[d + 1]>>) = d
<1> DEFINE b == Digits[d + 1]
           q == <<b>>
<1>1. b \in DigitBytes /\ Digit(b) = d
  BY DigitFacts
<1> HIDE DEF b
<1>2. q \in Seq(DigitBytes) /\ Len(q) = 1 /\ q[1] = b /\ q # << >>
  BY <1>1
<1> HIDE DEF q
<1>3. PICK v : Passes(v, q) /\ IntOf(q) = v[1]
  BY <1>2, ReadsDigits
<1>4. v[1] = 10 * v[0] + Digit(b) /\ v[0] = 0
  <2>1. 1 \in 1 .. 1 /\ 1 - 1 = 0
    OBVIOUS
  <2> QED BY <1>2, <1>3, <2>1 DEF Passes
<1>5. IntOf(q) = d
  BY <1>1, <1>3, <1>4
<1> QED BY <1>2, <1>5 DEF b, q

(* The decimal numeral of n, and what the recursion of str needs. *)
Numeral(q, n) == q \in Seq(DigitBytes) /\ q # << >> /\ IntOf(q) = n

Writes(g, n) ==
  g = [k \in 0 .. n |-> IF k < 10 THEN <<Digits[k + 1]>>
                        ELSE Append(g[k \div 10], Digits[(k % 10) + 1])]

(* A number and its last digit. *)
LEMMA Division ==
  ASSUME NEW k \in Nat
  PROVE  /\ k \div 10 \in Nat /\ k % 10 \in 0 .. 9 /\ k = 10 * (k \div 10) + (k % 10)
         /\ k >= 10 => k \div 10 < k
OBVIOUS

(* The recursion of Str has a solution. *)
LEMMA WritesExists == ASSUME NEW n \in Nat PROVE \E g : Writes(g, n)
<1> DEFINE S == {m \in Nat : \E g : Writes(g, m)}
<1>1. 0 \in S
  <2> DEFINE g == [k \in 0 .. 0 |-> <<Digits[k + 1]>>]
  <2>1. \A k \in 0 .. 0 : k < 10
    OBVIOUS
  <2>2. Writes(g, 0)
    BY <2>1 DEF Writes
  <2> QED BY <2>2
<1>2. ASSUME NEW m \in Nat, m \in S PROVE m + 1 \in S
  <2>1. PICK g : Writes(g, m)
    BY <1>2
  <2> DEFINE new == IF m + 1 < 10 THEN <<Digits[m + 2]>>
                    ELSE Append(g[(m + 1) \div 10], Digits[((m + 1) % 10) + 1])
             h == [k \in 0 .. m + 1 |-> IF k = m + 1 THEN new ELSE g[k]]
  <2>2. \A k \in 0 .. m + 1 : k = m + 1 \/ k \in 0 .. m
    OBVIOUS
  <2>3. \A k \in 0 .. m : h[k] = g[k]
    OBVIOUS
  <2>4. ASSUME NEW k \in 0 .. m + 1, k >= 10
        PROVE k \div 10 \in 0 .. m
    <3>1. k \in Nat
      OBVIOUS
    <3>2. k \div 10 \in Nat /\ k \div 10 < k
      BY <2>4, <3>1, Division
    <3> QED BY <3>2
  <2>5. ASSUME NEW k \in 0 .. m + 1
        PROVE h[k] = IF k < 10 THEN <<Digits[k + 1]>>
                     ELSE Append(h[k \div 10], Digits[(k % 10) + 1])
    <3>1. k >= 10 => h[k \div 10] = g[k \div 10]
      BY <2>3, <2>4
    <3>2. CASE k = m + 1
      <4>1. h[k] = new /\ k + 1 = m + 2
        BY <3>2
      <4>2. CASE k < 10
        BY <3>2, <4>1, <4>2
      <4>3. CASE k >= 10
        <5> HIDE DEF h
        <5> QED BY <3>1, <3>2, <4>1, <4>3
      <4> QED BY <4>2, <4>3
    <3>3. CASE k \in 0 .. m
      <4>1. h[k] = g[k]
        BY <2>3, <3>3
      <4>2. g[k] = IF k < 10 THEN <<Digits[k + 1]>>
                   ELSE Append(g[k \div 10], Digits[(k % 10) + 1])
        BY <2>1, <3>3 DEF Writes
      <4> HIDE DEF h
      <4>3. CASE k < 10
        BY <4>1, <4>2, <4>3
      <4>4. CASE k >= 10
        BY <3>1, <4>1, <4>2, <4>4
      <4> QED BY <4>3, <4>4
    <3> QED BY <2>2, <3>2, <3>3
  <2>6. Writes(h, m + 1)
    <3>1. h = [k \in 0 .. m + 1 |-> h[k]]
      OBVIOUS
    <3> HIDE DEF h
    <3> QED BY <2>5, <3>1 DEF Writes
  <2> QED BY <2>6
<1>3. Nat \subseteq S
  <2> HIDE DEF S
  <2> QED BY <1>1, <1>2, SetInduction
<1> QED BY <1>3

(* What str() writes, int() reads as the same number. *)
LEMMA StrIsNumeral == ASSUME NEW n \in Nat PROVE Numeral(Str(n), n)
<1> DEFINE str == CHOOSE g : Writes(g, n)
<1>1. Writes(str, n)
  BY WritesExists
<1>2. Str(n) = str[n]
  BY DEF Str, Writes
<1> HIDE DEF str
<1>3. \A k \in 0 .. n : str[k] = IF k < 10 THEN <<Digits[k + 1]>>
                                 ELSE Append(str[k \div 10], Digits[(k % 10) + 1])
  BY <1>1 DEF Writes
<1> DEFINE S == {m \in Nat : \A k \in 0 .. m : k <= n => Numeral(str[k], k)}
<1>4. ASSUME NEW k \in Nat, k <= n, \A j \in Nat : j < k => Numeral(str[j], j)
      PROVE Numeral(str[k], k)
  <2>1. k \in 0 .. n
    BY <1>4
  <2>2. CASE k < 10
    <3>1. k \in 0 .. 9
      BY <2>2
    <3>2. str[k] = <<Digits[k + 1]>>
      BY <1>3, <2>1, <2>2, Zenon
    <3> QED BY <3>1, <3>2, IntOfDigit, Zenon DEF Numeral
  <2>3. CASE k >= 10
    <3> DEFINE q == k \div 10
               d == k % 10
    <3>1. q \in Nat /\ d \in 0 .. 9 /\ k = 10 * q + d /\ q < k
      BY <2>3, Division
    <3>2. str[k] = Append(str[q], Digits[d + 1])
      <4>1. ~ (k < 10)
        BY <2>3
      <4> QED BY <1>3, <2>1, <4>1, Zenon
    <3> HIDE DEF q, d
    <3>3. str[q] \in Seq(DigitBytes) /\ str[q] # << >> /\ IntOf(str[q]) = q
      BY <1>4, <3>1 DEF Numeral
    <3>4. Digits[d + 1] \in DigitBytes
      BY <3>1, DigitFacts
    <3>5. IntOf(Append(str[q], Digits[d + 1])) = 10 * q + d
      BY <3>1, <3>3, IntOfAppend
    <3>6. Append(str[q], Digits[d + 1]) \in Seq(DigitBytes)
          /\ Append(str[q], Digits[d + 1]) # << >>
      BY <3>3, <3>4, AppendProperties
    <3> QED BY <3>1, <3>2, <3>5, <3>6 DEF Numeral
  <2> QED BY <2>2, <2>3
<1>5. 0 \in S
  <2>1. \A k \in 0 .. 0 : k \in Nat /\ \A j \in Nat : ~ (j < k)
    OBVIOUS
  <2> QED BY <1>4, <2>1
<1>6. ASSUME NEW m \in Nat, m \in S PROVE m + 1 \in S
  <2>1. \A k \in 0 .. m + 1 : k \in 0 .. m \/ (k = m + 1 /\ k \in Nat)
    OBVIOUS
  <2>2. \A j \in Nat : j < m + 1 => j \in 0 .. m /\ j <= m
    OBVIOUS
  <2>3. ASSUME m + 1 <= n PROVE Numeral(str[m + 1], m + 1)
    <3>1. ASSUME NEW j \in Nat, j < m + 1 PROVE Numeral(str[j], j)
      <4>1. j \in 0 .. m /\ j <= n
        BY <2>3, <3>1
      <4> QED BY <1>6, <4>1
    <3> QED BY <1>4, <2>3, <3>1
  <2> QED BY <1>6, <2>1, <2>3
<1>7. Nat \subseteq S
  <2> HIDE DEF S
  <2> QED BY <1>5, <1>6, SetInduction
<1>8. n \in S /\ n \in 0 .. n
  BY <1>7
<1> QED BY <1>2, <1>8

-----------------------------------------------------------------------------
(* The parser on what encode_command writes, as far as it has arrived. *)

Marks == DigitBytes \union {"*", "$", "CR", "LF"}

(* Where both s and e have a byte, it is the same. *)
Agrees(s, e) == \A j \in 1 .. Len(s) : j <= Len(e) => s[j] = e[j]

(* What stands where in two sequences behind each other. *)
Joins(z, p, q) ==
  /\ Len(z) = Len(p) + Len(q)
  /\ \A i \in 1 .. Len(p) : z[i] = p[i]
  /\ \A i \in 1 .. Len(q) : z[Len(p) + i] = q[i]

(* A concatenation holds the one sequence and then the other. *)
LEMMA ConcatJoins ==
  ASSUME NEW V, NEW p \in Seq(V), NEW q \in Seq(V)
  PROVE  p \o q \in Seq(V) /\ Joins(p \o q, p, q)
<1>1. /\ p \o q \in Seq(V) /\ Len(p \o q) = Len(p) + Len(q)
      /\ \A i \in 1 .. Len(p) + Len(q) :
           (p \o q)[i] = IF i <= Len(p) THEN p[i] ELSE q[i - Len(p)]
  BY ConcatProperties
<1>2. Len(p) \in Nat /\ Len(q) \in Nat
  OBVIOUS
<1>3. \A i \in 1 .. Len(p) : i \in 1 .. Len(p) + Len(q) /\ i <= Len(p)
  BY <1>2
<1>4. \A i \in 1 .. Len(q) : /\ Len(p) + i \in 1 .. Len(p) + Len(q)
                             /\ ~ (Len(p) + i <= Len(p)) /\ (Len(p) + i) - Len(p) = i
  BY <1>2
<1> QED BY <1>1, <1>3, <1>4 DEF Joins

(* A symbol c, a numeral and the end of its line. *)
Header(c, n) == <<c>> \o Str(n) \o CRLF

(* What stands where in h, for the numeral q of n. *)
IsHeader(h, c, q, n) ==
  /\ q \in Seq(DigitBytes) /\ IsInt(q) /\ IntOf(q) = n
  /\ h \in Seq(Marks) /\ Len(h) = Len(q) + 3
  /\ h[1] = c /\ \A i \in 1 .. Len(q) : h[i + 1] = q[i]
  /\ h[Len(q) + 2] = "CR" /\ h[Len(q) + 3] = "LF"

(* A header as it is encoded. *)
LEMMA HeaderBytes ==
  ASSUME NEW c \in Marks, NEW n \in Nat
  PROVE  IsHeader(Header(c, n), c, Str(n), n)
<1> DEFINE q == Str(n)
           x == <<c>> \o q
<1>1. q \in Seq(DigitBytes) /\ q # << >> /\ IntOf(q) = n
  BY StrIsNumeral DEF Numeral
<1>2. IsInt(q)
  BY <1>1, ReadsDigits
<1> HIDE DEF q
<1>3. q \in Seq(Marks) /\ Len(q) \in Nat
  BY <1>1, SeqMonotonic DEF Marks
<1>4. <<c>> \in Seq(Marks) /\ Len(<<c>>) = 1 /\ <<c>>[1] = c
  OBVIOUS
<1>5. /\ x \in Seq(Marks) /\ Len(x) = Len(q) + 1
      /\ x[1] = c /\ \A i \in 1 .. Len(q) : x[i + 1] = q[i]
  <2> DEFINE y == <<c>>
  <2>1. y \in Seq(Marks) /\ Len(y) = 1 /\ y[1] = c
    BY <1>4
  <2> HIDE DEF y
  <2>2. y \o q \in Seq(Marks) /\ Joins(y \o q, y, q)
    BY <1>3, <2>1, ConcatJoins
  <2>3. 1 \in 1 .. Len(y) /\ \A i \in 1 .. Len(q) : Len(y) + i = i + 1
    BY <2>1
  <2>4. x \in Seq(Marks) /\ Joins(x, y, q)
    BY <2>2 DEF y
  <2> HIDE DEF x
  <2> QED BY <1>3, <2>1, <2>3, <2>4 DEF Joins
<1> HIDE DEF x
<1>6. CRLF \in Seq(Marks) /\ Len(CRLF) = 2 /\ CRLF[1] = "CR" /\ CRLF[2] = "LF"
  BY DEF CRLF, Marks
<1> DEFINE z == x \o CRLF
<1>7. z \in Seq(Marks) /\ Joins(z, x, CRLF)
  BY <1>5, <1>6, ConcatJoins
<1> HIDE DEF z
<1>8. /\ Len(z) = Len(q) + 3
      /\ z[1] = c /\ \A i \in 1 .. Len(q) : z[i + 1] = q[i]
      /\ z[Len(q) + 2] = "CR" /\ z[Len(q) + 3] = "LF"
  <2>1. Len(z) = Len(q) + 3 /\ Len(x) + 1 = Len(q) + 2 /\ Len(x) + 2 = Len(q) + 3
    BY <1>3, <1>5, <1>6, <1>7 DEF Joins
  <2>2. 1 \in 1 .. Len(x) /\ \A i \in 1 .. Len(q) : i + 1 \in 1 .. Len(x)
    BY <1>3, <1>5
  <2>3. 1 \in 1 .. Len(CRLF) /\ 2 \in 1 .. Len(CRLF)
    BY <1>6
  <2>4. z[1] = c /\ \A i \in 1 .. Len(q) : z[i + 1] = q[i]
    BY <1>5, <1>7, <2>2 DEF Joins
  <2>5. z[Len(q) + 2] = "CR"
    BY <1>6, <1>7, <2>1, <2>3 DEF Joins
  <2>6. z[Len(q) + 3] = "LF"
    BY <1>6, <1>7, <2>1, <2>3 DEF Joins
  <2> QED BY <2>1, <2>4, <2>5, <2>6
<1>9. Header(c, n) = z
  BY DEF Header, x, z, q
<1>10. IsHeader(z, c, q, n)
  BY <1>1, <1>2, <1>7, <1>8 DEF IsHeader
<1> QED BY <1>9, <1>10 DEF q

(* The part of a sequence that equals another, place by place. *)
LEMMA SubSeqIs ==
  ASSUME NEW B, NEW s \in Seq(B), NEW a \in Seq(B), NEW k \in Nat, k + Len(a) <= Len(s),
         \A i \in 1 .. Len(a) : s[k + i] = a[i]
  PROVE  SubSeq(s, k + 1, k + Len(a)) = a
<1> DEFINE p == SubSeq(s, k + 1, k + Len(a))
           m == Len(a)
<1>1. m \in Nat /\ Len(s) \in Nat
  OBVIOUS
<1> HIDE DEF m
<1>2. \A i \in k + 1 .. k + m : s[i] \in B
  <2>1. \A i \in k + 1 .. k + m : i \in 1 .. Len(s)
    BY <1>1 DEF m
  <2> QED BY <2>1
<1>3. k + 1 \in Int /\ k + m \in Int
  BY <1>1
<1>4. /\ p \in Seq(B) /\ Len(p) = IF k + 1 <= k + m THEN (k + m) - (k + 1) + 1 ELSE 0
      /\ \A i \in 1 .. (k + m) - (k + 1) + 1 : p[i] = s[(k + 1) + i - 1]
  BY <1>2, <1>3, SubSeqProperties DEF m
<1> HIDE DEF p
<1>5. Len(p) = m
  BY <1>1, <1>4
<1>6. ASSUME NEW i \in 1 .. Len(p) PROVE p[i] = a[i]
  <2>1. i \in 1 .. m /\ i \in 1 .. (k + m) - (k + 1) + 1 /\ (k + 1) + i - 1 = k + i
    BY <1>1, <1>5
  <2> QED BY <1>4, <2>1 DEF m
<1>7. p = a
  BY <1>4, <1>5, <1>6, SeqEqual DEF m
<1> QED BY <1>7 DEF p

(* The end of a header is found when it is there, and the numeral before it. *)
LEMMA FindsHeader ==
  ASSUME NEW B, NEW s \in Seq(B), NEW at \in Nat \ {0}, NEW c \in Marks, c # "CR", NEW n \in Nat,
         \A i \in 1 .. Len(Header(c, n)) :
           (at - 1) + i <= Len(s) => s[(at - 1) + i] = Header(c, n)[i]
  PROVE  LET end == at + Len(Str(n)) + 1 IN
         IF Len(s) >= (at - 1) + Len(Header(c, n))
         THEN /\ LineEnds(s, at) # {} /\ Min(LineEnds(s, at)) = end
              /\ SubSeq(s, at + 1, end - 1) = Str(n)
         ELSE LineEnds(s, at) = {}
<1> DEFINE q == Str(n)
           h == Header(c, n)
           m == Len(q)
           end == at + m + 1
<1>1. /\ q \in Seq(DigitBytes) /\ Len(h) = m + 3 /\ m \in Nat
      /\ h[1] = c /\ \A i \in 1 .. m : h[i + 1] = q[i]
      /\ h[m + 2] = "CR" /\ h[m + 3] = "LF"
  <2>1. IsHeader(h, c, q, n)
    BY HeaderBytes
  <2> HIDE DEF q, h
  <2>2. q \in Seq(DigitBytes) /\ Len(h) = Len(q) + 3
    BY <2>1 DEF IsHeader
  <2>3. h[1] = c /\ \A i \in 1 .. Len(q) : h[i + 1] = q[i]
    BY <2>1 DEF IsHeader
  <2>4. h[Len(q) + 2] = "CR" /\ h[Len(q) + 3] = "LF"
    BY <2>1 DEF IsHeader
  <2>5. Len(q) \in Nat
    BY <2>2, LenProperties
  <2> QED BY <2>2, <2>3, <2>4, <2>5
<1>2. \A i \in 1 .. m + 3 : (at - 1) + i <= Len(s) => s[(at - 1) + i] = h[i]
  BY <1>1
<1>3. \A i \in 1 .. m : q[i] # "CR"
  BY <1>1, DigitFacts
<1> HIDE DEF q, h, m
<1>4. Len(s) \in Nat
  OBVIOUS
<1>5. ASSUME NEW j \in at .. at + m, j <= Len(s) PROVE s[j] # "CR"
  <2> DEFINE i == j - (at - 1)
  <2>1. i \in 1 .. m + 1 /\ i \in 1 .. m + 3 /\ (at - 1) + i = j
    BY <1>1
  <2> HIDE DEF i
  <2>2. s[j] = h[i]
    BY <1>2, <1>5, <2>1
  <2>3. CASE i = 1
    BY <1>1, <2>2, <2>3
  <2>4. CASE i # 1
    <3>1. i - 1 \in 1 .. m /\ (i - 1) + 1 = i
      BY <1>1, <2>1, <2>4
    <3>2. h[(i - 1) + 1] = q[i - 1]
      BY <1>1, <3>1
    <3>3. q[i - 1] # "CR"
      BY <1>3, <3>1
    <3> QED BY <2>2, <3>1, <3>2, <3>3
  <2> QED BY <2>3, <2>4
<1>6. ASSUME NEW j \in LineEnds(s, at) PROVE j \in Nat /\ j >= end /\ j + 1 <= Len(s)
  <2>1. j \in at .. Len(s) - 1 /\ s[j] = "CR"
    BY DEF LineEnds
  <2>2. ~ (j \in at .. at + m)
    BY <1>4, <1>5, <2>1
  <2> QED BY <1>1, <1>4, <2>1, <2>2
<1>7. CASE Len(s) >= (at - 1) + Len(h)
  <2>1. Len(s) >= end + 1 /\ end \in at .. Len(s) - 1
    <3>1. Len(h) = m + 3 /\ m \in Nat
      BY <1>1
    <3> QED BY <1>4, <1>7, <3>1
  <2>2. s[end] = "CR" /\ s[end + 1] = "LF"
    <3>1. /\ m + 2 \in 1 .. m + 3 /\ (at - 1) + (m + 2) = end
          /\ m + 3 \in 1 .. m + 3 /\ (at - 1) + (m + 3) = end + 1
          /\ end <= Len(s) /\ end + 1 <= Len(s)
      BY <1>1, <1>4, <2>1
    <3> HIDE DEF end
    <3> QED BY <1>1, <1>2, <3>1
  <2>3. end \in LineEnds(s, at) /\ \A j \in LineEnds(s, at) : end <= j
    BY <1>6, <2>1, <2>2 DEF LineEnds
  <2>4. Min(LineEnds(s, at)) = end
    <3>1. \A j \in LineEnds(s, at) : j \in Nat /\ end \in Nat
      BY <1>6, <2>3
    <3> HIDE DEF end
    <3>2. \A x \in LineEnds(s, at) : (\A y \in LineEnds(s, at) : x <= y) => x = end
      BY <2>3, <3>1
    <3> QED BY <2>3, <3>2 DEF Min
  <2>5. SubSeq(s, at + 1, end - 1) = q
    <3>1. ASSUME NEW i \in 1 .. m PROVE s[at + i] = q[i]
      <4>1. i + 1 \in 1 .. m + 3 /\ (at - 1) + (i + 1) <= Len(s) /\ (at - 1) + (i + 1) = at + i
        BY <1>1, <1>4, <2>1
      <4>2. s[(at - 1) + (i + 1)] = h[i + 1]
        BY <1>2, <4>1
      <4> QED BY <1>1, <4>1, <4>2
    <3>2. at + m <= Len(s) /\ end - 1 = at + m
      BY <1>1, <1>4, <2>1
    <3> DEFINE V == B \union DigitBytes
    <3>3. s \in Seq(V) /\ q \in Seq(V)
      BY <1>1, SeqMonotonic
    <3>4. SubSeq(s, at + 1, at + m) = q
      <4> HIDE DEF V, end
      <4> QED BY <3>1, <3>2, <3>3, SubSeqIs DEF m
    <3> QED BY <3>2, <3>4
  <2> QED BY <1>7, <2>3, <2>4, <2>5 DEF q, h, m
<1>8. CASE ~ (Len(s) >= (at - 1) + Len(h))
  <2>1. \A j \in LineEnds(s, at) : FALSE
    BY <1>1, <1>4, <1>6, <1>8
  <2> QED BY <1>8, <2>1 DEF q, h, m
<1> QED BY <1>7, <1>8

(* An encoded argument is a header, the value and a line end. *)
LEMMA ArgBytes ==
  ASSUME NEW B, Marks \subseteq B, NEW a \in Seq(B)
  PROVE  /\ EncodeArg(a) \in Seq(B)
         /\ Len(Header("$", Len(a))) \in Nat \ {0}
         /\ Len(EncodeArg(a)) = Len(Header("$", Len(a))) + Len(a) + 2
         /\ \A i \in 1 .. Len(Header("$", Len(a))) : EncodeArg(a)[i] = Header("$", Len(a))[i]
         /\ \A i \in 1 .. Len(a) : EncodeArg(a)[Len(Header("$", Len(a))) + i] = a[i]
<1> DEFINE h == Header("$", Len(a))
           x == h \o a
<1>1. "$" \in Marks /\ Len(a) \in Nat
  BY DEF Marks
<1>2. h \in Seq(Marks) /\ Len(h) = Len(Str(Len(a))) + 3 /\ Str(Len(a)) \in Seq(DigitBytes)
  <2>1. IsHeader(h, "$", Str(Len(a)), Len(a))
    BY <1>1, HeaderBytes
  <2> HIDE DEF h
  <2> QED BY <2>1 DEF IsHeader
<1>3. Len(h) \in Nat \ {0}
  <2> HIDE DEF h
  <2>1. Len(Str(Len(a))) \in Nat
    BY <1>2, LenProperties
  <2> QED BY <1>2, <2>1
<1>4. EncodeArg(a) = x \o CRLF
  BY DEF EncodeArg, Header
<1> HIDE DEF h
<1>5. h \in Seq(B)
  BY <1>2, SeqMonotonic
<1>6. x \in Seq(B) /\ Joins(x, h, a)
  BY <1>5, ConcatJoins
<1> HIDE DEF x
<1>7. CRLF \in Seq(B) /\ Len(CRLF) = 2
  <2>1. "CR" \in B /\ "LF" \in B
    BY DEF Marks
  <2> QED BY <2>1 DEF CRLF
<1>8. EncodeArg(a) \in Seq(B) /\ Joins(EncodeArg(a), x, CRLF)
  BY <1>4, <1>6, <1>7, ConcatJoins
<1>9. /\ \A i \in 1 .. Len(h) : i \in 1 .. Len(x)
      /\ \A i \in 1 .. Len(a) : Len(h) + i \in 1 .. Len(x)
  BY <1>1, <1>3, <1>6 DEF Joins
<1>10. \A i \in 1 .. Len(h) : EncodeArg(a)[i] = h[i]
  BY <1>6, <1>8, <1>9 DEF Joins
<1>11. \A i \in 1 .. Len(a) : EncodeArg(a)[Len(h) + i] = a[i]
  BY <1>6, <1>8, <1>9 DEF Joins
<1>12. Len(EncodeArg(a)) = Len(h) + Len(a) + 2
  BY <1>1, <1>3, <1>6, <1>7, <1>8 DEF Joins
<1> QED BY <1>3, <1>8, <1>10, <1>11, <1>12 DEF h

(* One argument, behind what was parsed before it: it is waited for until  *)
(* it is there, and then taken.                                            *)
LEMMA ReadsArg ==
  ASSUME NEW B, Marks \subseteq B, NEW s \in Seq(B), NEW e \in Seq(B), NEW a \in Seq(B),
         NEW args, Agrees(s, e \o EncodeArg(a))
  PROVE  ParseBulk(s, Parsed(args, Len(e)))
           = IF Len(s) >= Len(e \o EncodeArg(a))
             THEN Parsed(Append(args, a), Len(e \o EncodeArg(a)))
             ELSE Wait
<1> DEFINE k == Len(e)
           at == k + 1
           h == Header("$", Len(a))
           n == Len(h)
           m == Len(a)
           lidx == at + Len(Str(Len(a))) + 1
           p == Parsed(args, k)
<1>1. k \in Nat /\ m \in Nat /\ Len(s) \in Nat
  OBVIOUS
<1>2. /\ EncodeArg(a) \in Seq(B) /\ n \in Nat \ {0} /\ Len(EncodeArg(a)) = n + m + 2
      /\ \A i \in 1 .. n : EncodeArg(a)[i] = h[i]
      /\ \A i \in 1 .. m : EncodeArg(a)[n + i] = a[i]
  BY ArgBytes
<1>3. /\ Len(e \o EncodeArg(a)) = k + n + m + 2
      /\ \A i \in 1 .. n + m + 2 : (e \o EncodeArg(a))[k + i] = EncodeArg(a)[i]
  <2>1. Joins(e \o EncodeArg(a), e, EncodeArg(a))
    BY <1>2, ConcatJoins
  <2> HIDE DEF n, m
  <2> QED BY <1>1, <1>2, <2>1 DEF Joins
<1>4. "$" \in Marks /\ "$" # "CR"
  BY DEF Marks
<1>5. h[1] = "$" /\ n = Len(Str(Len(a))) + 3 /\ IsInt(Str(Len(a))) /\ IntOf(Str(Len(a))) = m
  <2>1. IsHeader(h, "$", Str(Len(a)), m)
    BY <1>1, <1>4, HeaderBytes
  <2> HIDE DEF h, m
  <2> QED BY <2>1 DEF IsHeader
<1>6. lidx = k + n - 1
  <2> HIDE DEF n
  <2>1. Len(Str(Len(a))) \in Nat
    BY <1>1, StrIsNumeral, LenProperties DEF Numeral
  <2> QED BY <1>1, <1>5, <2>1
<1> HIDE DEF n, h
<1>7. \A i \in 1 .. n + m + 2 : k + i <= Len(s) => s[k + i] = EncodeArg(a)[i]
  <2>1. ASSUME NEW i \in 1 .. n + m + 2, k + i <= Len(s) PROVE s[k + i] = EncodeArg(a)[i]
    <3>1. k + i \in 1 .. Len(s) /\ k + i <= Len(e \o EncodeArg(a))
      BY <1>1, <1>2, <1>3, <2>1
    <3> QED BY <1>3, <3>1 DEF Agrees
  <2> QED BY <2>1
<1>8. \A i \in 1 .. n : (at - 1) + i <= Len(s) => s[(at - 1) + i] = h[i]
  <2>1. at - 1 = k /\ \A i \in 1 .. n : i \in 1 .. n + m + 2
    BY <1>1, <1>2
  <2> QED BY <1>2, <1>7, <2>1
<1>9. IF Len(s) >= (at - 1) + n
      THEN /\ LineEnds(s, at) # {} /\ Min(LineEnds(s, at)) = lidx
           /\ SubSeq(s, at + 1, lidx - 1) = Str(Len(a))
      ELSE LineEnds(s, at) = {}
  <2>1. at \in Nat \ {0}
    BY <1>1
  <2> HIDE DEF at, m
  <2> QED BY <1>1, <1>4, <1>8, <2>1, FindsHeader DEF n, h, m
<1>10. p.used = k /\ p.args = args
  BY DEF Parsed
<1>11. CASE Len(s) <= k
  <2>1. at > Len(s) /\ ~ (Len(s) >= k + n + m + 2)
    BY <1>1, <1>2, <1>11
  <2>2. ParseBulk(s, p) = Wait
    <3> HIDE DEF p
    <3> QED BY <1>10, <2>1 DEF ParseBulk
  <2> QED BY <1>3, <2>1, <2>2
<1>12. CASE Len(s) > k /\ Len(s) < k + n
  <2>1. ~ (at > Len(s)) /\ ~ (Len(s) >= k + n + m + 2) /\ ~ (Len(s) >= (at - 1) + n)
    BY <1>1, <1>2, <1>12
  <2>2. LineEnds(s, at) = {}
    BY <1>9, <2>1
  <2>3. s[at] = "$"
    <3>1. 1 \in 1 .. n /\ (at - 1) + 1 = at /\ at <= Len(s)
      BY <1>1, <1>2, <1>12
    <3> QED BY <1>5, <1>8, <3>1
  <2>4. ParseBulk(s, p) = Wait
    <3> HIDE DEF p
    <3> QED BY <1>10, <2>1, <2>2, <2>3 DEF ParseBulk
  <2> QED BY <1>3, <2>1, <2>4
<1>13. CASE Len(s) >= k + n
  <2>1. ~ (at > Len(s)) /\ Len(s) >= (at - 1) + n
    BY <1>1, <1>2, <1>13
  <2>2. /\ LineEnds(s, at) # {} /\ Min(LineEnds(s, at)) = lidx
        /\ SubSeq(s, at + 1, lidx - 1) = Str(Len(a))
    BY <1>9, <2>1
  <2>3. s[at] = "$"
    <3>1. 1 \in 1 .. n /\ (at - 1) + 1 = at /\ at <= Len(s)
      BY <1>1, <1>2, <1>13
    <3> QED BY <1>5, <1>8, <3>1
  <2> DEFINE end == lidx + 1 + m
  <2>4. end = (k + n) + m /\ lidx + 2 = (k + n) + 1
    <3> HIDE DEF lidx
    <3> QED BY <1>1, <1>2, <1>6
  <2>5. ParseBulk(s, p) = IF ~ Arrived(s, end) THEN Wait
                          ELSE Parsed(Append(args, SubSeq(s, lidx + 2, end)), end + 2)
    <3> HIDE DEF p, lidx, at, m
    <3> QED BY <1>5, <1>10, <2>1, <2>2, <2>3 DEF ParseBulk, at
  <2>6. Arrived(s, end) <=> Len(s) >= k + n + m + 2
    BY <1>1, <1>2, <2>4 DEF Arrived
  <2>7. CASE Len(s) >= k + n + m + 2
    <3>1. SubSeq(s, (k + n) + 1, (k + n) + m) = a
      <4>1. ASSUME NEW i \in 1 .. m PROVE s[(k + n) + i] = a[i]
        <5>1. n + i \in 1 .. n + m + 2 /\ k + (n + i) <= Len(s) /\ k + (n + i) = (k + n) + i
          BY <1>1, <1>2, <2>7
        <5> QED BY <1>2, <1>7, <5>1
      <4>2. k + n \in Nat /\ (k + n) + m <= Len(s)
        BY <1>1, <1>2, <2>7
      <4> QED BY <4>1, <4>2, SubSeqIs
    <3>2. end + 2 = k + n + m + 2
      BY <1>1, <1>2, <2>4
    <3> HIDE DEF end, lidx, p, k, m
    <3> QED BY <1>3, <2>4, <2>5, <2>6, <2>7, <3>1, <3>2 DEF p, k
  <2>8. CASE ~ (Len(s) >= k + n + m + 2)
    <3> HIDE DEF end, lidx, p, k, m
    <3> QED BY <1>3, <2>5, <2>6, <2>8 DEF p, k
  <2> QED BY <2>7, <2>8
<1> QED BY <1>1, <1>2, <1>11, <1>12, <1>13

Regroup(p, q, r) == (p \o q) \o r = p \o (q \o r)

(* Concatenation is associative. *)
LEMMA Regroups ==
  ASSUME NEW V, NEW p \in Seq(V), NEW q \in Seq(V), NEW r \in Seq(V)
  PROVE  Regroup(p, q, r)
BY ConcatAssociative DEF Regroup

(* A concatenation of sequences grows by one of them after the other. *)
LEMMA FlattenGrows ==
  ASSUME NEW V, NEW parts \in Seq(Seq(V))
  PROVE  \E f \in [0 .. Len(parts) -> Seq(V)] :
           /\ f[0] = << >> /\ f[Len(parts)] = FlattenSeq(parts)
           /\ \A i \in 1 .. Len(parts) : f[i] = f[i - 1] \o parts[i]
<1> DEFINE n == Len(parts)
           step == [x \in Seq(V) \X (1 .. n) |-> x[1] \o parts[x[2]]]
           Equation(g) ==
             g = [i \in 1 .. n |-> IF i = 1 THEN parts[i] ELSE g[i - 1] \o parts[i]]
           flatten == CHOOSE g : Equation(g)
<1>1. n \in Nat /\ << >> \in Seq(V) /\ \A i \in 1 .. n : parts[i] \in Seq(V)
  OBVIOUS
<1>2. step \in [Seq(V) \X (1 .. n) -> Seq(V)]
  <2>1. ASSUME NEW x \in Seq(V) \X (1 .. n) PROVE x[1] \o parts[x[2]] \in Seq(V)
    <3>1. x[1] \in Seq(V) /\ parts[x[2]] \in Seq(V)
      BY <1>1
    <3> QED BY <3>1, ConcatProperties
  <2> QED BY <2>1
<1>3. PICK f : IsRecursion(f, Seq(V), << >>, step, n)
  <2> HIDE DEF step, n
  <2> QED BY <1>1, <1>2, RecursionExists
<1>4. f \in [0 .. n -> Seq(V)] /\ f[0] = << >>
  BY <1>3 DEF IsRecursion
<1>5. ASSUME NEW i \in 1 .. n PROVE f[i] = f[i - 1] \o parts[i]
  <2>1. i - 1 \in 0 .. n
    BY <1>1
  <2>2. <<f[i - 1], i>> \in Seq(V) \X (1 .. n)
    BY <1>4, <2>1
  <2> QED BY <1>3, <2>2 DEF IsRecursion
<1>6. FlattenSeq(parts) = f[n]
  <2>1. CASE n = 0
    <3>1. parts = << >>
      BY <2>1, EmptySeq
    <3> QED BY <1>4, <2>1, <3>1 DEF FlattenSeq
  <2>2. CASE n # 0
    <3>1. FlattenSeq(parts) = flatten[n]
      BY <2>2 DEF FlattenSeq
    <3>2. \E g : Equation(g)
      <4> DEFINE g == [i \in 1 .. n |-> f[i]]
      <4>1. ASSUME NEW i \in 1 .. n
            PROVE g[i] = IF i = 1 THEN parts[i] ELSE g[i - 1] \o parts[i]
        <5>1. CASE i = 1
          <6>1. f[1] = << >> \o parts[1] /\ parts[1] \in Seq(V)
            <7>1. 1 - 1 = 0
              OBVIOUS
            <7> QED BY <1>1, <1>4, <1>5, <5>1, <7>1
          <6> QED BY <5>1, <6>1, ConcatEmptySeq
        <5>2. CASE i # 1
          <6>1. i - 1 \in 1 .. n
            BY <1>1, <5>2
          <6> QED BY <1>5, <5>2, <6>1
        <5> QED BY <5>1, <5>2
      <4>2. Equation(g)
        <5>1. g = [i \in 1 .. n |-> g[i]]
          OBVIOUS
        <5> HIDE DEF g
        <5> QED BY <4>1, <5>1
      <4> QED BY <4>2
    <3>3. Equation(flatten)
      <4> HIDE DEF Equation
      <4> QED BY <3>2
    <3> HIDE DEF flatten
    <3> DEFINE S == {i \in Nat : i + 1 <= n => flatten[i + 1] = f[i + 1]}
    <3>4. 0 \in S
      <4>1. 1 \in 1 .. n /\ 0 + 1 = 1 /\ 1 - 1 = 0
        BY <1>1, <2>2
      <4>2. flatten[1] = parts[1] /\ parts[1] \in Seq(V)
        BY <1>1, <3>3, <4>1
      <4>3. f[1] = << >> \o parts[1]
        BY <1>4, <1>5, <4>1
      <4>4. f[1] = parts[1]
        BY <4>2, <4>3, ConcatEmptySeq
      <4> QED BY <4>1, <4>2, <4>4
    <3>5. ASSUME NEW i \in Nat, i \in S PROVE i + 1 \in S
      <4> SUFFICES ASSUME (i + 1) + 1 <= n PROVE flatten[(i + 1) + 1] = f[(i + 1) + 1]
        OBVIOUS
      <4> DEFINE j == (i + 1) + 1
      <4>1. j \in 1 .. n /\ j # 1 /\ j - 1 = i + 1 /\ i + 1 <= n
        BY <1>1
      <4> HIDE DEF j
      <4>2. flatten[i + 1] = f[i + 1]
        BY <3>5, <4>1
      <4>3. flatten[j] = flatten[i + 1] \o parts[j]
        BY <3>3, <4>1
      <4> QED BY <1>5, <4>1, <4>2, <4>3 DEF j
    <3>6. Nat \subseteq S
      <4> HIDE DEF S
      <4> QED BY <3>4, <3>5, SetInduction
    <3>7. n - 1 \in Nat /\ (n - 1) + 1 = n /\ n <= n
      BY <1>1, <2>2
    <3>8. flatten[n] = f[n]
      <4>1. n - 1 \in S
        BY <3>6, <3>7
      <4> QED BY <3>7, <4>1
    <3> QED BY <3>1, <3>8
  <2> QED BY <2>1, <2>2
<1> QED BY <1>4, <1>5, <1>6

(* What agrees with a sequence agrees with each beginning of it. *)
LEMMA AgreesWithFront ==
  ASSUME NEW V, NEW p \in Seq(V), NEW q \in Seq(V), NEW s, Agrees(s, p \o q)
  PROVE  Agrees(s, p) /\ Len(p) <= Len(p \o q)
<1>1. Joins(p \o q, p, q)
  BY ConcatJoins
<1>2. Len(p) \in Nat /\ Len(q) \in Nat
  OBVIOUS
<1>3. Len(p) <= Len(p \o q)
  BY <1>1, <1>2 DEF Joins
<1>4. ASSUME NEW j \in 1 .. Len(s), j <= Len(p) PROVE s[j] = p[j]
  <2>1. j \in 1 .. Len(p) /\ j <= Len(p \o q)
    BY <1>1, <1>2, <1>4 DEF Joins
  <2> QED BY <1>1, <2>1 DEF Agrees, Joins
<1> QED BY <1>3, <1>4 DEF Agrees

(* What parse_one makes of any bytes of which those that encode_command    *)
(* writes for args are the first, or which are the first of those: it      *)
(* waits for as long as one is missing, and then returns exactly these     *)
(* arguments and takes exactly these bytes.  Wherever the connection cuts  *)
(* the bytes, whatever stands behind them, and whatever bytes are in the   *)
(* arguments, which may look like the protocol's own.                      *)
THEOREM ReadsCommands ==
  ASSUME NEW B, Marks \subseteq B, NEW args \in Seq(Seq(B)), NEW s \in Seq(B),
         Agrees(s, EncodeCommand(args))
  PROVE  ParseOne(s) = IF Len(s) >= Len(EncodeCommand(args))
                       THEN Parsed(args, Len(EncodeCommand(args)))
                       ELSE Wait
<1> DEFINE n == Len(args)
           h == Header("*", n)
           parts == [i \in DOMAIN args |-> EncodeArg(args[i])]
           all == EncodeCommand(args)
<1>1. n \in Nat /\ DOMAIN args = 1 .. n /\ Len(s) \in Nat /\ \A i \in 1 .. n : args[i] \in Seq(B)
  OBVIOUS
<1>2. parts \in Seq(Seq(B)) /\ Len(parts) = n /\ \A i \in 1 .. n : parts[i] = EncodeArg(args[i])
  <2>1. \A i \in 1 .. n : EncodeArg(args[i]) \in Seq(B)
    BY <1>1, ArgBytes
  <2> QED BY <1>1, <2>1
<1>3. PICK f \in [0 .. n -> Seq(B)] :
        /\ f[0] = << >> /\ f[n] = FlattenSeq(parts)
        /\ \A i \in 1 .. n : f[i] = f[i - 1] \o EncodeArg(args[i])
  <2>1. \E f \in [0 .. Len(parts) -> Seq(B)] :
           /\ f[0] = << >> /\ f[Len(parts)] = FlattenSeq(parts)
           /\ \A i \in 1 .. Len(parts) : f[i] = f[i - 1] \o parts[i]
    <3> HIDE DEF parts
    <3> QED BY <1>2, FlattenGrows
  <2> HIDE DEF parts
  <2> QED BY <1>2, <2>1
<1>4. "*" \in Marks /\ "*" # "CR"
  BY DEF Marks
<1>5. /\ h \in Seq(B) /\ Len(h) = Len(Str(n)) + 3 /\ Len(Str(n)) \in Nat
      /\ h[1] = "*" /\ IsInt(Str(n)) /\ IntOf(Str(n)) = n
  <2> HIDE DEF n
  <2>1. IsHeader(h, "*", Str(n), n)
    BY <1>1, <1>4, HeaderBytes
  <2> HIDE DEF h
  <2>2. /\ h \in Seq(Marks) /\ Len(h) = Len(Str(n)) + 3 /\ Str(n) \in Seq(DigitBytes)
        /\ IsInt(Str(n)) /\ IntOf(Str(n)) = n
    BY <2>1 DEF IsHeader
  <2>3. h[1] = "*"
    BY <2>1 DEF IsHeader
  <2>4. Len(Str(n)) \in Nat
    BY <2>2, LenProperties
  <2>5. h \in Seq(B)
    BY <2>2, SeqMonotonic
  <2> QED BY <2>2, <2>3, <2>4, <2>5
<1>6. all = h \o f[n]
  BY <1>3 DEF EncodeCommand, Header
<1> HIDE DEF n, h, parts, all
<1> DEFINE E(i) == h \o f[i]
<1>7. \A i \in 0 .. n : f[i] \in Seq(B) /\ E(i) \in Seq(B)
  BY <1>3, <1>5, ConcatProperties
<1>8. E(0) = h
  <2>1. 0 \in 0 .. n
    BY <1>1
  <2> QED BY <1>3, <1>5, <2>1, ConcatEmptySeq
<1>9. ASSUME NEW i \in 1 .. n PROVE E(i) = E(i - 1) \o EncodeArg(args[i])
  <2>1. i \in 0 .. n /\ i - 1 \in 0 .. n
    BY <1>1
  <2>2. EncodeArg(args[i]) \in Seq(B) /\ f[i - 1] \in Seq(B)
    BY <1>1, <1>7, <2>1, ArgBytes
  <2>3. E(i) = h \o (f[i - 1] \o EncodeArg(args[i]))
    BY <1>3
  <2> DEFINE e == f[i - 1]
             b == EncodeArg(args[i])
  <2>4. e \in Seq(B) /\ b \in Seq(B)
    BY <2>2
  <2>5. (h \o e) \o b = h \o (e \o b)
    <3>1. h \in Seq(B)
      BY <1>5
    <3> HIDE DEF e, b, E
    <3>2. Regroup(h, e, b)
      BY <2>4, <3>1, Regroups
    <3> QED BY <3>2 DEF Regroup
  <2> QED BY <2>3, <2>5
<1> HIDE DEF E
<1>10. ASSUME NEW i \in 0 .. n PROVE Agrees(s, E(i)) /\ Len(E(i)) <= Len(all)
  <2> DEFINE S == {d \in Nat : d <= n => Agrees(s, E(n - d)) /\ Len(E(n - d)) <= Len(all)}
  <2>1. 0 \in S
    <3>1. n - 0 = n /\ E(n) = all /\ Len(all) \in Nat
      <4>1. n \in 0 .. n
        BY <1>1
      <4>2. E(n) = all
        BY <1>6 DEF E
      <4> QED BY <1>1, <1>7, <4>1, <4>2, LenProperties
    <3> QED BY <3>1 DEF all
  <2>2. ASSUME NEW d \in Nat, d \in S PROVE d + 1 \in S
    <3> SUFFICES ASSUME d + 1 <= n
                 PROVE Agrees(s, E(n - (d + 1))) /\ Len(E(n - (d + 1))) <= Len(all)
      OBVIOUS
    <3> DEFINE j == n - d
    <3>1. j \in 1 .. n /\ n - (d + 1) = j - 1 /\ j \in 0 .. n /\ j - 1 \in 0 .. n /\ d <= n
      BY <1>1
    <3>2. Agrees(s, E(j)) /\ Len(E(j)) <= Len(all)
      BY <2>2, <3>1
    <3> HIDE DEF j
    <3>3. E(j) = E(j - 1) \o EncodeArg(args[j]) /\ EncodeArg(args[j]) \in Seq(B)
      BY <1>1, <1>9, <3>1, ArgBytes
    <3>4. Agrees(s, E(j - 1)) /\ Len(E(j - 1)) <= Len(E(j))
      <4> DEFINE e == E(j - 1)
                 b == EncodeArg(args[j])
      <4>1. e \in Seq(B) /\ b \in Seq(B)
        BY <1>7, <3>1, <3>3
      <4>2. E(j) = e \o b
        BY <3>3
      <4>3. Agrees(s, e \o b)
        BY <3>2, <4>2
      <4>4. Agrees(s, e) /\ Len(e) <= Len(e \o b)
        <5> HIDE DEF e, b
        <5> QED BY <4>1, <4>3, AgreesWithFront
      <4> HIDE DEF b
      <4> QED BY <4>2, <4>4
    <3>5. Len(E(j - 1)) \in Nat /\ Len(E(j)) \in Nat /\ Len(all) \in Nat
      <4>1. n \in 0 .. n /\ E(n) = all
        BY <1>1, <1>6 DEF E
      <4> QED BY <1>7, <3>1, <4>1, LenProperties
    <3> QED BY <3>1, <3>2, <3>4, <3>5
  <2>3. Nat \subseteq S
    <3> HIDE DEF S
    <3> QED BY <2>1, <2>2, SetInduction
  <2>4. n - i \in Nat /\ n - i <= n /\ n - (n - i) = i
    BY <1>1
  <2>5. n - i \in S
    BY <2>3, <2>4
  <2> QED BY <2>4, <2>5
<1>11. all = E(n) /\ Len(all) \in Nat /\ Len(h) <= Len(all) /\ Agrees(s, h)
  <2>1. n \in 0 .. n /\ 0 \in 0 .. n /\ E(n) = all
    BY <1>1, <1>6 DEF E
  <2>2. Len(all) \in Nat
    BY <1>7, <2>1, LenProperties
  <2> QED BY <1>8, <1>10, <2>1, <2>2
<1>12. \A i \in 1 .. Len(h) : (1 - 1) + i <= Len(s) => s[(1 - 1) + i] = h[i]
  <2>1. ASSUME NEW i \in 1 .. Len(h), (1 - 1) + i <= Len(s) PROVE s[(1 - 1) + i] = h[i]
    <3>1. (1 - 1) + i = i /\ i \in 1 .. Len(s) /\ i <= Len(h)
      BY <1>1, <1>5, <2>1
    <3> QED BY <1>11, <3>1 DEF Agrees
  <2> QED BY <2>1
<1> DEFINE end == 1 + Len(Str(n)) + 1
<1>13. IF Len(s) >= Len(h)
       THEN /\ LineEnds(s, 1) # {} /\ Min(LineEnds(s, 1)) = end
            /\ SubSeq(s, 2, end - 1) = Str(n)
       ELSE LineEnds(s, 1) = {}
  <2>1. 1 \in Nat \ {0} /\ 1 + 1 = 2 /\ (1 - 1) + Len(h) = Len(h)
    BY <1>5
  <2>2. IF Len(s) >= (1 - 1) + Len(h)
        THEN /\ LineEnds(s, 1) # {} /\ Min(LineEnds(s, 1)) = end
             /\ SubSeq(s, 1 + 1, end - 1) = Str(n)
        ELSE LineEnds(s, 1) = {}
    BY <1>1, <1>4, <1>12, <2>1, FindsHeader DEF h
  <2> QED BY <2>1, <2>2
<1>14. CASE s = << >>
  <2>1. Len(s) = 0 /\ Len(h) >= 3
    BY <1>5, <1>14
  <2>2. ~ (Len(s) >= Len(all))
    BY <1>5, <1>11, <2>1
  <2> QED BY <1>14, <2>2 DEF ParseOne, all
<1>15. CASE s # << >>
  <2>1. ParseOne(s) = ParseArray(s)
    <3>1. Len(s) # 0 /\ 1 \in 1 .. Len(s) /\ 1 <= Len(h)
      BY <1>1, <1>5, <1>15, EmptySeq
    <3>2. s[1] = "*"
      BY <1>5, <1>11, <3>1 DEF Agrees
    <3> QED BY <1>15, <3>2 DEF ParseOne
  <2>2. CASE ~ (Len(s) >= Len(h))
    <3>1. ParseArray(s) = Wait
      BY <1>13, <2>2 DEF ParseArray
    <3>2. ~ (Len(s) >= Len(all))
      BY <1>1, <1>5, <1>11, <2>2
    <3> QED BY <2>1, <3>1, <3>2 DEF all
  <2>3. CASE Len(s) >= Len(h)
    <3> DEFINE Equation(g) ==
                 g = [i \in 0 .. n |-> IF i = 0 THEN Parsed(<< >>, end + 1)
                                       ELSE IF g[i - 1].kind # "args" THEN g[i - 1]
                                       ELSE ParseBulk(s, g[i - 1])]
               bulks == CHOOSE g : Equation(g)
               Bulks(idx, k) ==
                 CHOOSE g : g = [i \in 0 .. k |-> IF i = 0 THEN Parsed(<< >>, idx + 1)
                                                  ELSE IF g[i - 1].kind # "args" THEN g[i - 1]
                                                  ELSE ParseBulk(s, g[i - 1])]
               Command(idx, header) == IF ~ IsInt(header) THEN Raise
                                       ELSE IF IntOf(header) < 0 THEN NoCommand(idx)
                                       ELSE Bulks(idx, IntOf(header))[IntOf(header)]
               Taken(i) == IF Len(s) >= Len(E(i)) THEN Parsed(SubSeq(args, 1, i), Len(E(i)))
                           ELSE Wait
    <3>1. ParseArray(s) = bulks[n]
      <4>1. /\ LineEnds(s, 1) # {} /\ Min(LineEnds(s, 1)) = end
            /\ SubSeq(s, 2, end - 1) = Str(n)
        BY <1>13, <2>3
      <4>2. ~ (n < 0)
        BY <1>1
      <4>3. ParseArray(s) = Command(Min(LineEnds(s, 1)), SubSeq(s, 2, Min(LineEnds(s, 1)) - 1))
        BY <4>1 DEF ParseArray
      <4>4. bulks = Bulks(end, n)
        OBVIOUS
      <4> HIDE DEF end, bulks, Bulks
      <4>5. ParseArray(s) = Command(end, Str(n))
        <5> HIDE DEF Command
        <5> QED BY <4>1, <4>3
      <4>6. Command(end, Str(n)) = Bulks(end, n)[n]
        BY <1>5, <4>2
      <4> QED BY <4>4, <4>5, <4>6
    <3>2. Taken(0) = Parsed(<< >>, end + 1)
      <4>1. Len(E(0)) = end + 1 /\ Len(s) >= Len(E(0))
        BY <1>5, <1>8, <2>3
      <4>2. SubSeq(args, 1, 0) = << >>
        BY <1>1, SubSeqEmpty
      <4> HIDE DEF end
      <4> QED BY <4>1, <4>2
    <3>3. ASSUME NEW i \in 1 .. n
          PROVE Taken(i) = IF Taken(i - 1).kind # "args" THEN Taken(i - 1)
                           ELSE ParseBulk(s, Taken(i - 1))
      <4>1. /\ E(i) = E(i - 1) \o EncodeArg(args[i]) /\ args[i] \in Seq(B)
            /\ E(i - 1) \in Seq(B) /\ E(i) \in Seq(B) /\ Agrees(s, E(i))
            /\ i - 1 \in 0 .. n /\ i \in 0 .. n
        <5>1. i - 1 \in 0 .. n /\ i \in 0 .. n
          BY <1>1
        <5> QED BY <1>1, <1>7, <1>9, <1>10, <5>1
      <4>2. Len(E(i - 1)) <= Len(E(i)) /\ Len(E(i - 1)) \in Nat /\ Len(E(i)) \in Nat
        <5>1. EncodeArg(args[i]) \in Seq(B)
          BY <4>1, ArgBytes
        <5> QED BY <4>1, <5>1, AgreesWithFront, LenProperties
      <4>3. CASE Len(s) >= Len(E(i - 1))
        <5> DEFINE front == SubSeq(args, 1, i - 1)
        <5>1. Taken(i - 1) = Parsed(front, Len(E(i - 1)))
          BY <4>3
        <5>2. Taken(i - 1).kind = "args"
          BY <5>1 DEF Parsed
        <5>3. ParseBulk(s, Parsed(front, Len(E(i - 1))))
                = IF Len(s) >= Len(E(i)) THEN Parsed(Append(front, args[i]), Len(E(i))) ELSE Wait
          <6> HIDE DEF front
          <6> QED BY <4>1, ReadsArg
        <5>4. Append(front, args[i]) = SubSeq(args, 1, i)
          <6>1. 1 \in 1 .. Len(args) /\ i \in 1 .. Len(args)
            BY <1>1 DEF n
          <6>2. SubSeq(args, 1, i) = front \o <<args[i]>>
            BY <6>1, SubSeqRecursiveSecond
          <6>3. front \in Seq(Seq(B))
            <7>1. \A j \in 1 .. i - 1 : args[j] \in Seq(B)
              BY <1>1
            <7> QED BY <1>1, <7>1, SubSeqProperties
          <6> HIDE DEF front
          <6> QED BY <4>1, <6>2, <6>3, AppendIsConcat
        <5> HIDE DEF front
        <5>5. Taken(i) = ParseBulk(s, Taken(i - 1))
          BY <5>1, <5>3, <5>4
        <5> HIDE DEF Taken
        <5> QED BY <5>2, <5>5
      <4>4. CASE ~ (Len(s) >= Len(E(i - 1)))
        <5>1. ~ (Len(s) >= Len(E(i)))
          BY <1>1, <4>2, <4>4
        <5>2. Taken(i) = Wait /\ Taken(i - 1) = Wait /\ Wait.kind # "args"
          BY <4>4, <5>1 DEF Wait
        <5> HIDE DEF Taken
        <5> QED BY <5>2
      <4> QED BY <4>3, <4>4
    <3> HIDE DEF Taken
    <3>4. Equation(bulks)
      <4> DEFINE g == [i \in 0 .. n |-> Taken(i)]
      <4>1. ASSUME NEW i \in 0 .. n
            PROVE Taken(i) = IF i = 0 THEN Parsed(<< >>, end + 1)
                             ELSE IF g[i - 1].kind # "args" THEN g[i - 1]
                             ELSE ParseBulk(s, g[i - 1])
        <5>1. CASE i = 0
          BY <3>2, <5>1
        <5>2. CASE i # 0
          <6>1. i \in 1 .. n /\ i - 1 \in 0 .. n
            BY <1>1, <5>2
          <6>2. g[i - 1] = Taken(i - 1)
            BY <6>1
          <6> HIDE DEF g
          <6> QED BY <3>3, <5>2, <6>1, <6>2
        <5> QED BY <5>1, <5>2
      <4>2. Equation(g)
        BY <4>1
      <4> HIDE DEF Equation
      <4> QED BY <4>2
    <3> HIDE DEF bulks
    <3> DEFINE S == {i \in Nat : i <= n => bulks[i] = Taken(i)}
    <3>5. 0 \in S
      <4>1. 0 \in 0 .. n
        BY <1>1
      <4>2. bulks[0] = Parsed(<< >>, end + 1)
        BY <3>4, <4>1
      <4> QED BY <3>2, <4>2
    <3>6. ASSUME NEW i \in Nat, i \in S PROVE i + 1 \in S
      <4> SUFFICES ASSUME i + 1 <= n PROVE bulks[i + 1] = Taken(i + 1)
        OBVIOUS
      <4>1. /\ i + 1 \in 1 .. n /\ i + 1 \in 0 .. n /\ i + 1 # 0 /\ (i + 1) - 1 = i
            /\ bulks[i] = Taken(i)
        BY <1>1, <3>6
      <4>2. bulks[i + 1] = IF bulks[i].kind # "args" THEN bulks[i] ELSE ParseBulk(s, bulks[i])
        BY <3>4, <4>1
      <4>3. Taken(i + 1) = IF Taken(i).kind # "args" THEN Taken(i) ELSE ParseBulk(s, Taken(i))
        BY <3>3, <4>1
      <4> QED BY <4>1, <4>2, <4>3
    <3>7. Nat \subseteq S
      <4> HIDE DEF S
      <4> QED BY <3>5, <3>6, SetInduction
    <3>8. bulks[n] = Taken(n)
      <4>1. n \in S /\ n <= n
        BY <1>1, <3>7
      <4> QED BY <4>1
    <3>9. Taken(n) = IF Len(s) >= Len(all) THEN Parsed(args, Len(all)) ELSE Wait
      <4>1. SubSeq(args, 1, n) = args
        BY SubSeqFull DEF n
      <4> QED BY <1>11, <4>1 DEF Taken
    <3> QED BY <2>1, <3>1, <3>8, <3>9 DEF all
  <2> QED BY <2>2, <2>3
<1> QED BY <1>14, <1>15

(* A piece of a sequence. *)
LEMMA Piece ==
  ASSUME NEW V, NEW z \in Seq(V), NEW a \in Nat, NEW b \in Nat, a <= b, b <= Len(z)
  PROVE  /\ SubSeq(z, a + 1, b) \in Seq(V) /\ Len(SubSeq(z, a + 1, b)) = b - a
         /\ \A i \in 1 .. b - a : SubSeq(z, a + 1, b)[i] = z[a + i]
<1> DEFINE w == SubSeq(z, a + 1, b)
<1>1. \A i \in a + 1 .. b : z[i] \in V
  <2>1. \A i \in a + 1 .. b : i \in 1 .. Len(z)
    OBVIOUS
  <2> QED BY <2>1
<1>2. a + 1 \in Int /\ b \in Int /\ Len(z) \in Nat
  OBVIOUS
<1>3. /\ w \in Seq(V) /\ Len(w) = IF a + 1 <= b THEN b - (a + 1) + 1 ELSE 0
      /\ \A i \in 1 .. b - (a + 1) + 1 : w[i] = z[(a + 1) + i - 1]
  BY <1>1, <1>2, SubSeqProperties
<1> HIDE DEF w
<1>4. Len(w) = b - a
  BY <1>3
<1>5. ASSUME NEW i \in 1 .. b - a PROVE w[i] = z[a + i]
  <2>1. i \in 1 .. b - (a + 1) + 1 /\ (a + 1) + i - 1 = a + i
    OBVIOUS
  <2> QED BY <1>3, <2>1
<1> QED BY <1>3, <1>4, <1>5 DEF w

(* An encoded command is made of bytes. *)
LEMMA CommandBytes ==
  ASSUME NEW B, Marks \subseteq B, NEW args \in Seq(Seq(B))
  PROVE  EncodeCommand(args) \in Seq(B)
<1> DEFINE parts == [i \in DOMAIN args |-> EncodeArg(args[i])]
<1>1. Len(args) \in Nat /\ DOMAIN args = 1 .. Len(args) /\ \A i \in 1 .. Len(args) : args[i] \in Seq(B)
  OBVIOUS
<1>2. parts \in Seq(Seq(B))
  <2>1. \A i \in 1 .. Len(args) : EncodeArg(args[i]) \in Seq(B)
    BY <1>1, ArgBytes
  <2> QED BY <1>1, <2>1
<1>3. EncodeCommand(args) = Header("*", Len(args)) \o FlattenSeq(parts)
  BY DEF EncodeCommand, Header
<1> HIDE DEF parts
<1>4. FlattenSeq(parts) \in Seq(B)
  <2>1. PICK f \in [0 .. Len(parts) -> Seq(B)] : f[Len(parts)] = FlattenSeq(parts)
    BY <1>2, FlattenGrows
  <2>2. Len(parts) \in 0 .. Len(parts)
    BY <1>2, LenProperties
  <2> QED BY <2>1, <2>2
<1>5. Header("*", Len(args)) \in Seq(B)
  <2>1. "*" \in Marks
    BY DEF Marks
  <2>2. IsHeader(Header("*", Len(args)), "*", Str(Len(args)), Len(args))
    BY <1>1, <2>1, HeaderBytes
  <2>3. Header("*", Len(args)) \in Seq(Marks)
    BY <2>2 DEF IsHeader
  <2> QED BY <2>3, SeqMonotonic
<1> QED BY <1>3, <1>4, <1>5, ConcatProperties

(* A round of a loop over the commands of a connection, anywhere in what   *)
(* its client sends: of all that has come in, the parser has consumed what *)
(* is before a command.  It returns this command as soon as its last byte  *)
(* is there, and what it leaves in the buffer is what has come in behind.  *)
THEOREM ReadsInTurn ==
  ASSUME NEW B, Marks \subseteq B, NEW before \in Seq(B), NEW args \in Seq(Seq(B)),
         NEW after \in Seq(B), NEW n \in Nat, Len(before) <= n,
         n <= Len((before \o EncodeCommand(args)) \o after)
  PROVE  LET stream == (before \o EncodeCommand(args)) \o after
             start == Len(before)
             next == start + Len(EncodeCommand(args))
             buf == SubSeq(stream, start + 1, n)
         IN IF n >= next
            THEN /\ ParseOne(buf) = Parsed(args, next - start)
                 /\ SubSeq(buf, (next - start) + 1, Len(buf)) = SubSeq(stream, next + 1, n)
            ELSE ParseOne(buf) = Wait
<1> DEFINE e == EncodeCommand(args)
           x == before \o e
           stream == x \o after
           start == Len(before)
           next == start + Len(e)
           buf == SubSeq(stream, start + 1, n)
<1>1. e \in Seq(B)
  BY CommandBytes
<1> HIDE DEF e
<1>2. x \in Seq(B) /\ Joins(x, before, e)
  BY <1>1, ConcatJoins
<1> HIDE DEF x
<1>3. stream \in Seq(B) /\ Joins(stream, x, after)
  BY <1>2, ConcatJoins
<1>4. n <= Len(stream)
  BY DEF x, e
<1> HIDE DEF stream
<1>5. start \in Nat /\ Len(e) \in Nat /\ Len(after) \in Nat /\ Len(stream) \in Nat
  BY <1>1, <1>3, LenProperties
<1>6. Len(x) = next
  BY <1>2 DEF Joins
<1>7. \A j \in 1 .. Len(e) : stream[start + j] = e[j]
  <2>1. ASSUME NEW j \in 1 .. Len(e) PROVE stream[start + j] = e[j]
    <3>1. start + j \in 1 .. Len(x)
      BY <1>5, <1>6
    <3>2. stream[start + j] = x[start + j]
      BY <1>3, <3>1 DEF Joins
    <3>3. x[start + j] = e[j]
      BY <1>2 DEF Joins
    <3> QED BY <3>2, <3>3
  <2> QED BY <2>1
<1>8. start <= n
  OBVIOUS
<1> HIDE DEF start
<1>9. /\ buf \in Seq(B) /\ Len(buf) = n - start
      /\ \A j \in 1 .. n - start : buf[j] = stream[start + j]
  BY <1>3, <1>4, <1>5, <1>8, Piece
<1> HIDE DEF buf
<1>10. Agrees(buf, e)
  <2>1. ASSUME NEW j \in 1 .. Len(buf), j <= Len(e) PROVE buf[j] = e[j]
    <3>1. j \in 1 .. n - start /\ j \in 1 .. Len(e)
      BY <1>5, <1>9, <2>1
    <3> QED BY <1>7, <1>9, <3>1
  <2> QED BY <2>1 DEF Agrees
<1>11. ParseOne(buf) = IF Len(buf) >= Len(e) THEN Parsed(args, Len(e)) ELSE Wait
  BY <1>9, <1>10, ReadsCommands DEF e
<1>12. Len(buf) >= Len(e) <=> n >= next
  BY <1>5, <1>9
<1>13. next - start = Len(e) /\ next \in Nat
  BY <1>5
<1>14. ASSUME n >= next PROVE SubSeq(buf, (next - start) + 1, Len(buf)) = SubSeq(stream, next + 1, n)
  <2> DEFINE p == SubSeq(buf, Len(e) + 1, Len(buf))
             q == SubSeq(stream, next + 1, n)
  <2>1. Len(e) <= Len(buf) /\ Len(buf) \in Nat /\ Len(buf) - Len(e) = n - next
    BY <1>5, <1>9, <1>12, <1>14
  <2>2. /\ p \in Seq(B) /\ Len(p) = n - next
        /\ \A j \in 1 .. n - next : p[j] = buf[Len(e) + j]
    <3>1. /\ p \in Seq(B) /\ Len(p) = Len(buf) - Len(e)
          /\ \A j \in 1 .. Len(buf) - Len(e) : p[j] = buf[Len(e) + j]
      <4> DEFINE a == Len(e)
                 b == Len(buf)
      <4>1. a \in Nat /\ b \in Nat /\ a <= b /\ b <= Len(buf)
        BY <1>5, <2>1
      <4> HIDE DEF a, b
      <4>2. /\ SubSeq(buf, a + 1, b) \in Seq(B) /\ Len(SubSeq(buf, a + 1, b)) = b - a
            /\ \A j \in 1 .. b - a : SubSeq(buf, a + 1, b)[j] = buf[a + j]
        BY <1>9, <4>1, Piece
      <4> QED BY <4>2 DEF a, b
    <3> HIDE DEF p
    <3> QED BY <2>1, <3>1
  <2>3. /\ q \in Seq(B) /\ Len(q) = n - next
        /\ \A j \in 1 .. n - next : q[j] = stream[next + j]
    <3> HIDE DEF next
    <3> QED BY <1>3, <1>4, <1>13, <1>14, Piece
  <2> HIDE DEF p, q
  <2>4. ASSUME NEW j \in 1 .. Len(p) PROVE p[j] = q[j]
    <3>1. j \in 1 .. n - next
      BY <2>2
    <3>2. Len(e) + j \in 1 .. n - start /\ start + (Len(e) + j) = next + j
      BY <1>5, <3>1
    <3> QED BY <1>9, <2>2, <2>3, <3>1, <3>2
  <2>5. p = q
    BY <2>2, <2>3, <2>4, SeqEqual
  <2> HIDE DEF next
  <2> QED BY <1>13, <2>5 DEF p, q
<1>15. IF n >= next
       THEN /\ ParseOne(buf) = Parsed(args, next - start)
            /\ SubSeq(buf, (next - start) + 1, Len(buf)) = SubSeq(stream, next + 1, n)
       ELSE ParseOne(buf) = Wait
  <2> HIDE DEF next
  <2> QED BY <1>11, <1>12, <1>13, <1>14
<1> QED BY <1>15 DEF buf, stream, start, x, e
=============================================================================
