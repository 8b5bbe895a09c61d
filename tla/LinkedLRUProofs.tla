--------------------------- MODULE LinkedLRUProofs ---------------------------
(***************************************************************************)
(* Theorems about LinkedLRU, for any keys, values and sizes: the links and *)
(* the dict agree, and the linked list implements the promised store.      *)
(***************************************************************************)
EXTENDS LinkedLRU, SequenceTheorems, DataLemmas

USE SentinelAssumption

Links == [next : [Nodes -> Nodes \union {Null}], prev : [Nodes -> Nodes \union {Null}]]

(* The nodes from one sentinel to the other, when r is what lies between. *)
Path(r) == [i \in 0 .. Len(r) + 1 |->
              IF i = 0 THEN HEAD ELSE IF i = Len(r) + 1 THEN TAIL ELSE r[i]]

(* The links l hold exactly the keys of r, in that order, in both          *)
(* directions; a key that is not in r is not linked.                       *)
IsChain(l, r) ==
  /\ l \in Links
  /\ r \in Seq(Keys) /\ IsInjective(r)
  /\ \A i \in 0 .. Len(r) : /\ l.next[Path(r)[i]] = Path(r)[i + 1]
                            /\ l.prev[Path(r)[i + 1]] = Path(r)[i]
  /\ \A k \in Keys \ ToSet(r) : l.next[k] = Null /\ l.prev[k] = Null

(* TypeOK and ListMatchesMap say less than a step keeps: which links the   *)
(* next removal changes depends on the whole chain, and which key goes     *)
(* with which place of the dict's order on that order.                     *)
LinkInv ==
  /\ TypeOK
  /\ ToSet(order) = Mapped /\ IsInjective(order)
  /\ IsChain(list, Forward) /\ ToSet(Forward) = Mapped

-----------------------------------------------------------------------------
(* Chains: what each operation on the links leaves. *)

LEMMA PathProperties ==
  ASSUME NEW r \in Seq(Keys), IsInjective(r)
  PROVE  /\ Path(r) \in [0 .. Len(r) + 1 -> Nodes]
         /\ Path(r)[0] = HEAD /\ Path(r)[Len(r) + 1] = TAIL
         /\ \A i \in 1 .. Len(r) : Path(r)[i] = r[i] /\ r[i] \in Keys
         /\ \A i, j \in 0 .. Len(r) + 1 : Path(r)[i] = Path(r)[j] => i = j
<1> DEFINE n == Len(r)
           p == Path(r)
<1>1. n \in Nat /\ DOMAIN r = 1 .. n /\ \A i \in 1 .. n : r[i] \in Keys
  OBVIOUS
<1>2. p = [i \in 0 .. n + 1 |-> IF i = 0 THEN HEAD ELSE IF i = n + 1 THEN TAIL ELSE r[i]]
  BY DEF Path
<1> HIDE DEF n, p
<1>3. \A i \in 0 .. n + 1 : i = 0 \/ i = n + 1 \/ i \in 1 .. n
  BY <1>1
<1>4. 0 \in 0 .. n + 1 /\ n + 1 \in 0 .. n + 1 /\ n + 1 # 0
  BY <1>1
<1>5. \A i \in 1 .. n : i \in 0 .. n + 1 /\ i # 0 /\ i # n + 1
  BY <1>1
<1>6. p[0] = HEAD /\ p[n + 1] = TAIL /\ \A i \in 1 .. n : p[i] = r[i]
  BY <1>2, <1>4, <1>5
<1>7. \A i \in 0 .. n + 1 : p[i] \in Nodes
  BY <1>1, <1>3, <1>6 DEF Nodes
<1>8. p \in [0 .. n + 1 -> Nodes]
  BY <1>2, <1>7
<1>9. ASSUME NEW i \in 0 .. n + 1, NEW j \in 0 .. n + 1, p[i] = p[j] PROVE i = j
  <2>1. CASE i \in 1 .. n /\ j \in 1 .. n
    BY <1>1, <1>6, <1>9, <2>1 DEF IsInjective
  <2>2. CASE i \notin 1 .. n \/ j \notin 1 .. n
    BY <1>1, <1>3, <1>6, <1>9, <2>2
  <2> QED BY <2>1, <2>2
<1> QED BY <1>1, <1>6, <1>8, <1>9 DEF n, p

(* A way to show that l is a chain: by its path and its other keys. *)
LEMMA ChainByPath ==
  ASSUME NEW l \in Links, NEW r \in Seq(Keys), IsInjective(r),
         \A i \in 0 .. Len(r) : l.next[Path(r)[i]] = Path(r)[i + 1],
         \A i \in 0 .. Len(r) : l.prev[Path(r)[i + 1]] = Path(r)[i],
         \A k \in Keys \ ToSet(r) : l.next[k] = Null /\ l.prev[k] = Null
  PROVE  IsChain(l, r)
BY DEF IsChain

LEMMA LinkTypes ==
  /\ EmptyList \in Links
  /\ \A l \in Links, k \in Keys : Unlink(l, k) \in Links /\ AddFront(l, k) \in Links
<1>1. EmptyList \in Links
  BY DEF EmptyList, Links, Nodes
<1>2. ASSUME NEW l \in Links, NEW k \in Keys
      PROVE Unlink(l, k) \in Links /\ AddFront(l, k) \in Links
  <2>1. /\ l.next \in [Nodes -> Nodes \union {Null}]
        /\ l.prev \in [Nodes -> Nodes \union {Null}]
        /\ k \in Nodes /\ HEAD \in Nodes /\ Null \in Nodes \union {Null}
    BY DEF Links, Nodes
  <2>2. ASSUME NEW f \in [Nodes -> Nodes \union {Null}],
               NEW a, NEW x \in Nodes \union {Null}, NEW b, NEW y \in Nodes \union {Null}
        PROVE [f EXCEPT ![a] = x, ![b] = y] \in [Nodes -> Nodes \union {Null}]
    OBVIOUS
  <2>3. l.next[k] \in Nodes \union {Null} /\ l.prev[k] \in Nodes \union {Null}
        /\ l.next[HEAD] \in Nodes \union {Null}
    BY <2>1
  <2>4. Unlink(l, k) \in Links
    BY <2>1, <2>2, <2>3 DEF Unlink, Links
  <2>5. AddFront(l, k) \in Links
    BY <2>1, <2>2, <2>3 DEF AddFront, Links
  <2> QED BY <2>4, <2>5
<1> QED BY <1>1, <1>2

LEMMA EmptyChain == IsChain(EmptyList, << >>)
<1>1. << >> \in Seq(Keys) /\ Len(<< >>) = 0 /\ DOMAIN << >> = {} /\ 0 .. 0 = {0}
  OBVIOUS
<1>2. IsInjective(<< >>) /\ ToSet(<< >>) = {}
  BY <1>1 DEF IsInjective, ToSet
<1>3. Path(<< >>)[0] = HEAD /\ Path(<< >>)[0 + 1] = TAIL
  BY <1>1, <1>2, PathProperties
<1>4. EmptyList.next[HEAD] = TAIL /\ EmptyList.prev[TAIL] = HEAD
  BY DEF EmptyList, Nodes
<1>5. \A k \in Keys : EmptyList.next[k] = Null /\ EmptyList.prev[k] = Null
  BY DEF EmptyList, Nodes
<1> QED BY <1>1, <1>2, <1>3, <1>4, <1>5, LinkTypes DEF IsChain

(* Unlinking the key at place j joins its two neighbours. *)
LEMMA UnlinkChain ==
  ASSUME NEW l, NEW r, IsChain(l, r), NEW k \in ToSet(r)
  PROVE  IsChain(Unlink(l, k), Without(r, {k}))
<1> DEFINE n == Len(r)
           p == Path(r)
           u == Unlink(l, k)
           w == Without(r, {k})
           q == Path(w)
<1>1. l \in Links /\ r \in Seq(Keys) /\ IsInjective(r)
  BY DEF IsChain
<1>2. n \in Nat /\ DOMAIN r = 1 .. n
  BY <1>1
<1>3. PICK j \in 1 .. n : r[j] = k
  BY <1>2 DEF ToSet
<1>4. /\ p \in [0 .. n + 1 -> Nodes] /\ p[0] = HEAD /\ p[n + 1] = TAIL
      /\ \A i \in 1 .. n : p[i] = r[i] /\ r[i] \in Keys
      /\ \A i, m \in 0 .. n + 1 : p[i] = p[m] => i = m
  BY <1>1, PathProperties
<1>5. w \in Seq(Keys) /\ ToSet(w) = ToSet(r) \ {k} /\ IsInjective(w)
  BY <1>1, WithoutProperties
<1>6. Len(w) = n - 1 /\ \A i \in 1 .. n - 1 : w[i] = IF i < j THEN r[i] ELSE r[i + 1]
  BY <1>1, <1>3, WithoutOne
<1>7. (n - 1) + 1 = n /\ j \in 0 .. n /\ j - 1 \in 0 .. n /\ (j - 1) + 1 = j
  BY <1>2, <1>3
<1>8. /\ q[0] = HEAD /\ q[n] = TAIL /\ \A i \in 1 .. n - 1 : q[i] = w[i]
  <2> HIDE DEF n, w
  <2>1. q[0] = HEAD /\ q[Len(w) + 1] = TAIL /\ \A i \in 1 .. Len(w) : q[i] = w[i]
    BY <1>5, PathProperties
  <2> HIDE DEF q
  <2> QED BY <1>6, <1>7, <2>1
<1>9. /\ \A i \in 0 .. n : l.next[p[i]] = p[i + 1] /\ l.prev[p[i + 1]] = p[i]
      /\ \A x \in Keys \ ToSet(r) : l.next[x] = Null /\ l.prev[x] = Null
  BY DEF IsChain
<1> HIDE DEF n, p, w, q
<1>10. ASSUME NEW i \in 0 .. n PROVE q[i] = IF i < j THEN p[i] ELSE p[i + 1]
  <2>1. CASE i = 0
    BY <1>3, <1>4, <1>8, <2>1
  <2>2. CASE i = n
    BY <1>3, <1>4, <1>8, <2>2
  <2>3. CASE i # 0 /\ i # n
    <3>1. i \in 1 .. n - 1 /\ i \in 1 .. n /\ i + 1 \in 1 .. n
      BY <1>2, <2>3
    <3> QED BY <1>4, <1>6, <1>8, <3>1
  <2> QED BY <2>1, <2>2, <2>3
<1>11. p[j] = k /\ l.prev[k] = p[j - 1] /\ l.next[k] = p[j + 1]
  BY <1>3, <1>4, <1>7, <1>9
<1>12. /\ u \in Links
       /\ u.next = [l.next EXCEPT ![p[j - 1]] = p[j + 1], ![k] = Null]
       /\ u.prev = [l.prev EXCEPT ![p[j + 1]] = p[j - 1], ![k] = Null]
  <2>1. k \in Keys
    BY <1>3, <1>4
  <2> QED BY <1>1, <1>11, <2>1, LinkTypes DEF Unlink
<1> HIDE DEF u
<1>13. /\ l.next \in [Nodes -> Nodes \union {Null}]
       /\ l.prev \in [Nodes -> Nodes \union {Null}]
  BY <1>1 DEF Links
<1>14. \A i \in 0 .. n + 1 : p[i] \in Nodes
  BY <1>4
<1>15. /\ \A x \in Nodes : u.next[x] = IF x = k THEN Null ELSE IF x = p[j - 1] THEN p[j + 1]
                                        ELSE l.next[x]
       /\ \A x \in Nodes : u.prev[x] = IF x = k THEN Null ELSE IF x = p[j + 1] THEN p[j - 1]
                                        ELSE l.prev[x]
  BY <1>12, <1>13
<1>16. ASSUME NEW i \in 0 .. n - 1
       PROVE u.next[q[i]] = q[i + 1] /\ u.prev[q[i + 1]] = q[i]
  <2>1. i \in 0 .. n /\ i + 1 \in 0 .. n /\ i \in 0 .. n + 1 /\ i + 1 \in 0 .. n + 1
        /\ (i + 1) + 1 \in 0 .. n + 1 /\ j - 1 \in 0 .. n + 1 /\ j + 1 \in 0 .. n + 1
        /\ j \in 0 .. n + 1 /\ i \in Int /\ j \in Int
    BY <1>2, <1>3
  <2>2. /\ q[i] = IF i < j THEN p[i] ELSE p[i + 1]
        /\ q[i + 1] = IF i + 1 < j THEN p[i + 1] ELSE p[(i + 1) + 1]
    BY <1>10, <2>1
  <2>3. /\ p[i] \in Nodes /\ p[i + 1] \in Nodes /\ p[(i + 1) + 1] \in Nodes
        /\ l.next[p[i]] = p[i + 1] /\ l.prev[p[i + 1]] = p[i]
        /\ l.next[p[i + 1]] = p[(i + 1) + 1] /\ l.prev[p[(i + 1) + 1]] = p[i + 1]
    BY <1>9, <1>14, <2>1
  <2>4. CASE i + 1 < j
    <3>1. p[i] # k /\ p[i] # p[j - 1] /\ p[i + 1] # k /\ p[i + 1] # p[j + 1]
      BY <1>4, <1>11, <2>1, <2>4
    <3> QED BY <1>15, <2>1, <2>2, <2>3, <2>4, <3>1
  <2>5. CASE i + 1 = j
    <3>1. i = j - 1 /\ (i + 1) + 1 = j + 1
      BY <2>1, <2>5
    <3>2. p[i] # k /\ p[(i + 1) + 1] # k
      BY <1>4, <1>11, <2>1, <2>5
    <3> QED BY <1>15, <2>1, <2>2, <2>3, <2>5, <3>1, <3>2
  <2>6. CASE i + 1 > j
    <3>1. ~ (i < j) /\ ~ (i + 1 < j)
      BY <2>1, <2>6
    <3>2. /\ p[i + 1] # k /\ p[i + 1] # p[j - 1]
          /\ p[(i + 1) + 1] # k /\ p[(i + 1) + 1] # p[j + 1]
      BY <1>4, <1>11, <2>1, <2>6
    <3> QED BY <1>15, <2>2, <2>3, <3>1, <3>2
  <2> QED BY <2>1, <2>4, <2>5, <2>6
<1>17. ASSUME NEW x \in Keys \ ToSet(w) PROVE u.next[x] = Null /\ u.prev[x] = Null
  <2>1. x \in Nodes
    BY DEF Nodes
  <2>2. CASE x = k
    BY <1>15, <2>1, <2>2
  <2>3. CASE x # k
    <3>1. x \in Keys \ ToSet(r)
      BY <1>5, <2>3
    <3>2. \A i \in 1 .. n : r[i] # x
      BY <1>2, <3>1 DEF ToSet
    <3>3. j - 1 \in 0 .. n + 1 /\ j + 1 \in 0 .. n + 1
          /\ \A i \in 0 .. n + 1 : i = 0 \/ i = n + 1 \/ i \in 1 .. n
      BY <1>2, <1>3
    <3>4. x # p[j - 1] /\ x # p[j + 1]
      BY <1>4, <3>2, <3>3
    <3> QED BY <1>9, <1>15, <2>1, <2>3, <3>1, <3>4
  <2> QED BY <2>2, <2>3
<1>18. Len(w) = n - 1
  BY <1>6
<1> QED BY <1>5, <1>12, <1>16, <1>17, <1>18 DEF IsChain, q, u, w

(* Linking a new key in puts it between HEAD and the chain. *)
LEMMA AddChain ==
  ASSUME NEW l, NEW r, IsChain(l, r), NEW k \in Keys \ ToSet(r)
  PROVE  IsChain(AddFront(l, k), <<k>> \o r)
<1> DEFINE n == Len(r)
           p == Path(r)
           a == AddFront(l, k)
           f == <<k>> \o r
           q == Path(f)
<1>1. l \in Links /\ r \in Seq(Keys) /\ IsInjective(r)
  BY DEF IsChain
<1>2. n \in Nat /\ DOMAIN r = 1 .. n
  BY <1>1
<1>3. /\ p \in [0 .. n + 1 -> Nodes] /\ p[0] = HEAD /\ p[n + 1] = TAIL
      /\ \A i \in 1 .. n : p[i] = r[i] /\ r[i] \in Keys
      /\ \A i, m \in 0 .. n + 1 : p[i] = p[m] => i = m
  BY <1>1, PathProperties
<1>4. f \in Seq(Keys) /\ ToSet(f) = ToSet(r) \union {k} /\ IsInjective(f)
  BY <1>1, FrontProperties
<1>5. Len(f) = n + 1 /\ f[1] = k /\ \A i \in 2 .. n + 1 : f[i] = r[i - 1]
  BY <1>1
<1>6. /\ \A i \in 0 .. n : l.next[p[i]] = p[i + 1] /\ l.prev[p[i + 1]] = p[i]
      /\ \A x \in Keys \ ToSet(r) : l.next[x] = Null /\ l.prev[x] = Null
  BY DEF IsChain
<1>7. q[0] = HEAD /\ q[Len(f) + 1] = TAIL /\ \A i \in 1 .. Len(f) : q[i] = f[i]
  <2> HIDE DEF f
  <2> QED BY <1>4, PathProperties
<1> HIDE DEF n, p, f, q
<1>8. ASSUME NEW i \in 1 .. n + 1 PROVE q[i + 1] = p[i]
  <2>1. CASE i = n + 1
    BY <1>3, <1>5, <1>7, <2>1
  <2>2. CASE i # n + 1
    <3>1. i \in 1 .. n /\ i + 1 \in 2 .. n + 1 /\ i + 1 \in 1 .. n + 1 /\ (i + 1) - 1 = i
      BY <1>2, <2>2
    <3> QED BY <1>3, <1>5, <1>7, <3>1
  <2> QED BY <2>1, <2>2
<1>9. q[1] = k
  <2>1. 1 \in 1 .. n + 1
    BY <1>2
  <2> QED BY <1>5, <1>7, <2>1
<1>10. 0 \in 0 .. n /\ l.next[HEAD] = p[1]
  BY <1>2, <1>3, <1>6
<1>11. /\ a \in Links
       /\ a.next = [l.next EXCEPT ![k] = p[1], ![HEAD] = k]
       /\ a.prev = [l.prev EXCEPT ![k] = HEAD, ![p[1]] = k]
  BY <1>1, <1>10, LinkTypes DEF AddFront
<1> HIDE DEF a
<1>12. /\ l.next \in [Nodes -> Nodes \union {Null}]
       /\ l.prev \in [Nodes -> Nodes \union {Null}]
  BY <1>1 DEF Links
<1>13. /\ \A x \in Nodes : a.next[x] = IF x = HEAD THEN k ELSE IF x = k THEN p[1] ELSE l.next[x]
       /\ \A x \in Nodes : a.prev[x] = IF x = p[1] THEN k ELSE IF x = k THEN HEAD ELSE l.prev[x]
  BY <1>11, <1>12
<1>14. \A i \in 0 .. n + 1 : p[i] # k
  <2>1. \A i \in 1 .. n : r[i] # k
    BY <1>2 DEF ToSet
  <2>2. \A i \in 0 .. n + 1 : i = 0 \/ i = n + 1 \/ i \in 1 .. n
    BY <1>2
  <2> QED BY <1>3, <2>1, <2>2
<1>15. k \in Nodes /\ HEAD \in Nodes /\ k # HEAD /\ \A i \in 0 .. n + 1 : p[i] \in Nodes
  BY <1>3 DEF Nodes
<1>16. 1 \in 0 .. n + 1 /\ 0 \in 0 .. n + 1 /\ 1 \in 1 .. n + 1
  BY <1>2
<1>17. ASSUME NEW i \in 0 .. n + 1
       PROVE a.next[q[i]] = q[i + 1] /\ a.prev[q[i + 1]] = q[i]
  <2>1. CASE i = 0
    BY <1>7, <1>9, <1>13, <1>14, <1>15, <1>16, <2>1
  <2>2. CASE i = 1
    <3>1. q[2] = p[1]
      BY <1>8, <1>16
    <3> QED BY <1>9, <1>13, <1>15, <1>16, <2>2, <3>1
  <2>3. CASE i # 0 /\ i # 1
    <3> DEFINE m == i - 1
    <3>1. m \in 1 .. n /\ m \in 1 .. n + 1 /\ m + 1 \in 1 .. n + 1 /\ m + 1 = i
          /\ m \in 0 .. n /\ m \in 0 .. n + 1 /\ m + 1 \in 0 .. n + 1 /\ m # 0 /\ m + 1 # 1
      BY <1>2, <2>3
    <3> HIDE DEF m
    <3>2. q[i] = p[m] /\ q[i + 1] = p[m + 1]
      BY <1>8, <3>1
    <3>3. l.next[p[m]] = p[m + 1] /\ l.prev[p[m + 1]] = p[m]
      BY <1>6, <3>1
    <3>4. p[m] # HEAD /\ p[m + 1] # p[1]
      BY <1>3, <1>16, <3>1
    <3> QED BY <1>13, <1>14, <1>15, <3>1, <3>2, <3>3, <3>4
  <2> QED BY <2>1, <2>2, <2>3
<1>18. ASSUME NEW x \in Keys \ ToSet(f) PROVE a.next[x] = Null /\ a.prev[x] = Null
  <2>1. x \in Nodes /\ x # HEAD /\ x # k /\ x \in Keys \ ToSet(r)
    BY <1>4 DEF Nodes
  <2>2. x # p[1]
    <3>1. \A i \in 1 .. n : r[i] # x
      BY <1>2, <2>1 DEF ToSet
    <3>2. 1 = n + 1 \/ 1 \in 1 .. n
      BY <1>2
    <3> QED BY <1>3, <2>1, <3>1, <3>2
  <2> QED BY <1>6, <1>13, <2>1, <2>2
<1> QED BY <1>4, <1>5, <1>11, <1>17, <1>18 DEF IsChain, q, a, f

LEMMA MoveChain ==
  ASSUME NEW l, NEW r, IsChain(l, r), NEW k \in ToSet(r)
  PROVE  IsChain(MoveToFront(l, k), <<k>> \o Without(r, {k}))
<1>1. r \in Seq(Keys)
  BY DEF IsChain
<1>2. IsChain(Unlink(l, k), Without(r, {k}))
  BY UnlinkChain
<1>3. k \in Keys \ ToSet(Without(r, {k}))
  <2>1. ToSet(Without(r, {k})) = ToSet(r) \ {k}
    BY <1>1, WithoutProperties
  <2>2. ToSet(r) \subseteq Keys
    BY <1>1 DEF ToSet
  <2> QED BY <2>1, <2>2
<1> QED BY <1>2, <1>3, AddChain DEF MoveToFront

(* The node before the tail sentinel is the last of a chain. *)
LEMMA ChainLast ==
  ASSUME NEW l, NEW r, IsChain(l, r), r # << >>
  PROVE  l.prev[TAIL] = Last(r) /\ Last(r) \in ToSet(r)
<1> DEFINE n == Len(r)
<1>1. r \in Seq(Keys) /\ IsInjective(r) /\ n \in 1 .. n /\ n \in 0 .. n /\ DOMAIN r = 1 .. n
  BY DEF IsChain
<1>2. Path(r)[n + 1] = TAIL /\ Path(r)[n] = r[n]
  BY <1>1, PathProperties
<1>3. l.prev[Path(r)[n + 1]] = Path(r)[n]
  BY <1>1 DEF IsChain
<1> QED BY <1>1, <1>2, <1>3 DEF Last, ToSet

-----------------------------------------------------------------------------
(* Walking along a chain. *)

(* The nodes met are those of any function f that the links lead along. *)
LEMMA FollowsPath ==
  ASSUME NEW link, NEW from, NEW n \in Nat, NEW f \in [0 .. n -> Nodes], f[0] = from,
         \A i \in 1 .. n : f[i] = link[f[i - 1]]
  PROVE  Follow(link, from, n) = [i \in 1 .. n |-> f[i]]
<1> DEFINE Equation(g) ==
             g = [i \in 0 .. n |-> IF i = 0 THEN from
                                   ELSE IF g[i - 1] \in Nodes THEN link[g[i - 1]] ELSE Null]
           at == CHOOSE g : Equation(g)
<1>1. Equation(f)
  <2>1. ASSUME NEW i \in 0 .. n
        PROVE f[i] = IF i = 0 THEN from
                     ELSE IF f[i - 1] \in Nodes THEN link[f[i - 1]] ELSE Null
    <3>1. CASE i = 0
      BY <3>1
    <3>2. CASE i # 0
      <4>1. i \in 1 .. n /\ i - 1 \in 0 .. n
        BY <3>2
      <4> QED BY <3>2, <4>1
    <3> QED BY <3>1, <3>2
  <2> QED BY <2>1
<1>2. Equation(at)
  <2> HIDE DEF Equation
  <2> QED BY <1>1
<1>3. Follow(link, from, n) = [i \in 1 .. n |-> at[i]]
  BY DEF Follow
<1> HIDE DEF at
<1> DEFINE S == {i \in Nat : i <= n => at[i] = f[i]}
<1>4. 0 \in S
  <2>1. 0 \in 0 .. n
    OBVIOUS
  <2> QED BY <1>2, <2>1
<1>5. ASSUME NEW i \in Nat, i \in S PROVE i + 1 \in S
  <2> SUFFICES ASSUME i + 1 <= n PROVE at[i + 1] = f[i + 1]
    OBVIOUS
  <2>1. i + 1 \in 0 .. n /\ i + 1 \in 1 .. n /\ i + 1 # 0 /\ (i + 1) - 1 = i /\ i \in 0 .. n
    OBVIOUS
  <2>2. at[i] = f[i] /\ f[i] \in Nodes
    BY <1>5, <2>1
  <2>3. at[i + 1] = IF at[i] \in Nodes THEN link[at[i]] ELSE Null
    BY <1>2, <2>1
  <2>4. f[i + 1] = link[f[i]]
    BY <2>1
  <2> QED BY <2>2, <2>3, <2>4
<1>6. Nat \subseteq S
  <2> HIDE DEF S
  <2> QED BY <1>4, <1>5, SetInduction
<1>7. \A i \in 1 .. n : i \in Nat /\ i <= n
  OBVIOUS
<1>8. \A i \in 1 .. n : at[i] = f[i]
  BY <1>6, <1>7
<1> QED BY <1>3, <1>8

LEMMA ChainForward ==
  ASSUME NEW l, NEW r, IsChain(l, r)
  PROVE  /\ Follow(l.next, HEAD, Len(r)) = r
         /\ Follow(l.next, HEAD, Len(r) + 1)[Len(r) + 1] = TAIL
<1> DEFINE n == Len(r)
           p == Path(r)
<1>1. r \in Seq(Keys) /\ IsInjective(r) /\ n \in Nat
      /\ \A i \in 0 .. n : l.next[p[i]] = p[i + 1]
  BY DEF IsChain
<1>2. /\ p \in [0 .. n + 1 -> Nodes] /\ p[0] = HEAD /\ p[n + 1] = TAIL
      /\ \A i \in 1 .. n : p[i] = r[i]
  BY <1>1, PathProperties
<1>3. r = [i \in 1 .. n |-> r[i]]
  BY <1>1
<1> HIDE DEF n, p
<1>4. \A i \in 1 .. n + 1 : i - 1 \in 0 .. n /\ (i - 1) + 1 = i
  BY <1>1
<1>5. \A i \in 1 .. n + 1 : p[i] = l.next[p[i - 1]]
  BY <1>1, <1>4
<1>6. Follow(l.next, HEAD, n + 1) = [i \in 1 .. n + 1 |-> p[i]]
  <2>1. n + 1 \in Nat
    BY <1>1
  <2> QED BY <1>2, <1>5, <2>1, FollowsPath
<1> DEFINE q == [i \in 0 .. n |-> p[i]]
<1>7. q \in [0 .. n -> Nodes] /\ q[0] = HEAD /\ \A i \in 1 .. n : q[i] = l.next[q[i - 1]]
  <2>1. \A i \in 0 .. n : i \in 0 .. n + 1
    BY <1>1
  <2>2. \A i \in 1 .. n : i \in 1 .. n + 1 /\ i \in 0 .. n /\ i - 1 \in 0 .. n
    BY <1>1
  <2>3. 0 \in 0 .. n
    BY <1>1
  <2> QED BY <1>2, <1>5, <2>1, <2>2, <2>3
<1>8. Follow(l.next, HEAD, n) = [i \in 1 .. n |-> q[i]]
  <2> DEFINE link == l.next
  <2>1. n \in Nat
    BY <1>1
  <2>2. q \in [0 .. n -> Nodes] /\ q[0] = HEAD /\ \A i \in 1 .. n : q[i] = link[q[i - 1]]
    BY <1>7
  <2> HIDE DEF q, link
  <2>3. Follow(link, HEAD, n) = [i \in 1 .. n |-> q[i]]
    BY <2>1, <2>2, FollowsPath
  <2> QED BY <2>3 DEF link
<1>9. \A i \in 1 .. n : i \in 0 .. n
  BY <1>1
<1>10. n + 1 \in 1 .. n + 1
  BY <1>1
<1> QED BY <1>2, <1>3, <1>6, <1>8, <1>9, <1>10 DEF n

LEMMA ChainBackward ==
  ASSUME NEW l, NEW r, IsChain(l, r)
  PROVE  Follow(l.prev, TAIL, Len(r)) = Reverse(r)
<1> DEFINE n == Len(r)
           p == Path(r)
<1>1. r \in Seq(Keys) /\ IsInjective(r) /\ n \in Nat
      /\ \A i \in 0 .. n : l.prev[p[i + 1]] = p[i]
  BY DEF IsChain
<1>2. /\ p \in [0 .. n + 1 -> Nodes] /\ p[0] = HEAD /\ p[n + 1] = TAIL
      /\ \A i \in 1 .. n : p[i] = r[i]
  BY <1>1, PathProperties
<1>3. Reverse(r) = [i \in 1 .. n |-> r[(n - i) + 1]]
  BY DEF Reverse
<1> HIDE DEF n, p
<1> DEFINE q == [i \in 0 .. n |-> p[(n - i) + 1]]
<1>4. ASSUME NEW i \in 0 .. n PROVE q[i] = p[(n - i) + 1] /\ (n - i) + 1 \in 0 .. n + 1
  BY <1>1
<1>5. ASSUME NEW i \in 1 .. n
      PROVE /\ i \in 0 .. n /\ i - 1 \in 0 .. n /\ (n - i) + 1 \in 0 .. n
            /\ (n - (i - 1)) + 1 = ((n - i) + 1) + 1 /\ (n - i) + 1 \in 1 .. n
  BY <1>1
<1>6. q \in [0 .. n -> Nodes] /\ q[0] = TAIL /\ \A i \in 1 .. n : q[i] = l.prev[q[i - 1]]
  <2>1. \A i \in 0 .. n : p[(n - i) + 1] \in Nodes
    BY <1>2, <1>4
  <2>2. q \in [0 .. n -> Nodes]
    BY <2>1
  <2>3. q[0] = TAIL
    <3>1. 0 \in 0 .. n /\ (n - 0) + 1 = n + 1
      BY <1>1
    <3> QED BY <1>2, <3>1
  <2>4. ASSUME NEW i \in 1 .. n PROVE q[i] = l.prev[q[i - 1]]
    <3>1. q[i] = p[(n - i) + 1] /\ q[i - 1] = p[((n - i) + 1) + 1]
      BY <1>4, <1>5
    <3> HIDE DEF q
    <3> QED BY <1>1, <1>5, <3>1
  <2> HIDE DEF q
  <2> QED BY <2>2, <2>3, <2>4
<1>7. Follow(l.prev, TAIL, n) = [i \in 1 .. n |-> q[i]]
  <2> DEFINE link == l.prev
  <2>1. n \in Nat
    BY <1>1
  <2>2. q \in [0 .. n -> Nodes] /\ q[0] = TAIL /\ \A i \in 1 .. n : q[i] = link[q[i - 1]]
    BY <1>6
  <2> HIDE DEF q, link
  <2>3. Follow(link, TAIL, n) = [i \in 1 .. n |-> q[i]]
    BY <2>1, <2>2, FollowsPath
  <2> QED BY <2>3 DEF link
<1>8. \A i \in 1 .. n : q[i] = r[(n - i) + 1]
  BY <1>2, <1>4, <1>5
<1> QED BY <1>3, <1>7, <1>8 DEF n

(* A sequence without repetition is as long as the set of its elements. *)
LEMMA LengthIsCardinality ==
  ASSUME NEW V, NEW s \in Seq(V), IsInjective(s)
  PROVE  IsFiniteSet(ToSet(s)) /\ Cardinality(ToSet(s)) = Len(s)
<1> DEFINE n == Len(s)
<1>1. n \in Nat /\ DOMAIN s = 1 .. n /\ ToSet(s) = {s[i] : i \in 1 .. n}
  BY DEF ToSet
<1>2. IsFiniteSet(1 .. n) /\ Cardinality(1 .. n) = n
  BY <1>1, FS_Interval
<1>3. s \in [1 .. n -> ToSet(s)]
  <2>1. s = [i \in 1 .. n |-> s[i]]
    BY <1>1
  <2> QED BY <1>1, <2>1
<1>4. s \in Surjection(1 .. n, ToSet(s)) /\ s \in Injection(1 .. n, ToSet(s))
  BY <1>1, <1>3 DEF Surjection, Injection, IsInjective
<1> HIDE DEF n
<1> QED BY <1>2, <1>4, FS_Surjection DEF n

-----------------------------------------------------------------------------
(* The folds: unlinking the keys of a sample, linking those of a snapshot. *)

LEMMA SetToSeqProperties ==
  ASSUME NEW S, IsFiniteSet(S)
  PROVE  /\ SetToSeq(S) \in Seq(S) /\ IsInjective(SetToSeq(S))
         /\ ToSet(SetToSeq(S)) = S
<1> DEFINE n == Cardinality(S)
           q == SetToSeq(S)
<1>1. n \in Nat /\ ExistsBijection(1 .. n, S)
  BY FS_CardinalityType
<1>2. \E f \in [1 .. n -> S] : IsInjective(f)
  BY <1>1 DEF ExistsBijection, Bijection, Injection
<1>3. q \in [1 .. n -> S] /\ IsInjective(q)
  BY <1>2 DEF SetToSeq
<1> HIDE DEF q
<1>4. q \in Injection(1 .. n, S)
  BY <1>3 DEF Injection, IsInjective
<1>5. Cardinality(1 .. n) = n
  BY <1>1, FS_Interval
<1>6. q \in Surjection(1 .. n, S)
  <2> HIDE DEF n
  <2> QED BY <1>4, <1>5, FS_Injection DEF n
<1>7. q \in Seq(S)
  BY <1>1, <1>3
<1>8. ToSet(q) = S
  BY <1>3, <1>6 DEF Surjection, ToSet
<1> QED BY <1>3, <1>7, <1>8 DEF q

LinkSteps == [Links \X Keys -> Links]
UnlinkStep == [x \in Links \X Keys |-> Unlink(x[1], x[2])]
AddStep == [x \in Links \X Keys |-> AddFront(x[1], x[2])]

LEMMA StepTypes == UnlinkStep \in LinkSteps /\ AddStep \in LinkSteps
<1>1. ASSUME NEW x \in Links \X Keys
      PROVE Unlink(x[1], x[2]) \in Links /\ AddFront(x[1], x[2]) \in Links
  <2>1. x[1] \in Links /\ x[2] \in Keys
    OBVIOUS
  <2> QED BY <2>1, LinkTypes
<1> QED BY <1>1 DEF UnlinkStep, AddStep, LinkSteps

(* The fold's recursion, over sets of places of ks, has a solution.        *)
Solves(g, step, l, ks) ==
  /\ g \in [SUBSET (1 .. Len(ks)) -> Links]
  /\ g[{}] = l
  /\ \A t \in SUBSET (1 .. Len(ks)) :
       t # {} => /\ Max(t) \in 1 .. Len(ks)
                 /\ g[t] = step[<<g[t \ {Max(t)}], ks[Max(t)]>>]

LEMMA FoldSolves ==
  ASSUME NEW step \in LinkSteps, NEW l \in Links, NEW ks \in Seq(Keys)
  PROVE  \E g : Solves(g, step, l, ks)
<1> DEFINE n == Len(ks)
           h == [x \in Links \X (1 .. n) |-> step[<<x[1], ks[x[2]]>>]]
<1>1. n \in Nat /\ \A i \in 1 .. n : ks[i] \in Keys
  OBVIOUS
<1>2. h \in [Links \X (1 .. n) -> Links]
  <2>1. ASSUME NEW x \in Links \X (1 .. n) PROVE step[<<x[1], ks[x[2]]>>] \in Links
    <3>1. x[1] \in Links /\ x[2] \in 1 .. n /\ ks[x[2]] \in Keys
      BY <1>1
    <3> QED BY <3>1 DEF LinkSteps
  <2> QED BY <2>1
<1>3. PICK g : IsFold(g, Links, l, h, n)
  <2> HIDE DEF h, n
  <2> QED BY <1>1, <1>2, FoldExists
<1>4. g \in [SUBSET (1 .. n) -> Links] /\ g[{}] = l
  BY <1>3 DEF IsFold
<1>5. ASSUME NEW t \in SUBSET (1 .. n), t # {}
      PROVE Max(t) \in 1 .. n /\ g[t] = step[<<g[t \ {Max(t)}], ks[Max(t)]>>]
  <2>1. Max(t) = Greatest(t)
    BY DEF Greatest, Max
  <2>2. Greatest(t) \in 1 .. n
    BY <1>1, <1>5, GreatestOf
  <2>3. g[t \ {Greatest(t)}] \in Links /\ g[t] = h[<<g[t \ {Greatest(t)}], Greatest(t)>>]
    BY <1>3, <1>5 DEF IsFold
  <2>4. <<g[t \ {Greatest(t)}], Greatest(t)>> \in Links \X (1 .. n)
    BY <2>2, <2>3
  <2> HIDE DEF n
  <2> QED BY <2>1, <2>2, <2>3, <2>4
<1> QED BY <1>4, <1>5 DEF Solves

LEMMA UnlinkAllChain ==
  ASSUME NEW l, NEW r, IsChain(l, r), NEW gone \in SUBSET ToSet(r)
  PROVE  IsChain(UnlinkAll(l, gone), Without(r, gone))
<1> DEFINE ks == SetToSeq(gone)
           n == Len(ks)
           Equation(g) ==
             g = [t \in SUBSET DOMAIN ks |->
                    IF t = {} THEN l ELSE Unlink(g[t \ {Max(t)}], ks[Max(t)])]
           iter == CHOOSE g : Equation(g)
           First(i) == {ks[j] : j \in 1 .. i}
           Good(i) == IsChain(iter[1 .. i], Without(r, First(i)))
<1>1. l \in Links /\ r \in Seq(Keys) /\ IsInjective(r)
  BY DEF IsChain
<1>2. ToSet(r) \subseteq Keys /\ gone \subseteq Keys
  BY <1>1 DEF ToSet
<1>3. IsFiniteSet(gone)
  BY <1>1, LengthIsCardinality, FS_Subset
<1>4. ks \in Seq(gone) /\ IsInjective(ks) /\ ToSet(ks) = gone
  BY <1>3, SetToSeqProperties
<1> HIDE DEF ks
<1>5. ks \in Seq(Keys) /\ n \in Nat /\ DOMAIN ks = 1 .. n /\ \A i \in 1 .. n : ks[i] \in gone
  BY <1>2, <1>4, SeqMonotonic
<1>6. UnlinkAll(l, gone) = iter[1 .. n]
  BY <1>5 DEF UnlinkAll, FoldLeft, MapThenFoldSet, ks
<1>7. \E g : Equation(g)
  <2>1. PICK g : Solves(g, UnlinkStep, l, ks)
    BY <1>1, <1>5, StepTypes, FoldSolves
  <2>2. ASSUME NEW t \in SUBSET (1 .. n), t # {}
        PROVE g[t] = Unlink(g[t \ {Max(t)}], ks[Max(t)])
    <3>1. Max(t) \in 1 .. n /\ g[t] = UnlinkStep[<<g[t \ {Max(t)}], ks[Max(t)]>>]
      BY <2>1, <2>2 DEF Solves
    <3>2. g[t \ {Max(t)}] \in Links /\ ks[Max(t)] \in Keys
      BY <2>1, <1>2, <1>5, <3>1 DEF Solves
    <3>3. <<g[t \ {Max(t)}], ks[Max(t)]>> \in Links \X Keys
      BY <3>2
    <3> QED BY <3>1, <3>3 DEF UnlinkStep
  <2>3. g[{}] = l /\ g = [t \in SUBSET (1 .. n) |-> g[t]]
    BY <2>1 DEF Solves
  <2>4. Equation(g)
    BY <1>5, <2>2, <2>3
  <2> QED BY <2>4
<1>8. Equation(iter)
  <2> HIDE DEF Equation
  <2> QED BY <1>7
<1> HIDE DEF iter, n
<1> DEFINE S == {i \in Nat : i <= n => Good(i)}
<1>9. 0 \in S
  <2>1. 1 .. 0 = {} /\ First(0) = {}
    OBVIOUS
  <2>2. iter[1 .. 0] = l
    BY <1>8, <2>1
  <2>3. Without(r, {}) = r
    BY <1>1, WithoutNothing
  <2> QED BY <2>1, <2>2, <2>3
<1>10. ASSUME NEW i \in Nat, i \in S PROVE i + 1 \in S
  <2> SUFFICES ASSUME i + 1 <= n PROVE Good(i + 1)
    OBVIOUS
  <2>1. Good(i) /\ i + 1 \in 1 .. n /\ (i + 1) - 1 = i /\ \A j \in 1 .. i : j \in 1 .. n /\ j # i + 1
    BY <1>5, <1>10
  <2>2. iter[1 .. i + 1] = Unlink(iter[1 .. i], ks[i + 1])
    <3>1. Max(1 .. i + 1) = i + 1 /\ (1 .. i + 1) \ {i + 1} = 1 .. i
      BY <2>1, GreatestOfInterval DEF Greatest, Max
    <3>2. (1 .. i + 1) \in SUBSET (DOMAIN ks) /\ 1 .. i + 1 # {}
      <4>1. i + 1 \in 1 .. i + 1 /\ \A j \in 1 .. i + 1 : j \in 1 .. n
        BY <1>5
      <4> QED BY <1>5, <4>1
    <3> QED BY <1>8, <3>1, <3>2
  <2>3. First(i + 1) = First(i) \union {ks[i + 1]}
    <3>1. \A j \in 1 .. i + 1 : j \in 1 .. i \/ j = i + 1
      OBVIOUS
    <3>2. i + 1 \in 1 .. i + 1 /\ \A j \in 1 .. i : j \in 1 .. i + 1
      OBVIOUS
    <3> QED BY <3>1, <3>2
  <2>4. ks[i + 1] \in ToSet(Without(r, First(i)))
    <3>1. ks[i + 1] \in gone /\ ks[i + 1] \notin First(i)
      BY <1>4, <1>5, <2>1 DEF IsInjective
    <3>2. ToSet(Without(r, First(i))) = ToSet(r) \ First(i)
      BY <1>1, WithoutProperties
    <3> HIDE DEF First
    <3> QED BY <3>1, <3>2
  <2> HIDE DEF First
  <2>5. IsChain(Unlink(iter[1 .. i], ks[i + 1]), Without(Without(r, First(i)), {ks[i + 1]}))
    BY <2>1, <2>4, UnlinkChain
  <2>6. Without(Without(r, First(i)), {ks[i + 1]}) = Without(r, First(i + 1))
    BY <1>1, <2>3, WithoutTwice
  <2> QED BY <2>2, <2>5, <2>6
<1>11. Nat \subseteq S
  <2> HIDE DEF S
  <2> QED BY <1>9, <1>10, SetInduction
<1>12. Good(n)
  BY <1>5, <1>11
<1>13. First(n) = gone
  BY <1>4, <1>5 DEF ToSet
<1> QED BY <1>6, <1>12, <1>13

(* The keys of a snapshot end up in the list in reverse. *)
LEMMA LoadChain ==
  ASSUME NEW ks \in Seq(Keys), IsInjective(ks)
  PROVE  IsChain(FoldLeft(AddFront, EmptyList, ks), Reverse(ks))
<1> DEFINE n == Len(ks)
           Equation(g) ==
             g = [t \in SUBSET DOMAIN ks |->
                    IF t = {} THEN EmptyList ELSE AddFront(g[t \ {Max(t)}], ks[Max(t)])]
           iter == CHOOSE g : Equation(g)
           Latest(i) == [j \in 1 .. i |-> ks[(i - j) + 1]]
           Good(i) == IsChain(iter[1 .. i], Latest(i))
<1>1. n \in Nat /\ DOMAIN ks = 1 .. n /\ \A i \in 1 .. n : ks[i] \in Keys
  OBVIOUS
<1>2. FoldLeft(AddFront, EmptyList, ks) = iter[1 .. n]
  BY <1>1 DEF FoldLeft, MapThenFoldSet
<1>3. \E g : Equation(g)
  <2>1. PICK g : Solves(g, AddStep, EmptyList, ks)
    BY LinkTypes, StepTypes, FoldSolves
  <2>2. ASSUME NEW t \in SUBSET (1 .. n), t # {}
        PROVE g[t] = AddFront(g[t \ {Max(t)}], ks[Max(t)])
    <3>1. Max(t) \in 1 .. n /\ g[t] = AddStep[<<g[t \ {Max(t)}], ks[Max(t)]>>]
      BY <2>1, <2>2 DEF Solves
    <3>2. g[t \ {Max(t)}] \in Links /\ ks[Max(t)] \in Keys
      BY <2>1, <1>1, <3>1 DEF Solves
    <3>3. <<g[t \ {Max(t)}], ks[Max(t)]>> \in Links \X Keys
      BY <3>2
    <3> QED BY <3>1, <3>3 DEF AddStep
  <2>3. g[{}] = EmptyList /\ g = [t \in SUBSET (1 .. n) |-> g[t]]
    BY <2>1 DEF Solves
  <2>4. Equation(g)
    BY <1>1, <2>2, <2>3
  <2> QED BY <2>4
<1>4. Equation(iter)
  <2> HIDE DEF Equation
  <2> QED BY <1>3
<1> HIDE DEF iter, n
<1> DEFINE S == {i \in Nat : i <= n => Good(i)}
<1>5. 0 \in S
  <2>1. 1 .. 0 = {} /\ Latest(0) = << >>
    OBVIOUS
  <2>2. iter[1 .. 0] = EmptyList
    BY <1>4, <2>1
  <2> QED BY <2>1, <2>2, EmptyChain
<1>6. ASSUME NEW i \in Nat, i \in S PROVE i + 1 \in S
  <2> SUFFICES ASSUME i + 1 <= n PROVE Good(i + 1)
    OBVIOUS
  <2>1. Good(i) /\ i + 1 \in 1 .. n /\ (i + 1) - 1 = i
        /\ \A j \in 1 .. i : j \in 1 .. n /\ j # i + 1 /\ (i - j) + 1 \in 1 .. i
    BY <1>1, <1>6
  <2>2. iter[1 .. i + 1] = AddFront(iter[1 .. i], ks[i + 1])
    <3>1. Max(1 .. i + 1) = i + 1 /\ (1 .. i + 1) \ {i + 1} = 1 .. i
      BY <2>1, GreatestOfInterval DEF Greatest, Max
    <3>2. (1 .. i + 1) \in SUBSET (DOMAIN ks) /\ 1 .. i + 1 # {}
      <4>1. i + 1 \in 1 .. i + 1 /\ \A j \in 1 .. i + 1 : j \in 1 .. n
        BY <1>1
      <4> QED BY <1>1, <4>1
    <3> QED BY <1>4, <3>1, <3>2
  <2> DEFINE q == Latest(i)
             f == <<ks[i + 1]>> \o q
  <2>3. q \in Seq(Keys) /\ Len(q) = i /\ DOMAIN q = 1 .. i
        /\ \A j \in 1 .. i : q[j] = ks[(i - j) + 1]
    BY <1>1, <2>1
  <2>4. ks[i + 1] \in Keys \ ToSet(q)
    <3>1. ks[i + 1] \in Keys
      BY <1>1, <2>1
    <3>2. \A j \in 1 .. i : q[j] # ks[i + 1]
      BY <1>1, <2>1, <2>3 DEF IsInjective
    <3> HIDE DEF q
    <3> QED BY <2>3, <3>1, <3>2 DEF ToSet
  <2>5. IsChain(AddFront(iter[1 .. i], ks[i + 1]), f)
    <3> HIDE DEF q
    <3>1. IsChain(iter[1 .. i], q)
      BY <2>1 DEF q
    <3> QED BY <2>4, <3>1, AddChain
  <2>6. f = Latest(i + 1)
    <3> HIDE DEF q
    <3>1. f \in Seq(Keys) /\ Len(f) = i + 1 /\ f[1] = ks[i + 1]
          /\ \A j \in 2 .. i + 1 : f[j] = q[j - 1]
      BY <2>3, <2>4
    <3> HIDE DEF f
    <3>2. ASSUME NEW j \in 1 .. i + 1 PROVE f[j] = ks[((i + 1) - j) + 1]
      <4>1. CASE j = 1
        BY <3>1, <4>1
      <4>2. CASE j # 1
        <5>1. j \in 2 .. i + 1 /\ j - 1 \in 1 .. i /\ (i - (j - 1)) + 1 = ((i + 1) - j) + 1
          BY <4>2
        <5> QED BY <2>3, <3>1, <5>1
      <4> QED BY <4>1, <4>2
    <3>3. f = [j \in 1 .. i + 1 |-> f[j]]
      BY <3>1
    <3> QED BY <3>2, <3>3
  <2> HIDE DEF f, Latest
  <2> QED BY <2>2, <2>5, <2>6
<1>7. Nat \subseteq S
  <2> HIDE DEF S
  <2> QED BY <1>5, <1>6, SetInduction
<1>8. Good(n)
  BY <1>1, <1>7
<1>9. Latest(n) = Reverse(ks)
  BY DEF Reverse, n
<1> QED BY <1>2, <1>8, <1>9

-----------------------------------------------------------------------------
(* The invariant, and what each operation does to the promised store. *)

(* What LinkInv says of a dict e with insertion order o and links l that   *)
(* hold the keys of r.                                                     *)
Agree(e, o, l, r) ==
  /\ DOMAIN e \subseteq Keys /\ e \in [DOMAIN e -> Entries]
  /\ o \in Seq(Keys) /\ ToSet(o) = DOMAIN e /\ IsInjective(o)
  /\ IsChain(l, r) /\ ToSet(r) = DOMAIN e

LEMMA InvIsAgree == LinkInv <=> Agree(entry, order, list, Forward)
BY DEF LinkInv, TypeOK, Agree, Mapped, IsChain, Links

(* The recency order is read off the links, whatever they are. *)
LEMMA AgreeWalk ==
  ASSUME NEW e, NEW o, NEW l, NEW r, Agree(e, o, l, r)
  PROVE  /\ Follow(l.next, HEAD, Cardinality(DOMAIN e)) = r
         /\ Follow(l.next, HEAD, Cardinality(DOMAIN e) + 1)[Cardinality(DOMAIN e) + 1] = TAIL
         /\ Follow(l.prev, TAIL, Cardinality(DOMAIN e)) = Reverse(r)
<1>1. r \in Seq(Keys) /\ IsInjective(r)
  BY DEF Agree, IsChain
<1>2. Cardinality(DOMAIN e) = Len(r)
  BY <1>1, LengthIsCardinality DEF Agree
<1>3. IsChain(l, r)
  BY DEF Agree
<1> QED BY <1>2, <1>3, ChainForward, ChainBackward

LEMMA AgreeNext ==
  ASSUME NEW r, Agree(entry', order', list', r) PROVE LinkInv' /\ Forward' = r
<1>1. Forward' = r
  BY AgreeWalk DEF Forward, Mapped
<1> QED BY <1>1 DEF LinkInv, TypeOK, Agree, Mapped, IsChain, Links

(* The operators of an instance are the operators that it extends.         *)
LEMMA SameWithout == \A s, gone : Promised!Without(s, gone) = Without(s, gone)
BY DEF Promised!Without, Without

LEMMA SameOperators ==
  /\ \A S : Promised!Cardinality(S) = Cardinality(S)
  /\ \A S : Promised!Min(S) = Min(S)
  /\ \A s : Promised!ToSet(s) = ToSet(s)
  /\ \A s : Promised!Last(s) = Last(s)
  /\ \A s : Promised!Reverse(s) = Reverse(s)
<1>1. \A S : Promised!Cardinality(S) = Cardinality(S)
  BY DEF Promised!Cardinality, Cardinality
<1>2. \A S : Promised!Min(S) = Min(S)
  BY DEF Promised!Min, Min
<1>3. \A s : Promised!ToSet(s) = ToSet(s)
  BY DEF Promised!ToSet, ToSet
<1>4. \A s : Promised!Last(s) = Last(s)
  BY DEF Promised!Last, Last
<1>5. \A s : Promised!Reverse(s) = Reverse(s)
  BY DEF Promised!Reverse, Reverse
<1> QED BY <1>1, <1>2, <1>3, <1>4, <1>5

(* Keys that the dict gives up are unlinked. *)
LEMMA DropAgrees ==
  ASSUME NEW e, NEW o, NEW l, NEW r, Agree(e, o, l, r), NEW gone, NEW m,
         IsChain(m, Without(r, gone))
  PROVE  Agree([x \in DOMAIN e \ gone |-> e[x]], Without(o, gone), m, Without(r, gone))
<1>1. /\ Without(o, gone) \in Seq(Keys) /\ ToSet(Without(o, gone)) = ToSet(o) \ gone
      /\ IsInjective(Without(o, gone))
  BY WithoutProperties DEF Agree
<1>2. ToSet(Without(r, gone)) = ToSet(r) \ gone
  BY WithoutProperties DEF Agree, IsChain
<1> QED BY <1>1, <1>2 DEF Agree

(* A key written or read goes to the front. *)
LEMMA PutAgrees ==
  ASSUME NEW e, NEW o, NEW l, NEW r, Agree(e, o, l, r), NEW k \in Keys, NEW x \in Entries
  PROVE  LET l2 == IF k \in DOMAIN e THEN MoveToFront(l, k) ELSE AddFront(l, k)
             o2 == IF k \in DOMAIN e THEN o ELSE Append(o, k)
         IN Agree([y \in DOMAIN e \union {k} |-> IF y = k THEN x ELSE e[y]], o2, l2,
                  <<k>> \o Without(r, {k}))
<1> DEFINE l2 == IF k \in DOMAIN e THEN MoveToFront(l, k) ELSE AddFront(l, k)
           o2 == IF k \in DOMAIN e THEN o ELSE Append(o, k)
           e2 == [y \in DOMAIN e \union {k} |-> IF y = k THEN x ELSE e[y]]
           w == Without(r, {k})
<1>1. r \in Seq(Keys) /\ IsChain(l, r) /\ ToSet(r) = DOMAIN e
  BY DEF Agree, IsChain
<1>2. w \in Seq(Keys) /\ ToSet(w) = ToSet(r) \ {k}
  BY <1>1, WithoutProperties
<1>3. ToSet(<<k>> \o w) = DOMAIN e \union {k}
  <2>1. ToSet(<<k>> \o w) = ToSet(w) \union {k}
    BY <1>2, FrontProperties
  <2> QED BY <1>1, <1>2, <2>1
<1>4. IsChain(l2, <<k>> \o w)
  <2>1. CASE k \in DOMAIN e
    BY <1>1, <2>1, MoveChain
  <2>2. CASE k \notin DOMAIN e
    <3>1. w = r
      BY <1>1, <2>2, WithoutNothing
    <3>2. k \in Keys \ ToSet(r)
      BY <1>1, <2>2
    <3> QED BY <1>1, <2>2, <3>1, <3>2, AddChain
  <2> QED BY <2>1, <2>2
<1>5. o2 \in Seq(Keys) /\ ToSet(o2) = DOMAIN e \union {k} /\ IsInjective(o2)
  <2>1. CASE k \in DOMAIN e
    BY <2>1 DEF Agree
  <2>2. CASE k \notin DOMAIN e
    <3>1. /\ Append(o, k) \in Seq(Keys)
          /\ ToSet(Append(o, k)) = ToSet(o) \union {k}
          /\ IsInjective(o) /\ k \notin ToSet(o) => IsInjective(Append(o, k))
      BY AppendedSet DEF Agree
    <3> QED BY <2>2, <3>1 DEF Agree
  <2> QED BY <2>1, <2>2
<1>6. DOMAIN e2 = DOMAIN e \union {k} /\ e2 \in [DOMAIN e \union {k} -> Entries]
      /\ DOMAIN e \union {k} \subseteq Keys
  BY DEF Agree
<1> HIDE DEF e2, o2, l2, w
<1>7. Agree(e2, o2, l2, <<k>> \o w)
  BY <1>3, <1>4, <1>5, <1>6 DEF Agree
<1> QED BY <1>7 DEF e2, o2, l2, w

LEMMA LinkInit == Init => LinkInv /\ Promised!Init
<1> SUFFICES ASSUME Init PROVE LinkInv /\ Promised!Init
  OBVIOUS
<1>1. DOMAIN << >> = {} /\ << >> \in Seq(Keys) /\ << >> \in [{} -> Entries]
  OBVIOUS
<1>2. ToSet(<< >>) = {} /\ IsInjective(<< >>)
  BY <1>1 DEF ToSet, IsInjective
<1>3. Agree(<< >>, << >>, EmptyList, << >>)
  BY <1>1, <1>2, EmptyChain DEF Agree
<1>4. Forward = << >>
  BY <1>3, AgreeWalk DEF Init, Forward, Mapped
<1>5. LinkInv
  BY <1>3, <1>4, InvIsAgree DEF Init
<1> QED BY <1>4, <1>5 DEF Init, Promised!Init, Promised!Modes

-----------------------------------------------------------------------------
(* Every step keeps the invariant and is a step of the promised store. *)

LEMMA SameStore ==
  ASSUME LinkInv, UNCHANGED <<entry, order, list>> PROVE LinkInv' /\ Forward' = Forward
<1>1. Agree(entry', order', list', Forward)
  BY InvIsAgree
<1> QED BY <1>1, AgreeNext

LEMMA DiscardStep ==
  ASSUME LinkInv, NEW gone, IsChain(list', Without(Forward, gone)), DictDel(gone)
  PROVE  LinkInv' /\ Promised!Discard(gone)
<1>1. entry' = [x \in DOMAIN entry \ gone |-> entry[x]] /\ order' = Without(order, gone)
  BY DEF DictDel, Mapped
<1>2. Agree(entry', order', list', Without(Forward, gone))
  BY <1>1, InvIsAgree, DropAgrees
<1>3. LinkInv' /\ Forward' = Without(Forward, gone)
  BY <1>2, AgreeNext
<1> QED BY <1>1, <1>3, SameWithout DEF Promised!Discard, Promised!Drop

LEMMA AbsentStep ==
  ASSUME LinkInv, NEW k \in Keys, NEW answer \in {Miss, FALSE}, Absent(k, answer)
  PROVE  LinkInv' /\ (Promised!GetMiss(k) \/ Promised!NoSuchKey(k))
<1>1. LinkInv' /\ Forward' = Forward
  BY SameStore DEF Absent
<1> QED BY <1>1 DEF Absent, Mapped, Promised!GetMiss, Promised!NoSuchKey, Promised!Stored

LEMMA ChainOfKeys ==
  ASSUME LinkInv
  PROVE  /\ IsChain(list, Forward) /\ ToSet(Forward) = DOMAIN entry
         /\ Forward \in Seq(Keys) /\ order \in Seq(Keys)
         /\ DOMAIN entry \subseteq Keys
BY DEF LinkInv, TypeOK, IsChain, Mapped

(* A dict or an order without no key is the same. *)
LEMMA NothingGone ==
  ASSUME LinkInv
  PROVE  /\ Without(Forward, {}) = Forward /\ Without(order, {}) = order
         /\ [x \in DOMAIN entry \ {} |-> entry[x]] = entry
<1>1. Without(Forward, {}) = Forward /\ Without(order, {}) = order
  BY ChainOfKeys, WithoutNothing
<1>2. DOMAIN entry \ {} = DOMAIN entry /\ entry = [x \in DOMAIN entry |-> entry[x]]
  BY DEF LinkInv, TypeOK, Mapped
<1> QED BY <1>1, <1>2

LEMMA GetExpiredStep ==
  ASSUME LinkInv, NEW k \in Keys, GetExpired(k)
  PROVE  LinkInv' /\ Promised!GetExpired(k)
<1>1. k \in DOMAIN entry /\ IsExpired(k) /\ ret' = Miss /\ UNCHANGED <<mode, clock>>
  BY DEF GetExpired, Mapped
<1>2. Promised!IsExpired(entry[k], clock)
  BY <1>1 DEF IsExpired, Promised!IsExpired
<1>3. CASE mode = "authoritative"
  <2>1. list' = Unlink(list, k) /\ DictDel({k})
    BY <1>3 DEF GetExpired
  <2>2. IsChain(list', Without(Forward, {k}))
    BY <1>1, <2>1, ChainOfKeys, UnlinkChain
  <2>3. LinkInv' /\ Promised!Discard({k})
    BY <2>1, <2>2, DiscardStep
  <2> QED BY <1>1, <1>2, <1>3, <2>3 DEF Promised!GetExpired, Promised!Stored
<1>4. CASE mode # "authoritative"
  <2>1. UNCHANGED <<entry, order, list>>
    BY <1>4 DEF GetExpired
  <2>2. LinkInv' /\ Forward' = Forward
    BY <2>1, SameStore
  <2>3. Promised!Discard({})
    BY <2>1, <2>2, NothingGone, SameWithout DEF Promised!Discard, Promised!Drop
  <2> QED BY <1>1, <1>2, <1>4, <2>2, <2>3 DEF Promised!GetExpired, Promised!Stored
<1> QED BY <1>3, <1>4

LEMMA GetHitStep ==
  ASSUME LinkInv, NEW k \in Keys, GetHit(k) PROVE LinkInv' /\ Promised!GetHit(k)
<1>1. /\ k \in DOMAIN entry /\ ~ IsExpired(k) /\ list' = MoveToFront(list, k)
      /\ ret' = entry[k].value /\ UNCHANGED <<mode, clock, entry, order>>
  BY DEF GetHit, Mapped
<1>2. IsChain(list', <<k>> \o Without(Forward, {k}))
  BY <1>1, ChainOfKeys, MoveChain
<1>3. ToSet(<<k>> \o Without(Forward, {k})) = DOMAIN entry
  <2>1. /\ Without(Forward, {k}) \in Seq(Keys)
        /\ ToSet(Without(Forward, {k})) = ToSet(Forward) \ {k}
    BY ChainOfKeys, WithoutProperties
  <2>2. ToSet(<<k>> \o Without(Forward, {k})) = ToSet(Without(Forward, {k})) \union {k}
    BY <2>1, FrontProperties
  <2> QED BY <1>1, <2>1, <2>2, ChainOfKeys
<1>4. Agree(entry', order', list', <<k>> \o Without(Forward, {k}))
  BY <1>1, <1>2, <1>3, InvIsAgree DEF Agree
<1>5. LinkInv' /\ Forward' = <<k>> \o Without(Forward, {k})
  BY <1>4, AgreeNext
<1>6. ~ Promised!IsExpired(entry[k], clock)
  BY <1>1 DEF IsExpired, Promised!IsExpired
<1> QED BY <1>1, <1>5, <1>6, SameWithout
           DEF Promised!GetHit, Promised!MoveToFront, Promised!Stored

LEMMA DeleteStep ==
  ASSUME LinkInv, NEW k \in Keys, Delete(k) PROVE LinkInv' /\ Promised!Delete(k)
<1>1. /\ k \in DOMAIN entry /\ list' = Unlink(list, k) /\ DictDel({k})
      /\ ret' = TRUE /\ UNCHANGED <<mode, clock>>
  BY DEF Delete, Mapped
<1>2. IsChain(list', Without(Forward, {k}))
  BY <1>1, ChainOfKeys, UnlinkChain
<1>3. LinkInv' /\ Promised!Discard({k})
  BY <1>1, <1>2, DiscardStep
<1> QED BY <1>1, <1>3 DEF Promised!Delete, Promised!Stored

LEMMA SetExpireStep ==
  ASSUME LinkInv, NEW k \in Keys, NEW t \in Deadlines, SetExpire(k, t)
  PROVE  LinkInv' /\ Promised!SetExpire(k, t)
<1>1. /\ k \in DOMAIN entry /\ t # Never /\ entry' = [entry EXCEPT ![k].expire_at = t]
      /\ ret' = TRUE /\ UNCHANGED <<mode, clock, order, list>>
  BY DEF SetExpire, Mapped
<1>2. DOMAIN entry' = DOMAIN entry /\ entry' \in [DOMAIN entry -> Entries]
  BY <1>1 DEF LinkInv, TypeOK, Entries, Mapped
<1>3. Agree(entry', order', list', Forward)
  BY <1>1, <1>2, InvIsAgree DEF Agree
<1>4. LinkInv' /\ Forward' = Forward
  BY <1>3, AgreeNext
<1> QED BY <1>1, <1>4 DEF Promised!SetExpire, Promised!Stored

LEMMA SampleStep ==
  ASSUME LinkInv, NEW drawn \in SUBSET Mapped, SampleExpired(drawn)
  PROVE  LinkInv' /\ Promised!SampleExpired(drawn)
<1> DEFINE gone == {k \in drawn : IsExpired(k)}
<1>1. /\ mode = "authoritative" /\ Cardinality(drawn) = Min({SampleSize, Cardinality(Mapped)})
      /\ list' = UnlinkAll(list, gone) /\ DictDel(gone) /\ UNCHANGED <<mode, clock, ret>>
  BY DEF SampleExpired
<1>2. gone = {k \in drawn : Promised!IsExpired(entry[k], clock)}
  BY DEF IsExpired, Promised!IsExpired
<1>3. IsChain(list', Without(Forward, gone))
  <2>1. gone \in SUBSET ToSet(Forward)
    BY ChainOfKeys DEF Mapped
  <2> HIDE DEF gone
  <2> QED BY <1>1, <2>1, ChainOfKeys, UnlinkAllChain
<1>4. LinkInv' /\ Promised!Discard(gone)
  <2> HIDE DEF gone
  <2> QED BY <1>1, <1>3, DiscardStep
<1>5. Promised!Discard({k \in drawn : Promised!IsExpired(entry[k], clock)})
  <2> HIDE DEF gone
  <2> QED BY <1>2, <1>4
<1>6. Promised!Cardinality(drawn) =
        Promised!Min({SampleSize, Promised!Cardinality(Promised!Stored)})
  BY <1>1, SameOperators DEF Promised!Stored, Mapped
<1> QED BY <1>1, <1>4, <1>5, <1>6 DEF Promised!SampleExpired, Promised!Stored, Mapped

LEMMA LoadStep ==
  ASSUME LinkInv, NEW ks \in Snapshots, NEW e \in Entries, LoadSnapshot(ks, e)
  PROVE  LinkInv' /\ Promised!LoadSnapshot(ks, e)
<1>1. /\ entry' = [k \in ToSet(ks) |-> e] /\ order' = ks
      /\ list' = FoldLeft(AddFront, EmptyList, ks) /\ ret' = Miss /\ UNCHANGED <<mode, clock>>
  BY DEF LoadSnapshot
<1>2. ks \in Seq(Keys) /\ IsInjective(ks)
  BY DEF Snapshots
<1>3. ToSet(ks) \subseteq Keys
  BY <1>2 DEF ToSet
<1>4. IsChain(list', Reverse(ks)) /\ ToSet(Reverse(ks)) = ToSet(ks)
  BY <1>1, <1>2, LoadChain, ReverseProperties
<1>5. Agree(entry', order', list', Reverse(ks))
  BY <1>1, <1>2, <1>3, <1>4 DEF Agree
<1>6. LinkInv' /\ Forward' = Reverse(ks)
  BY <1>5, AgreeNext
<1> QED BY <1>1, <1>6, SameOperators DEF Promised!LoadSnapshot

(* A write that evicts nothing. *)
LEMMA PutStep ==
  ASSUME LinkInv, NEW k \in Keys, NEW v \in Values, NEW t \in Deadlines, NEW evict,
         DictPut(k, [value |-> v, expire_at |-> t]),
         list' = IF k \in Mapped THEN MoveToFront(list, k) ELSE AddFront(list, k),
         ret' = Miss, UNCHANGED <<mode, clock>>,
         Promised!Victims(k, evict) = {}
  PROVE  LinkInv' /\ Promised!Insert(k, v, t, evict)
<1> DEFINE x == [value |-> v, expire_at |-> t]
           e2 == [y \in DOMAIN entry \union {k} |-> IF y = k THEN x ELSE entry[y]]
           o2 == IF k \in DOMAIN entry THEN order ELSE Append(order, k)
           q == <<k>> \o Without(Forward, {k})
<1>1. x \in Entries
  BY DEF Entries
<1> HIDE DEF x
<1>2. entry' = e2 /\ order' = o2
  BY DEF DictPut, Mapped, x
<1>3. Agree(entry', order', list', q)
  BY <1>1, <1>2, InvIsAgree, PutAgrees DEF Mapped
<1>4. LinkInv' /\ Forward' = q
  BY <1>3, AgreeNext
<1>5. Promised!Put(entry, k, x) = e2
  BY DEF Promised!Put
<1>6. Promised!Drop(e2, {}) = e2
  <2>1. DOMAIN e2 \ {} = DOMAIN e2
    OBVIOUS
  <2>2. e2 = [y \in DOMAIN e2 |-> e2[y]]
    OBVIOUS
  <2> HIDE DEF e2
  <2> QED BY <2>1, <2>2 DEF Promised!Drop
<1>7. o2 \in Seq(Keys) /\ q \in Seq(Keys)
  BY <1>2, <1>3 DEF Agree, IsChain
<1> HIDE DEF e2, o2, q
<1>8. Promised!Without(o2, {}) = o2 /\ Promised!Without(q, {}) = q
  BY <1>7, SameWithout, WithoutNothing
<1>9. Promised!MoveToFront(Forward, k) = q
  BY SameWithout DEF Promised!MoveToFront, q
<1>10. (IF k \in Promised!Stored THEN order ELSE Append(order, k)) = o2
  BY DEF Promised!Stored, o2
<1> QED BY <1>2, <1>4, <1>5, <1>6, <1>8, <1>9, <1>10 DEF Promised!Insert, x

LEMMA OverwriteStep ==
  ASSUME LinkInv, NEW k \in Keys, NEW v \in Values, NEW t \in Deadlines, Overwrite(k, v, t)
  PROVE  LinkInv' /\ Promised!Set(k, v, t)
<1>1. /\ k \in Mapped /\ DictPut(k, [value |-> v, expire_at |-> t])
      /\ list' = MoveToFront(list, k) /\ ret' = Miss /\ UNCHANGED <<mode, clock>>
  BY DEF Overwrite
<1>2. Promised!Victims(k, TRUE) = {}
  BY <1>1 DEF Promised!Victims, Promised!Stored, Mapped
<1>3. LinkInv' /\ Promised!Insert(k, v, t, TRUE)
  BY <1>1, <1>2, PutStep
<1> QED BY <1>3 DEF Promised!Set

LEMMA ExtendStep ==
  ASSUME LinkInv, NEW k \in Keys, NEW v \in Values, NEW t \in Deadlines,
         NEW evict \in BOOLEAN, Extend(k, v, t, evict)
  PROVE  LinkInv' /\ (Promised!Set(k, v, t) \/ Promised!ApplySet(k, v, t))
<1>1. /\ k \notin Mapped /\ ~ (evict /\ Cardinality(Mapped) + 1 > MaxSize)
      /\ DictPut(k, [value |-> v, expire_at |-> t])
      /\ list' = AddFront(list, k) /\ ret' = Miss /\ UNCHANGED <<mode, clock>>
  BY DEF Extend
<1>2. Promised!Victims(k, evict) = {}
  BY <1>1, SameOperators DEF Promised!Victims, Promised!Stored, Mapped
<1>3. LinkInv' /\ Promised!Insert(k, v, t, evict)
  BY <1>1, <1>2, PutStep
<1>4. CASE evict = TRUE
  BY <1>3, <1>4 DEF Promised!Set
<1>5. CASE evict = FALSE
  BY <1>3, <1>5 DEF Promised!ApplySet
<1> QED BY <1>4, <1>5

(* A write that evicts: the node before the tail is the promised victim.   *)
LEMMA ReplaceStep ==
  ASSUME LinkInv, NEW k \in Keys, NEW v \in Values, NEW t \in Deadlines, Replace(k, v, t)
  PROVE  LinkInv' /\ Promised!Set(k, v, t)
<1> DEFINE x == [value |-> v, expire_at |-> t]
           e2 == [y \in DOMAIN entry \union {k} |-> IF y = k THEN x ELSE entry[y]]
           linked == AddFront(list, k)
           lru == linked.prev[TAIL]
           q == <<k>> \o Forward
<1>1. /\ k \notin DOMAIN entry /\ Cardinality(DOMAIN entry) + 1 > MaxSize
      /\ entry' = [y \in (DOMAIN entry \union {k}) \ {lru} |-> IF y = k THEN x ELSE entry[y]]
      /\ order' = Without(Append(order, k), {lru})
      /\ list' = Unlink(linked, lru) /\ ret' = lru /\ UNCHANGED <<mode, clock>>
  BY DEF Replace, Mapped
<1>2. x \in Entries
  BY DEF Entries
<1> HIDE DEF x, lru, linked
<1>3. Without(Forward, {k}) = Forward
  <2>1. ToSet(Forward) \intersect {k} = {}
    BY <1>1, ChainOfKeys
  <2> QED BY <2>1, ChainOfKeys, WithoutNothing
<1>4. Agree(e2, Append(order, k), linked, q)
  BY <1>1, <1>2, <1>3, InvIsAgree, PutAgrees DEF linked
<1>5. IsChain(linked, q) /\ q \in Seq(Keys) /\ q # << >>
  <2>1. Len(q) = Len(Forward) + 1 /\ Len(Forward) \in Nat
    BY ChainOfKeys
  <2>2. q # << >>
    BY <2>1
  <2> HIDE DEF q
  <2> QED BY <1>4, <2>2 DEF Agree, IsChain
<1>6. lru = Last(q) /\ lru \in ToSet(q)
  <2> HIDE DEF q
  <2> QED BY <1>5, ChainLast DEF lru
<1>7. IsChain(list', Without(q, {lru}))
  <2> HIDE DEF q
  <2> QED BY <1>1, <1>5, <1>6, UnlinkChain
<1>8. DOMAIN e2 = DOMAIN entry \union {k}
  OBVIOUS
<1>9. entry' = [y \in DOMAIN e2 \ {lru} |-> e2[y]]
  BY <1>1
<1> HIDE DEF e2, q
<1>10. Agree(entry', order', list', Without(q, {lru}))
  <2>1. Agree([y \in DOMAIN e2 \ {lru} |-> e2[y]], Without(Append(order, k), {lru}),
              list', Without(q, {lru}))
    BY <1>4, <1>7, DropAgrees
  <2>2. order' = Without(Append(order, k), {lru})
    BY <1>1
  <2> QED BY <1>9, <2>1, <2>2
<1>11. LinkInv' /\ Forward' = Without(q, {lru})
  BY <1>10, AgreeNext
<1>12. Promised!Victims(k, TRUE) = {lru}
  BY <1>1, <1>6, SameOperators DEF Promised!Victims, Promised!Stored, q
<1>13. Promised!Drop(Promised!Put(entry, k, x), {lru}) = entry'
  BY <1>9 DEF Promised!Drop, Promised!Put, e2
<1>14. Promised!Without(IF k \in Promised!Stored THEN order ELSE Append(order, k), {lru}) = order'
  BY <1>1, SameWithout DEF Promised!Stored
<1>15. Promised!Without(Promised!MoveToFront(Forward, k), {lru}) = Forward'
  BY <1>3, <1>11, SameWithout DEF Promised!MoveToFront, q
<1>16. ret' = (CHOOSE y \in {lru} : TRUE) /\ {lru} # {}
  BY <1>1
<1> QED BY <1>1, <1>11, <1>12, <1>13, <1>14, <1>15, <1>16
           DEF Promised!Set, Promised!Insert, x

LEMMA CallStep ==
  ASSUME LinkInv, NEW k \in Keys, Call(k) PROVE LinkInv' /\ Promised!Call(k)
<1>1. CASE GetExpired(k)
  BY <1>1, GetExpiredStep DEF Promised!Call, Promised!Get
<1>2. CASE GetHit(k)
  BY <1>2, GetHitStep DEF Promised!Call, Promised!Get
<1>3. CASE Delete(k)
  BY <1>3, DeleteStep DEF Promised!Call
<1>4. ASSUME NEW answer \in {Miss, FALSE}, Absent(k, answer)
      PROVE LinkInv' /\ Promised!Call(k)
  BY <1>4, AbsentStep DEF Promised!Call, Promised!Get
<1>5. ASSUME NEW t \in Deadlines, SetExpire(k, t) PROVE LinkInv' /\ Promised!Call(k)
  BY <1>5, SetExpireStep DEF Promised!Call, Promised!Deadlines, Deadlines
<1>6. ASSUME NEW t \in Deadlines, NEW v \in Values, Insert(k, v, t)
      PROVE LinkInv' /\ Promised!Call(k)
  <2>1. LinkInv' /\ (Promised!Set(k, v, t) \/ Promised!ApplySet(k, v, t))
    BY <1>6, OverwriteStep, ExtendStep, ReplaceStep DEF Insert
  <2> QED BY <2>1 DEF Promised!Call, Promised!Deadlines, Deadlines
<1> QED BY <1>1, <1>2, <1>3, <1>4, <1>5, <1>6 DEF Call

LEMMA LinkStep ==
  LinkInv /\ [Next]_vars => LinkInv' /\ [Promised!Next]_(Promised!vars)
<1> SUFFICES ASSUME LinkInv, [Next]_vars
             PROVE LinkInv' /\ [Promised!Next]_(Promised!vars)
  OBVIOUS
<1>1. ASSUME NEW k \in Keys, Call(k) PROVE LinkInv' /\ Promised!Next
  BY <1>1, CallStep DEF Promised!Next
<1>2. ASSUME NEW drawn \in SUBSET Mapped, SampleExpired(drawn) PROVE LinkInv' /\ Promised!Next
  BY <1>2, SampleStep DEF Promised!Next, Promised!Stored, Mapped
<1>3. ASSUME NEW ks \in Snapshots, NEW e \in Entries, LoadSnapshot(ks, e)
      PROVE LinkInv' /\ Promised!Next
  <2>1. LinkInv' /\ Promised!LoadSnapshot(ks, e)
    BY <1>3, LoadStep
  <2>2. e \in Promised!Entries
    BY DEF Entries, Deadlines, Promised!Entries, Promised!Deadlines
  <2>3. ks \in Promised!Snapshots
    BY SameOperators DEF Snapshots, Promised!Snapshots, IsInjective, Promised!IsInjective
  <2> QED BY <2>1, <2>2, <2>3 DEF Promised!Next
<1>4. CASE Promote
  <2>1. LinkInv' /\ Forward' = Forward
    BY <1>4, SameStore DEF Promote
  <2> QED BY <1>4, <2>1 DEF Promote, Promised!Promote, Promised!Next
<1>5. CASE Tick
  <2>1. LinkInv' /\ Forward' = Forward
    BY <1>5, SameStore DEF Tick
  <2> QED BY <1>5, <2>1 DEF Tick, Promised!Tick, Promised!Next
<1>6. CASE UNCHANGED vars
  <2>1. LinkInv' /\ Forward' = Forward
    BY <1>6, SameStore DEF vars
  <2> QED BY <1>6, <2>1 DEF vars, Promised!vars
<1> QED BY <1>1, <1>2, <1>3, <1>4, <1>5, <1>6 DEF Next

LEMMA LinkInvAlways == Spec => []LinkInv
<1>1. Init => LinkInv
  BY LinkInit
<1>2. LinkInv /\ [Next]_vars => LinkInv'
  BY LinkStep
<1> QED BY <1>1, <1>2, PTL DEF Spec

(* The dict's entries, its order and every link keep their types; no link  *)
(* ever leads to something that is neither a node nor None.                *)
THEOREM TypeCorrect == Spec => []TypeOK
<1>1. LinkInv => TypeOK
  BY DEF LinkInv
<1> QED BY <1>1, LinkInvAlways, PTL

(* Walking the links either way from a sentinel meets exactly the keys of  *)
(* the dict and ends at the other sentinel, after any sequence of reads,   *)
(* writes, evictions, samples and snapshots.                               *)
THEOREM ListAgrees == Spec => []ListMatchesMap
<1>1. LinkInv => ListMatchesMap
  <2> SUFFICES ASSUME LinkInv PROVE ListMatchesMap
    OBVIOUS
  <2>1. Agree(entry, order, list, Forward)
    BY InvIsAgree
  <2>2. /\ Follow(list.next, HEAD, Cardinality(Mapped) + 1)[Cardinality(Mapped) + 1] = TAIL
        /\ Backward = Reverse(Forward)
    BY <2>1, AgreeWalk DEF Backward, Mapped
  <2>3. \A k \in Keys \ Mapped : list.next[k] = Null /\ list.prev[k] = Null
    BY DEF LinkInv, IsChain
  <2> QED BY <2>2, <2>3 DEF ListMatchesMap, LinkInv
<1> QED BY <1>1, LinkInvAlways, PTL

(* The linked list implements the promised store: each operation on dict   *)
(* and links is one of LRUCache, with the recency order that the links     *)
(* give; so that what is proved of LRUCache holds of the list as coded.    *)
THEOREM Implements == Spec => ImplementsLRU
<1>1. Init => Promised!Init
  BY LinkInit
<1>2. LinkInv /\ [Next]_vars => [Promised!Next]_(Promised!vars)
  BY LinkStep
<1> QED BY <1>1, <1>2, LinkInvAlways, PTL DEF Spec, ImplementsLRU, Promised!Spec
=============================================================================
