--------------------------- MODULE LRUCacheProofs ---------------------------
(***************************************************************************)
(* Theorems about LRUCache, for any keys, values and sizes.                *)
(***************************************************************************)
EXTENDS LRUCache, SequenceTheorems, DataLemmas

(* The most recent key goes in front, the others keep their places. *)
LEMMA MoveToFrontProperties ==
  ASSUME NEW V, NEW s \in Seq(V), NEW k \in V
  PROVE  /\ MoveToFront(s, k) \in Seq(V)
         /\ ToSet(MoveToFront(s, k)) = ToSet(s) \union {k}
         /\ IsInjective(s) => IsInjective(MoveToFront(s, k))
<1>1. /\ Without(s, {k}) \in Seq(V)
      /\ ToSet(Without(s, {k})) = ToSet(s) \ {k}
      /\ IsInjective(s) => IsInjective(Without(s, {k}))
  BY WithoutProperties
<1>2. /\ <<k>> \o Without(s, {k}) \in Seq(V)
      /\ ToSet(<<k>> \o Without(s, {k})) = ToSet(Without(s, {k})) \union {k}
      /\ IsInjective(Without(s, {k})) /\ k \notin ToSet(Without(s, {k}))
           => IsInjective(<<k>> \o Without(s, {k}))
  BY <1>1, FrontProperties
<1> QED BY <1>1, <1>2 DEF MoveToFront

(* The dict and its two orders, which every operation changes together.    *)

LRUInv == TypeOK /\ OrdersMatchMap

(* What LRUInv says of a dict e with insertion order o and recency r. *)
Orders(e, o, r) ==
  /\ DOMAIN e \subseteq Keys /\ e \in [DOMAIN e -> Entries]
  /\ o \in Seq(Keys) /\ ToSet(o) = DOMAIN e /\ IsInjective(o)
  /\ r \in Seq(Keys) /\ ToSet(r) = DOMAIN e /\ IsInjective(r)

LEMMA InvIsOrders ==
  LRUInv <=> /\ Orders(entry, order, recency)
             /\ mode \in Modes /\ clock \in 0 .. MaxTime
             /\ ret \in Values \union Keys \union BOOLEAN \union {Miss}
BY DEF LRUInv, TypeOK, OrdersMatchMap, Orders, Stored

LEMMA DropOrders ==
  ASSUME NEW e, NEW o, NEW r, Orders(e, o, r), NEW gone
  PROVE  Orders(Drop(e, gone), Without(o, gone), Without(r, gone))
<1>1. /\ DOMAIN Drop(e, gone) = DOMAIN e \ gone
      /\ Drop(e, gone) \in [DOMAIN e \ gone -> Entries]
  BY DEF Orders, Drop
<1>2. /\ Without(o, gone) \in Seq(Keys) /\ ToSet(Without(o, gone)) = ToSet(o) \ gone
      /\ IsInjective(Without(o, gone))
  BY WithoutProperties DEF Orders
<1>3. /\ Without(r, gone) \in Seq(Keys) /\ ToSet(Without(r, gone)) = ToSet(r) \ gone
      /\ IsInjective(Without(r, gone))
  BY WithoutProperties DEF Orders
<1> QED BY <1>1, <1>2, <1>3 DEF Orders

LEMMA TouchOrders ==
  ASSUME NEW e, NEW o, NEW r, Orders(e, o, r), NEW k \in DOMAIN e
  PROVE  Orders(e, o, MoveToFront(r, k))
<1>1. k \in Keys /\ DOMAIN e \union {k} = DOMAIN e
  BY DEF Orders
<1>2. /\ MoveToFront(r, k) \in Seq(Keys)
      /\ ToSet(MoveToFront(r, k)) = ToSet(r) \union {k}
      /\ IsInjective(MoveToFront(r, k))
  BY <1>1, MoveToFrontProperties DEF Orders
<1> QED BY <1>1, <1>2 DEF Orders

LEMMA PutOrders ==
  ASSUME NEW e, NEW o, NEW r, Orders(e, o, r), NEW k \in Keys, NEW x \in Entries
  PROVE  Orders(Put(e, k, x), IF k \in DOMAIN e THEN o ELSE Append(o, k), MoveToFront(r, k))
<1>1. /\ DOMAIN Put(e, k, x) = DOMAIN e \union {k}
      /\ Put(e, k, x) \in [DOMAIN e \union {k} -> Entries]
  BY DEF Orders, Put
<1>2. /\ MoveToFront(r, k) \in Seq(Keys)
      /\ ToSet(MoveToFront(r, k)) = ToSet(r) \union {k}
      /\ IsInjective(MoveToFront(r, k))
  BY MoveToFrontProperties DEF Orders
<1> DEFINE p == IF k \in DOMAIN e THEN o ELSE Append(o, k)
<1>3. p \in Seq(Keys) /\ ToSet(p) = DOMAIN e \union {k} /\ IsInjective(p)
  <2>1. CASE k \in DOMAIN e
    BY <2>1 DEF Orders
  <2>2. CASE k \notin DOMAIN e
    <3>1. /\ Append(o, k) \in Seq(Keys)
          /\ ToSet(Append(o, k)) = ToSet(o) \union {k}
          /\ IsInjective(o) /\ k \notin ToSet(o) => IsInjective(Append(o, k))
      BY AppendedSet DEF Orders
    <3> QED BY <2>2, <3>1 DEF Orders
  <2> QED BY <2>1, <2>2
<1>4. DOMAIN Put(e, k, x) \subseteq Keys
  BY <1>1 DEF Orders
<1> HIDE DEF p
<1> QED BY <1>1, <1>2, <1>3, <1>4 DEF Orders, p

LEMMA LRUInit == Init => LRUInv
<1> SUFFICES ASSUME Init PROVE LRUInv
  OBVIOUS
<1>1. DOMAIN << >> = {} /\ 0 \in 0 .. MaxTime
  BY TimeAssumption
<1>2. ToSet(<< >>) = {} /\ IsInjective(<< >>) /\ << >> \in Seq(Keys) /\ << >> \in [{} -> Entries]
  BY <1>1 DEF ToSet, IsInjective
<1> QED BY <1>1, <1>2 DEF LRUInv, Init, TypeOK, OrdersMatchMap, Stored, Modes

LEMMA DiscardKeepsInv ==
  ASSUME LRUInv, NEW gone, Discard(gone), UNCHANGED <<mode, clock>>,
         ret' \in Values \union Keys \union BOOLEAN \union {Miss}
  PROVE  LRUInv'
<1>1. Orders(entry', order', recency')
  BY InvIsOrders, DropOrders DEF Discard
<1> QED BY <1>1 DEF LRUInv, TypeOK, OrdersMatchMap, Orders, Stored

LEMMA VictimIsStored ==
  ASSUME LRUInv, NEW k \in Keys, NEW evict
  PROVE  Victims(k, evict) \subseteq Stored \union {k}
<1>1. Last(<<k>> \o recency) \in ToSet(recency) \union {k}
  BY FrontProperties DEF LRUInv, TypeOK
<1> QED BY <1>1 DEF Victims, LRUInv, OrdersMatchMap

LEMMA InsertKeepsInv ==
  ASSUME LRUInv, NEW k \in Keys, NEW v \in Values, NEW t \in Deadlines, NEW evict,
         Insert(k, v, t, evict)
  PROVE  LRUInv'
<1> DEFINE x == [value |-> v, expire_at |-> t]
           out == Victims(k, evict)
<1>1. x \in Entries
  BY DEF Entries
<1>2. Orders(entry, order, recency)
  BY InvIsOrders
<1>3. Orders(Put(entry, k, x), IF k \in Stored THEN order ELSE Append(order, k),
             MoveToFront(recency, k))
  <2> HIDE DEF x
  <2> QED BY <1>1, <1>2, PutOrders DEF Stored
<1>4. Orders(entry', order', recency')
  <2> HIDE DEF x, out
  <2>1. Orders(Drop(Put(entry, k, x), out),
               Without(IF k \in Stored THEN order ELSE Append(order, k), out),
               Without(MoveToFront(recency, k), out))
    BY <1>3, DropOrders
  <2> QED BY <2>1 DEF Insert, x, out
<1>5. ret' \in Keys \union {Miss}
  <2>1. out \subseteq Keys
    BY <1>2, VictimIsStored DEF Orders, Stored
  <2>2. out # {} => (CHOOSE y \in out : TRUE) \in out
    OBVIOUS
  <2> QED BY <2>1, <2>2 DEF Insert
<1>6. UNCHANGED <<mode, clock>>
  BY DEF Insert
<1> QED BY <1>4, <1>5, <1>6 DEF LRUInv, TypeOK, OrdersMatchMap, Orders, Stored

LEMMA CallKeepsInv ==
  ASSUME LRUInv, NEW k \in Keys, Call(k) PROVE LRUInv'
<1>1. CASE GetMiss(k)
  BY <1>1 DEF GetMiss, LRUInv, TypeOK, OrdersMatchMap, Stored
<1>2. CASE GetExpired(k)
  BY <1>2, DiscardKeepsInv DEF GetExpired
<1>3. CASE GetHit(k)
  <2>1. Orders(entry', order', recency')
    BY <1>3, InvIsOrders, TouchOrders DEF GetHit, Stored
  <2>2. entry[k].value \in Values
    BY <1>3 DEF GetHit, LRUInv, TypeOK, Entries
  <2> QED BY <1>3, <2>1, <2>2 DEF GetHit, LRUInv, TypeOK, OrdersMatchMap, Orders, Stored
<1>4. CASE Delete(k)
  BY <1>4, DiscardKeepsInv DEF Delete
<1>5. CASE NoSuchKey(k)
  BY <1>5 DEF NoSuchKey, LRUInv, TypeOK, OrdersMatchMap, Stored
<1>6. ASSUME NEW t \in Deadlines, SetExpire(k, t) PROVE LRUInv'
  <2>1. DOMAIN entry' = DOMAIN entry
    BY <1>6 DEF SetExpire
  <2>2. entry' \in [DOMAIN entry -> Entries]
    BY <1>6 DEF SetExpire, LRUInv, TypeOK, Entries, Stored
  <2> QED BY <1>6, <2>1, <2>2 DEF SetExpire, LRUInv, TypeOK, OrdersMatchMap, Stored
<1>7. ASSUME NEW t \in Deadlines, NEW v \in Values, Set(k, v, t) \/ ApplySet(k, v, t)
      PROVE LRUInv'
  BY <1>7, InsertKeepsInv DEF Set, ApplySet
<1> QED BY <1>1, <1>2, <1>3, <1>4, <1>5, <1>6, <1>7 DEF Call, Get

LEMMA LoadKeepsInv ==
  ASSUME LRUInv, NEW ks \in Snapshots, NEW e \in Entries, LoadSnapshot(ks, e)
  PROVE  LRUInv'
<1>1. ks \in Seq(Keys) /\ IsInjective(ks)
  BY DEF Snapshots
<1>2. ToSet(ks) \subseteq Keys
  BY <1>1 DEF ToSet
<1>3. /\ Reverse(ks) \in Seq(Keys) /\ ToSet(Reverse(ks)) = ToSet(ks)
      /\ IsInjective(Reverse(ks))
  BY <1>1, ReverseProperties
<1>4. DOMAIN entry' = ToSet(ks) /\ entry' \in [ToSet(ks) -> Entries]
  BY DEF LoadSnapshot
<1>5. order' = ks /\ recency' = Reverse(ks) /\ ret' = Miss /\ UNCHANGED <<mode, clock>>
  BY DEF LoadSnapshot
<1> QED BY <1>1, <1>2, <1>3, <1>4, <1>5 DEF LRUInv, TypeOK, OrdersMatchMap, Stored

LEMMA LRUInvStep == LRUInv /\ [Next]_vars => LRUInv'
<1> SUFFICES ASSUME LRUInv, [Next]_vars PROVE LRUInv'
  OBVIOUS
<1>1. ASSUME NEW k \in Keys, Call(k) PROVE LRUInv'
  BY <1>1, CallKeepsInv
<1>2. ASSUME NEW drawn \in SUBSET Stored, SampleExpired(drawn) PROVE LRUInv'
  <2>1. ret' \in Values \union Keys \union BOOLEAN \union {Miss}
    BY <1>2 DEF SampleExpired, LRUInv, TypeOK
  <2> QED BY <1>2, <2>1, DiscardKeepsInv DEF SampleExpired
<1>3. ASSUME NEW ks \in Snapshots, NEW e \in Entries, LoadSnapshot(ks, e) PROVE LRUInv'
  BY <1>3, LoadKeepsInv
<1>4. CASE Promote
  BY <1>4 DEF Promote, LRUInv, TypeOK, OrdersMatchMap, Stored, Modes
<1>5. CASE Tick
  BY <1>5, TimeAssumption DEF Tick, LRUInv, TypeOK, OrdersMatchMap, Stored
<1>6. CASE UNCHANGED vars
  BY <1>6 DEF vars, LRUInv, TypeOK, OrdersMatchMap, Stored
<1> QED BY <1>1, <1>2, <1>3, <1>4, <1>5, <1>6 DEF Next

LEMMA LRUInvAlways == Spec => []LRUInv
BY LRUInit, LRUInvStep, PTL DEF Spec

(* The store's variables keep their types: in particular every entry has   *)
(* a value and a deadline, through overwrites, expiry and snapshots.       *)
THEOREM TypeCorrect == Spec => []TypeOK
<1>1. LRUInv => TypeOK
  BY DEF LRUInv
<1> QED BY <1>1, LRUInvAlways, PTL

(* The dict, its insertion order and the recency order name the same keys, *)
(* each once, whatever sequence of reads, writes, evictions, expiries and  *)
(* snapshots led here.                                                     *)
THEOREM OrdersAgree == Spec => []OrdersMatchMap
<1>1. LRUInv => OrdersMatchMap
  BY DEF LRUInv
<1> QED BY <1>1, LRUInvAlways, PTL

-----------------------------------------------------------------------------
(* What a step may do to the number of keys, and to the keys. *)

LEMMA StoredIsFinite == LRUInv => IsFiniteSet(Stored)
<1> SUFFICES ASSUME LRUInv PROVE IsFiniteSet(Stored)
  OBVIOUS
<1> DEFINE n == Len(order)
<1>1. n \in Nat /\ DOMAIN order = 1 .. n /\ Stored = {order[i] : i \in 1 .. n}
  BY DEF LRUInv, TypeOK, OrdersMatchMap, ToSet
<1>2. IsFiniteSet(1 .. n)
  BY <1>1, FS_Interval
<1>3. order \in Surjection(1 .. n, Stored)
  <2>1. order = [i \in 1 .. n |-> order[i]]
    BY <1>1 DEF LRUInv, TypeOK
  <2>2. order \in [1 .. n -> Stored]
    BY <1>1, <2>1
  <2> QED BY <1>1, <2>2 DEF Surjection
<1> QED BY <1>2, <1>3, FS_Surjection

LEMMA LargerOfTwo ==
  ASSUME NEW a \in Nat, NEW b \in Nat
  PROVE  Max({a, b}) \in {a, b} /\ Max({a, b}) >= a /\ Max({a, b}) >= b
<1>1. \E x \in {a, b} : \A y \in {a, b} : x >= y
  OBVIOUS
<1> QED BY <1>1 DEF Max

LEMMA SetKeepsCapacity ==
  ASSUME LRUInv, NEW k \in Keys, NEW v \in Values, NEW t \in Deadlines, Set(k, v, t)
  PROVE  Cardinality(Stored') <= Max({MaxSize, Cardinality(Stored)})
<1> DEFINE out == Victims(k, TRUE)
           full == Stored \union {k}
           bound == Max({MaxSize, Cardinality(Stored)})
<1>1. Stored' = full \ out
  BY DEF Set, Insert, Drop, Put, Stored
<1>2. /\ IsFiniteSet(Stored) /\ Cardinality(Stored) \in Nat
      /\ IsFiniteSet(full)
      /\ Cardinality(full) = IF k \in Stored THEN Cardinality(Stored) ELSE Cardinality(Stored) + 1
  BY StoredIsFinite, FS_CardinalityType, FS_AddElement
<1>3. bound \in Nat /\ bound >= MaxSize /\ bound >= Cardinality(Stored)
  <2>1. MaxSize \in Nat
    BY MaxSizeAssumption
  <2> QED BY <1>2, <2>1, LargerOfTwo
<1>4. CASE out = {}
  <2>1. Stored' = full
    BY <1>1, <1>4
  <2>2. k \in Stored \/ ~ (Cardinality(Stored) + 1 > MaxSize)
    BY <1>4 DEF Victims
  <2>3. MaxSize \in Nat
    BY MaxSizeAssumption
  <2>4. Cardinality(full) <= bound
    <3> HIDE DEF bound, full
    <3> QED BY <1>2, <1>3, <2>2, <2>3
  <2> QED BY <2>1, <2>4
<1>5. CASE out # {}
  <2>1. PICK x : out = {x} /\ k \notin Stored
    BY <1>5 DEF Victims
  <2>2. x \in full
    BY <2>1, VictimIsStored
  <2>3. Cardinality(full \ {x}) = Cardinality(full) - 1
    <3> HIDE DEF full
    <3> QED BY <1>2, <2>2, FS_RemoveElement
  <2>4. Cardinality(full \ {x}) <= bound
    <3> HIDE DEF bound, full
    <3> QED BY <1>2, <1>3, <2>1, <2>3
  <2>5. Stored' = full \ {x}
    BY <1>1, <2>1
  <2> QED BY <2>4, <2>5
<1> QED BY <1>4, <1>5

(* A client's write leaves at most maxsize keys, or as many as the replica *)
(* paths had put there: the node before the tail is always one that the    *)
(* dict holds, so that an eviction really makes room.                      *)
THEOREM CapacityKept == Spec => WritesKeepCapacity
<1>1. LRUInv /\ (\E k \in Keys, v \in Values, t \in Deadlines : Set(k, v, t))
        => Cardinality(Stored') <= Max({MaxSize, Cardinality(Stored)})
  BY SetKeepsCapacity
<1>2. LRUInv /\ [Next]_vars
        => [(\E k \in Keys, v \in Values, t \in Deadlines : Set(k, v, t))
             => Cardinality(Stored') <= Max({MaxSize, Cardinality(Stored)})]_vars
  BY <1>1
<1> QED BY <1>2, LRUInvAlways, PTL DEF Spec, WritesKeepCapacity

(* A read or a sample of a logical store removes nothing, also of expired  *)
(* keys.                                                                   *)
THEOREM LogicalKeysStay == Spec => LogicalReadsKeepKeys
<1>1. ASSUME mode = "logical", NEW k \in Keys, Get(k) PROVE Stored' = Stored
  BY <1>1 DEF Get, GetMiss, GetExpired, GetHit, Discard, Drop, Stored
<1>2. ASSUME mode = "logical", NEW drawn \in SUBSET Stored, SampleExpired(drawn) PROVE FALSE
  BY <1>2 DEF SampleExpired
<1>3. [Next]_vars
        => [mode = "logical" /\ ( \/ \E k \in Keys : Get(k)
                                 \/ \E drawn \in SUBSET Stored : SampleExpired(drawn) )
              => Stored' = Stored]_vars
  BY <1>1, <1>2
<1> QED BY <1>3, PTL DEF Spec, LogicalReadsKeepKeys
=============================================================================
