------------------------------ MODULE LinkedLRU ------------------------------
(***************************************************************************)
(* The store of distcache/lru.py as it is coded: a dict of nodes that are  *)
(* also linked into a doubly linked list between two sentinels.            *)
(* HEAD.next is the most recently used node, TAIL.prev the least.          *)
(*                                                                         *)
(* A node is named by its key: the dict holds one node per key, and a node *)
(* taken out of the list is never linked again (a later write of the same  *)
(* key makes a new one).  The module is shown to implement LRUCache, whose *)
(* recency order is read off the links.                                    *)
(***************************************************************************)
EXTENDS Naturals, FiniteSets, SequencesExt, KeyOrders

CONSTANTS Keys, Values, Never, Miss, MaxSize, SampleSize, MaxTime,
          HEAD, TAIL,   \* the sentinels _head and _tail
          Null          \* None as a prev or next link

VARIABLES
  mode, clock, ret,   \* as in LRUCache
  entry,    \* _map: the value and expire_at of each key's node
  order,    \* the insertion order of the dict _map
  list      \* the links: list.next[n], list.prev[n] of every node

vars == <<mode, clock, ret, entry, order, list>>

(* The sentinels are made for the list and never stored, and neither of   *)
(* them, nor a node, is None.                                             *)
ASSUME SentinelAssumption ==
  /\ HEAD # TAIL /\ HEAD \notin Keys /\ TAIL \notin Keys
  /\ Null \notin Keys \union {HEAD, TAIL}

Nodes == Keys \union {HEAD, TAIL}
Deadlines == (1 .. MaxTime + 1) \union {Never}
Entries == [value : Values, expire_at : Deadlines]
Mapped == DOMAIN entry

IsExpired(k) == entry[k].expire_at # Never /\ entry[k].expire_at <= clock

-----------------------------------------------------------------------------
(* The list, as values: each operator returns the links it leaves behind. *)

EmptyList ==
  [next |-> [n \in Nodes |-> IF n = HEAD THEN TAIL ELSE Null],
   prev |-> [n \in Nodes |-> IF n = TAIL THEN HEAD ELSE Null]]

(* Mutant of Unlink: the next node still points back. *)
UnlinkForward(l, n) ==
  [next |-> [l.next EXCEPT ![l.prev[n]] = l.next[n], ![n] = Null],
   prev |-> [l.prev EXCEPT ![n] = Null]]

Unlink(l, n) ==
  [next |-> [l.next EXCEPT ![l.prev[n]] = l.next[n], ![n] = Null],
   prev |-> [l.prev EXCEPT ![l.next[n]] = l.prev[n], ![n] = Null]]

AddFront(l, n) ==
  [next |-> [l.next EXCEPT ![n] = l.next[HEAD], ![HEAD] = n],
   prev |-> [l.prev EXCEPT ![n] = HEAD, ![l.next[HEAD]] = n]]

(* Mutant of MoveToFront: a key keeps its place. *)
StayInPlace(l, n) == l

MoveToFront(l, n) == AddFront(Unlink(l, n), n)

UnlinkAll(l, gone) == FoldLeft(Unlink, l, SetToSeq(gone))

-----------------------------------------------------------------------------
(* The dict. *)

DictPut(k, e) ==
  /\ entry' = [x \in Mapped \union {k} |-> IF x = k THEN e ELSE entry[x]]
  /\ order' = IF k \in Mapped THEN order ELSE Append(order, k)

DictDel(gone) ==
  /\ entry' = [x \in Mapped \ gone |-> entry[x]]
  /\ order' = Without(order, gone)

-----------------------------------------------------------------------------
Init ==
  /\ mode \in {"authoritative", "logical"}
  /\ clock = 0
  /\ ret = Miss
  /\ entry = << >>
  /\ order = << >>
  /\ list = EmptyList

Absent(k, answer) ==
  /\ k \notin Mapped
  /\ ret' = answer
  /\ UNCHANGED <<mode, clock, entry, order, list>>

GetExpired(k) ==
  /\ k \in Mapped
  /\ IsExpired(k)
  /\ ret' = Miss
  /\ IF mode = "authoritative"
       THEN list' = Unlink(list, k) /\ DictDel({k})
       ELSE UNCHANGED <<entry, order, list>>
  /\ UNCHANGED <<mode, clock>>

GetHit(k) ==
  /\ k \in Mapped
  /\ ~ IsExpired(k)
  /\ list' = MoveToFront(list, k)
  /\ ret' = entry[k].value
  /\ UNCHANGED <<mode, clock, entry, order>>

(* Mutant of Overwrite: value and deadline are swapped. *)
OverwriteSwapped(k, v, t) ==
  /\ k \in Mapped
  /\ DictPut(k, [value |-> t, expire_at |-> v])
  /\ list' = MoveToFront(list, k)
  /\ ret' = Miss
  /\ UNCHANGED <<mode, clock>>

Overwrite(k, v, t) ==
  /\ k \in Mapped
  /\ DictPut(k, [value |-> v, expire_at |-> t])
  /\ list' = MoveToFront(list, k)
  /\ ret' = Miss
  /\ UNCHANGED <<mode, clock>>

(* A new node that fits, or that the replica adds without evicting. *)
Extend(k, v, t, evict) ==
  /\ k \notin Mapped
  /\ ~ (evict /\ Cardinality(Mapped) + 1 > MaxSize)
  /\ DictPut(k, [value |-> v, expire_at |-> t])
  /\ list' = AddFront(list, k)
  /\ ret' = Miss
  /\ UNCHANGED <<mode, clock>>

(* A new node, after which the node before the tail sentinel goes. *)
Replace(k, v, t) ==
  LET linked == AddFront(list, k)
      lru == linked.prev[TAIL]
  IN /\ k \notin Mapped
     /\ Cardinality(Mapped) + 1 > MaxSize
     /\ lru # HEAD
     /\ entry' = [x \in (Mapped \union {k}) \ {lru} |->
                    IF x = k THEN [value |-> v, expire_at |-> t] ELSE entry[x]]
     /\ order' = Without(Append(order, k), {lru})
     /\ list' = Unlink(linked, lru)
     /\ ret' = lru
     /\ UNCHANGED <<mode, clock>>

Insert(k, v, t) ==
  \/ Overwrite(k, v, t)
  \/ \E evict \in BOOLEAN : Extend(k, v, t, evict)
  \/ Replace(k, v, t)

SetExpire(k, t) ==
  /\ k \in Mapped
  /\ t # Never
  /\ entry' = [entry EXCEPT ![k].expire_at = t]
  /\ ret' = TRUE
  /\ UNCHANGED <<mode, clock, order, list>>

Delete(k) ==
  /\ k \in Mapped
  /\ list' = Unlink(list, k)
  /\ DictDel({k})
  /\ ret' = TRUE
  /\ UNCHANGED <<mode, clock>>

SampleExpired(drawn) ==
  LET gone == {k \in drawn : IsExpired(k)} IN
  /\ mode = "authoritative"
  /\ drawn \subseteq Mapped
  /\ Cardinality(drawn) = Min({SampleSize, Cardinality(Mapped)})
  /\ list' = UnlinkAll(list, gone)
  /\ DictDel(gone)
  /\ UNCHANGED <<mode, clock, ret>>

LoadSnapshot(ks, e) ==
  /\ entry' = [k \in ToSet(ks) |-> e]
  /\ order' = ks
  /\ list' = FoldLeft(AddFront, EmptyList, ks)
  /\ ret' = Miss
  /\ UNCHANGED <<mode, clock>>

Promote ==
  /\ mode = "logical"
  /\ mode' = "authoritative"
  /\ UNCHANGED <<clock, ret, entry, order, list>>

Tick ==
  /\ clock < MaxTime
  /\ clock' = clock + 1
  /\ UNCHANGED <<mode, ret, entry, order, list>>

Snapshots == {ks \in UNION {[1 .. n -> Keys] : n \in 0 .. Cardinality(Keys)} :
                IsInjective(ks)}

Call(k) ==
  \/ GetExpired(k) \/ GetHit(k) \/ Delete(k)
  \/ \E answer \in {Miss, FALSE} : Absent(k, answer)
  \/ \E t \in Deadlines : SetExpire(k, t) \/ \E v \in Values : Insert(k, v, t)

Next ==
  \/ \E k \in Keys : Call(k)
  \/ \E drawn \in SUBSET Mapped : SampleExpired(drawn)
  \/ \E ks \in Snapshots, e \in Entries : LoadSnapshot(ks, e)
  \/ Promote
  \/ Tick

Spec == Init /\ [][Next]_vars

-----------------------------------------------------------------------------
(* The keys met by following a link n times from a sentinel. *)
Follow(link, from, n) ==
  LET At[i \in 0 .. n] ==
        IF i = 0 THEN from
        ELSE IF At[i - 1] \in Nodes THEN link[At[i - 1]] ELSE Null
  IN [i \in 1 .. n |-> At[i]]

Forward == Follow(list.next, HEAD, Cardinality(Mapped))
Backward == Follow(list.prev, TAIL, Cardinality(Mapped))

TypeOK ==
  /\ Mapped \subseteq Keys
  /\ entry \in [Mapped -> Entries]
  /\ order \in Seq(Keys)
  /\ list \in [next : [Nodes -> Nodes \union {Null}],
               prev : [Nodes -> Nodes \union {Null}]]

(* The list and the dict agree: walking either way between the sentinels   *)
(* meets exactly the stored keys, each once and in mirrored order, and a   *)
(* node outside the dict is linked nowhere.  A stray link would evict the  *)
(* wrong key, or leave a key that can never be evicted.                    *)
ListMatchesMap ==
  /\ ToSet(Forward) = Mapped
  /\ Backward = Reverse(Forward)
  /\ Follow(list.next, HEAD, Cardinality(Mapped) + 1)[Cardinality(Mapped) + 1] = TAIL
  /\ \A k \in Keys \ Mapped : list.next[k] = Null /\ list.prev[k] = Null

(* The linked list implements the promised store: its recency order is the *)
(* order of the links, so the node before the tail is always the key used  *)
(* longest ago.                                                            *)
Promised == INSTANCE LRUCache WITH recency <- Forward
ImplementsLRU == Promised!Spec
=============================================================================
