------------------------------ MODULE LRUCache ------------------------------
(***************************************************************************)
(* What the store of a cache node promises (distcache/lru.py): a finite    *)
(* map from keys to values with deadlines, a recency order that decides    *)
(* which key a full store gives up, and two ways of treating a key whose   *)
(* deadline has passed.  An authoritative store deletes it when it is      *)
(* read or sampled; a logical store (a slave's) only hides it.             *)
(*                                                                         *)
(* The doubly linked list of the code is not here: recency is a sequence,  *)
(* most recently used first.  LinkedLRU has the pointers and is shown to   *)
(* implement this module.                                                  *)
(***************************************************************************)
EXTENDS Naturals, FiniteSets, SequencesExt, KeyOrders

CONSTANTS
  Keys, Values,
  Never,        \* expire_at = None: the key has no deadline
  Miss,         \* the None a call returns
  MaxSize,      \* maxsize
  SampleSize,   \* sample_size of sample_expired (20 in the code)
  MaxTime       \* bound: the clock stops here

ASSUME MaxSizeAssumption == MaxSize \in Nat \ {0}
ASSUME SampleAssumption == SampleSize \in Nat \ {0}
ASSUME TimeAssumption == MaxTime \in Nat

VARIABLES
  mode,     \* "authoritative" or "logical"
  entry,    \* _map: the stored keys, each with its value and deadline
  order,    \* the insertion order of the dict _map
  recency,  \* the keys from most to least recently used
  clock,    \* time_func()
  ret       \* what the latest call returned

vars == <<mode, entry, order, recency, clock, ret>>

Modes == {"authoritative", "logical"}
Deadlines == (1 .. MaxTime + 1) \union {Never}
Entries == [value : Values, expire_at : Deadlines]
Stored == DOMAIN entry

-----------------------------------------------------------------------------
(* Operations on a dict and on the recency order. *)

Put(f, k, e) == [x \in DOMAIN f \union {k} |-> IF x = k THEN e ELSE f[x]]
Drop(f, gone) == [x \in DOMAIN f \ gone |-> f[x]]
MoveToFront(s, k) == <<k>> \o Without(s, {k})

IsExpired(e, now) == e.expire_at # Never /\ e.expire_at <= now

(* Mutant of Discard: a key leaves the dict, its node stays linked. *)
DiscardFromDict(gone) ==
  /\ entry' = Drop(entry, gone)
  /\ order' = Without(order, gone)
  /\ UNCHANGED recency

(* Every way keys leave the store: unlinked, and deleted from the dict. *)
Discard(gone) ==
  /\ entry' = Drop(entry, gone)
  /\ order' = Without(order, gone)
  /\ recency' = Without(recency, gone)

(* Mutant of Victims: the store is checked before the new key is counted. *)
VictimsTooLate(k, evict) ==
  IF evict /\ k \notin Stored /\ Cardinality(Stored) > MaxSize
    THEN {Last(<<k>> \o recency)} ELSE {}

(* The keys of a store of this recency that an insertion of k pushes out.  *)
(* One key at most, even when the store is further above maxsize.          *)
Victims(k, evict) ==
  IF evict /\ k \notin Stored /\ Cardinality(Stored) + 1 > MaxSize
    THEN {Last(<<k>> \o recency)} ELSE {}

-----------------------------------------------------------------------------
Init ==
  /\ mode \in Modes
  /\ entry = << >>
  /\ order = << >>
  /\ recency = << >>
  /\ clock = 0
  /\ ret = Miss

GetMiss(k) ==
  /\ k \notin Stored
  /\ ret' = Miss
  /\ UNCHANGED <<mode, entry, order, recency, clock>>

(* Mutant of GetExpired: every store deletes. *)
GetExpiredDeletes(k) ==
  /\ k \in Stored
  /\ IsExpired(entry[k], clock)
  /\ Discard({k})
  /\ ret' = Miss
  /\ UNCHANGED <<mode, clock>>

GetExpired(k) ==
  /\ k \in Stored
  /\ IsExpired(entry[k], clock)
  /\ Discard(IF mode = "authoritative" THEN {k} ELSE {})
  /\ ret' = Miss
  /\ UNCHANGED <<mode, clock>>

GetHit(k) ==
  /\ k \in Stored
  /\ ~ IsExpired(entry[k], clock)
  /\ recency' = MoveToFront(recency, k)
  /\ ret' = entry[k].value
  /\ UNCHANGED <<mode, entry, order, clock>>

Get(k) == GetMiss(k) \/ GetExpired(k) \/ GetHit(k)

(* _insert: an overwrite keeps the key's place in the dict, a new key goes *)
(* to the end of it; both become the most recently used key.               *)
Insert(k, v, t, evict) ==
  LET out == Victims(k, evict) IN
  /\ entry' = Drop(Put(entry, k, [value |-> v, expire_at |-> t]), out)
  /\ order' = Without(IF k \in Stored THEN order ELSE Append(order, k), out)
  /\ recency' = Without(MoveToFront(recency, k), out)
  /\ ret' = IF out = {} THEN Miss ELSE CHOOSE x \in out : TRUE
  /\ UNCHANGED <<mode, clock>>

(* Mutant of Set: value and deadline are swapped. *)
SetSwapped(k, v, t) == Insert(k, t, v, TRUE)

Set(k, v, t) == Insert(k, v, t, TRUE)
ApplySet(k, v, t) == Insert(k, v, t, FALSE)

(* set_expire looks at neither the clock nor the old deadline, and leaves  *)
(* the key where it is in the recency order.                               *)
SetExpire(k, t) ==
  /\ k \in Stored
  /\ t # Never
  /\ entry' = [entry EXCEPT ![k].expire_at = t]
  /\ ret' = TRUE
  /\ UNCHANGED <<mode, order, recency, clock>>

Delete(k) ==
  /\ k \in Stored
  /\ Discard({k})
  /\ ret' = TRUE
  /\ UNCHANGED <<mode, clock>>

(* delete and set_expire of a key that is not there. *)
NoSuchKey(k) ==
  /\ k \notin Stored
  /\ ret' = FALSE
  /\ UNCHANGED <<mode, entry, order, recency, clock>>

(* Mutant of SampleExpired: the sample is one key short. *)
SampleShort(drawn) ==
  /\ mode = "authoritative"
  /\ drawn \subseteq Stored
  /\ Cardinality(drawn) = Min({SampleSize - 1, Cardinality(Stored)})
  /\ Discard({k \in drawn : IsExpired(entry[k], clock)})
  /\ UNCHANGED <<mode, clock, ret>>

(* sample_expired draws at most SampleSize keys and deletes those of them  *)
(* that have expired; on a logical store it does nothing.                  *)
SampleExpired(drawn) ==
  /\ mode = "authoritative"
  /\ drawn \subseteq Stored
  /\ Cardinality(drawn) = Min({SampleSize, Cardinality(Stored)})
  /\ Discard({k \in drawn : IsExpired(entry[k], clock)})
  /\ UNCHANGED <<mode, clock, ret>>

(* snapshot lists the dict in its order; load_snapshot replaces the store, *)
(* adding each item at the front of the list.  The snapshots loaded here   *)
(* are of stores whose keys all have the same value and deadline.          *)
LoadSnapshot(ks, e) ==
  /\ entry' = [k \in ToSet(ks) |-> e]
  /\ order' = ks
  /\ recency' = Reverse(ks)
  /\ ret' = Miss
  /\ UNCHANGED <<mode, clock>>

(* promote() turns the slave's store into an authoritative one. *)
Promote ==
  /\ mode = "logical"
  /\ mode' = "authoritative"
  /\ UNCHANGED <<entry, order, recency, clock, ret>>

Tick ==
  /\ clock < MaxTime
  /\ clock' = clock + 1
  /\ UNCHANGED <<mode, entry, order, recency, ret>>

Snapshots == {ks \in UNION {[1 .. n -> Keys] : n \in 0 .. Cardinality(Keys)} :
                IsInjective(ks)}

Call(k) ==
  \/ Get(k) \/ Delete(k) \/ NoSuchKey(k)
  \/ \E t \in Deadlines :
       \/ SetExpire(k, t)
       \/ \E v \in Values : Set(k, v, t) \/ ApplySet(k, v, t)

Next ==
  \/ \E k \in Keys : Call(k)
  \/ \E drawn \in SUBSET Stored : SampleExpired(drawn)
  \/ \E ks \in Snapshots, e \in Entries : LoadSnapshot(ks, e)
  \/ Promote
  \/ Tick

Spec == Init /\ [][Next]_vars

(* The expire loop calls sample_expired for ever, and the draw is random:  *)
(* a key that stays in the store is drawn sooner or later.                 *)
Drawn(k) == \E drawn \in SUBSET Stored : k \in drawn /\ SampleExpired(drawn)
FairSpec == Spec /\ \A k \in Keys : WF_vars(Drawn(k))

-----------------------------------------------------------------------------
TypeOK ==
  /\ mode \in Modes
  /\ Stored \subseteq Keys
  /\ entry \in [Stored -> Entries]
  /\ order \in Seq(Keys)
  /\ recency \in Seq(Keys)
  /\ clock \in 0 .. MaxTime
  /\ ret \in Values \union Keys \union BOOLEAN \union {Miss}

(* The dict and the recency order name the same keys, each once: no key    *)
(* can be stored and not evictable, or evicted twice.                      *)
OrdersMatchMap ==
  /\ ToSet(order) = Stored /\ IsInjective(order)
  /\ ToSet(recency) = Stored /\ IsInjective(recency)

(* A client's write never leaves a store of at most maxsize keys above     *)
(* maxsize, nor makes one that the replica paths filled further fuller.    *)
WritesKeepCapacity ==
  [][ (\E k \in Keys, v \in Values, t \in Deadlines : Set(k, v, t))
      => Cardinality(Stored') <= Max({MaxSize, Cardinality(Stored)}) ]_vars

(* A logical store gives up no key to a read or to the sampling loop,      *)
(* expired or not: it waits for the master's DEL.                          *)
LogicalReadsKeepKeys ==
  [][ mode = "logical" /\ ( \/ \E k \in Keys : Get(k)
                           \/ \E drawn \in SUBSET Stored : SampleExpired(drawn) )
      => Stored' = Stored ]_vars

(* On an authoritative store an expired key is reclaimed even if nobody    *)
(* reads it again, unless a later write gives it a new deadline.           *)
ExpiredIsReclaimed ==
  \A k \in Keys :
    (mode = "authoritative" /\ k \in Stored /\ IsExpired(entry[k], clock))
      ~> (k \notin Stored \/ ~ IsExpired(entry[k], clock))
=============================================================================
