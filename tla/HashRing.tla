------------------------------ MODULE HashRing ------------------------------
(***************************************************************************)
(* The consistent hash ring of distcache/hashring.py.  A node stands at    *)
(* VNodes points of the ring; a key belongs to the node that stands at the *)
(* first point after the key's own.  Every method holds the ring's lock    *)
(* from its first statement to its last, so each is one step.              *)
(*                                                                         *)
(* The points are the first 8 bytes of an MD5 digest.  Here the hash of    *)
(* the virtual nodes is any function of Hashes, chosen once.               *)
(***************************************************************************)
EXTENDS Integers, FiniteSets, SequencesExt

CONSTANTS
  Names,    \* the nodes, "host:port"
  VNodes,   \* vnodes
  Space,    \* the points are 0 .. Space - 1
  None,     \* what get_node returns on an empty ring
  Hashes    \* the values of _hash on the virtual nodes "<name>#<i>"

Points == 0 .. Space - 1
Virtual == Names \X (1 .. VNodes)

ASSUME VNodesAssumption == VNodes \in Nat \ {0}
ASSUME SpaceAssumption == Space \in Nat \ {0}
(* No two virtual nodes collide: with 64 bit points they practically never do. *)
ASSUME HashesAssumption == \A h \in Hashes : h \in [Virtual -> Points] /\ IsInjective(h)

VARIABLES
  hash,     \* _hash
  members,  \* _nodes
  ring,     \* _ring: the point of a virtual node -> its node
  sorted    \* _sorted: the points in ascending order

vars == <<hash, members, ring, sorted>>

-----------------------------------------------------------------------------
(* bisect(s, x) and bisect_left(s, x): how many points are <= x, or < x.  *)
Bisect(s, x) == Cardinality({i \in DOMAIN s : s[i] <= x})
BisectLeft(s, x) == Cardinality({i \in DOMAIN s : s[i] < x})

Insort(s, x) == InsertAt(s, Bisect(s, x) + 1, x)

VNodesOf(n) == [i \in 1 .. VNodes |-> hash[<<n, i>>]]

(* Mutant of Place: the dict gets the point instead of the node. *)
PlacePoint(n, r, p) ==
  [ring |-> [q \in DOMAIN r.ring \union {p} |-> IF q = p THEN p ELSE r.ring[q]],
   sorted |-> Insort(r.sorted, p)]

(* Mutant of Displace: the point stays in the list. *)
DisplaceFromDict(r, p) ==
  [ring |-> [q \in DOMAIN r.ring \ {p} |-> r.ring[q]], sorted |-> r.sorted]

(* One round of the loop of add_node, and of remove_node: a point enters   *)
(* or leaves the dict and the sorted list together.                        *)
Place(n, r, p) ==
  [ring |-> [q \in DOMAIN r.ring \union {p} |-> IF q = p THEN n ELSE r.ring[q]],
   sorted |-> Insort(r.sorted, p)]

Displace(r, p) ==
  LET idx == BisectLeft(r.sorted, p) + 1 IN
  IF p \notin DOMAIN r.ring THEN r
  ELSE [ring |-> [q \in DOMAIN r.ring \ {p} |-> r.ring[q]],
        sorted |-> IF idx <= Len(r.sorted) /\ r.sorted[idx] = p
                     THEN RemoveAt(r.sorted, idx) ELSE r.sorted]

Now == [ring |-> ring, sorted |-> sorted]
Becomes(r) == ring' = r.ring /\ sorted' = r.sorted

-----------------------------------------------------------------------------
Init ==
  /\ hash \in Hashes
  /\ members = {}
  /\ ring = << >>
  /\ sorted = << >>

AddNode(n) ==
  /\ n \notin members
  /\ members' = members \union {n}
  /\ Becomes(FoldLeft(LAMBDA r, p : Place(n, r, p), Now, VNodesOf(n)))
  /\ UNCHANGED hash

RemoveNode(n) ==
  /\ n \in members
  /\ members' = members \ {n}
  /\ Becomes(FoldLeft(Displace, Now, VNodesOf(n)))
  /\ UNCHANGED hash

Next == \E n \in Names : AddNode(n) \/ RemoveNode(n)

Spec == Init /\ [][Next]_vars

(* Mutants of GetNode: no wrap-around; plain hashing modulo the points. *)
GetNodeNoWrap(x) ==
  LET idx == Bisect(sorted, x) IN
  IF sorted = << >> THEN None
  ELSE ring[sorted[IF idx = Len(sorted) THEN idx ELSE idx + 1]]
GetNodeModulo(x) ==
  IF sorted = << >> THEN None ELSE ring[sorted[(x % Len(sorted)) + 1]]

(* get_node of a key that hashes to x; it changes nothing. *)
GetNode(x) ==
  LET idx == Bisect(sorted, x) IN
  IF sorted = << >> THEN None
  ELSE ring[sorted[IF idx = Len(sorted) THEN 1 ELSE idx + 1]]

-----------------------------------------------------------------------------
TypeOK ==
  /\ hash \in Hashes
  /\ members \subseteq Names
  /\ ring \in [DOMAIN ring -> Names] /\ DOMAIN ring \subseteq Points
  /\ sorted \in Seq(Points)

(* The dict and the sorted list hold the virtual nodes of the members and  *)
(* nothing else, however often nodes came and went: no lookup can fail,    *)
(* and a node that left receives no key.                                   *)
RingHoldsMembers ==
  /\ DOMAIN ring = {hash[v] : v \in members \X (1 .. VNodes)}
  /\ \A n \in members, i \in 1 .. VNodes : ring[hash[<<n, i>>]] = n
  /\ ToSet(sorted) = DOMAIN ring
  /\ \A i \in 1 .. Len(sorted) - 1 : sorted[i] < sorted[i + 1]

(* Bisection with wrap-around finds the member whose virtual node is the   *)
(* nearest one clockwise: it depends on the members alone, not on the      *)
(* order they came in, so that clients with the same members agree.        *)
Clockwise(x, p) == (p - x - 1) % Space
RoutesClockwise ==
  \A x \in Points :
    IF members = {} THEN GetNode(x) = None
    ELSE \E i \in 1 .. VNodes :
           /\ GetNode(x) \in members
           /\ \A n \in members, j \in 1 .. VNodes :
                Clockwise(x, hash[<<GetNode(x), i>>]) <= Clockwise(x, hash[<<n, j>>])

(* A key changes its node only to the node that came, or from the node     *)
(* that left: the misses after a change are those of 1/N of the keys.      *)
OnlyItsKeysMove ==
  [][ \A x \in Points, n \in Names :
        /\ members' = members \union {n} => GetNode(x)' \in {GetNode(x), n}
        /\ members' = members \ {n} => GetNode(x) \in {GetNode(x)', n} ]_vars
=============================================================================
