----------------------------- MODULE MCHashRing -----------------------------
(* Three nodes at two points each, on a ring of seven: every way the six   *)
(* virtual nodes can lie on it, with one point to spare.                   *)
EXTENDS HashRing

AllHashes == {h \in [Virtual -> Points] : IsInjective(h)}
=============================================================================
