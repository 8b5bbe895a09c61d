----------------------------- MODULE MCLinkedLRU -----------------------------
(* Three keys over a store of two: every removal, at the front, in the     *)
(* middle and at the end of the list, and every eviction.                  *)
EXTENDS LinkedLRU

KeySymmetry == Permutations(Keys)
=============================================================================
