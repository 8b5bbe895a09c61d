------------------------------ MODULE KeyOrders ------------------------------
(***************************************************************************)
(* What taking keys out does to an order of keys: the insertion order of   *)
(* the dict and the recency order of the list (distcache/lru.py) close the *)
(* gap and keep the rest in place.                                         *)
(***************************************************************************)
EXTENDS Naturals, Sequences

Without(s, gone) ==
  LET kept[i \in 0 .. Len(s)] ==
        IF i = 0 THEN << >>
        ELSE IF s[i] \in gone THEN kept[i - 1] ELSE Append(kept[i - 1], s[i])
  IN kept[Len(s)]
=============================================================================
