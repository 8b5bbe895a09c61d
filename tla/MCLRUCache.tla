----------------------------- MODULE MCLRUCache -----------------------------
(* A store of up to two keys (and more, by the replica paths) out of three. *)
EXTENDS LRUCache
=============================================================================
