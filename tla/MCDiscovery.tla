----------------------------- MODULE MCDiscovery -----------------------------
(* Two nodes, each started twice, so that a node comes back while the      *)
(* lease of its first life is still there; one lease lapses.               *)
EXTENDS Discovery
=============================================================================
