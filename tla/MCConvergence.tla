---------------------------- MODULE MCConvergence ----------------------------
(* A primary and the replicas that follow it. *)
EXTENDS Convergence

Star == [n \in Nodes |-> Primary]

KeySymmetry == Permutations(Keys)

(* Bound: a promoted replica appends one batch, enough to take a write of  *)
(* its own; nobody follows it.                                             *)
PromotedWriteOnce == \A n \in Slaves : offset[n] <= 1
=============================================================================
