----------------------------- MODULE LogShipping -----------------------------
(***************************************************************************)
(* What replication promises about positions.  The upstream numbers its    *)
(* batches 1, 2, ...; a replica is either detached or stands at a position *)
(* of that numbering.  It attaches at any position reached so far, by a    *)
(* snapshot, and from there moves one batch at a time: it never skips a    *)
(* batch, never applies one twice, and never runs ahead of the upstream.   *)
(* There is no partial resynchronisation: a replica that loses its         *)
(* connection is detached, and an upstream that restarts numbers again     *)
(* from 1 with every replica detached.                                     *)
(***************************************************************************)
EXTENDS Naturals

CONSTANTS Replicas, Detached

VARIABLES
  committed,  \* the last position the upstream has numbered
  position    \* the position of each replica, or Detached

vars == <<committed, position>>

Init ==
  /\ committed = 0
  /\ position = [r \in Replicas |-> Detached]

(* One call of the upstream may number several batches. *)
Commit ==
  /\ committed' > committed
  /\ UNCHANGED position

Attach(r) ==
  /\ position[r] = Detached
  /\ \E at \in 0 .. committed : position' = [position EXCEPT ![r] = at]
  /\ UNCHANGED committed

Advance(r) ==
  /\ position[r] # Detached
  /\ position[r] < committed
  /\ position' = [position EXCEPT ![r] = @ + 1]
  /\ UNCHANGED committed

Detach(r) ==
  /\ position' = [position EXCEPT ![r] = Detached]
  /\ UNCHANGED committed

Restart ==
  /\ committed' = 0
  /\ position' = [r \in Replicas |-> Detached]

Next ==
  \/ Commit
  \/ Restart
  \/ \E r \in Replicas : Attach(r) \/ Advance(r) \/ Detach(r)

Spec == Init /\ [][Next]_vars
=============================================================================
