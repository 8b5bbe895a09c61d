----------------------------- MODULE Convergence -----------------------------
(***************************************************************************)
(* What replication is for: the contents of a replica's store against the  *)
(* contents of its upstream's.                                             *)
(***************************************************************************)
EXTENDS Replication, SequencesExt

(* Only a master that no stream writes to any more owns its store. *)
Owner(m) == role[m] = "master" /\ ~ client[m]

(* The store of a replica once all that is pending has been received. *)
Deliver(s, msg) ==
  IF msg.tag = "SNAPSHOT" THEN Loaded(msg.items) ELSE ApplyAll(s, msg.effects)
Eventual(n) == FoldLeft(Deliver, store[n], Pending(n))

(* A replica that only applies what an owner streams to it. *)
Streaming(n) == role[n] = "slave" /\ link[n] = "open" /\ Owner(Upstream[n])

(* What the wire leaves of an entry: its deadline in whole milliseconds. *)
OnWire(e) == WithDeadline(e, FromMs(Ms(e.expire_at)))

(* Once it has received what is on its way, a connected replica holds      *)
(* every key of its master as the wire carries it, and besides these only  *)
(* keys that have expired.  So no write is lost, reordered or half applied *)
(* on any path through snapshot, buffered and streamed batches.            *)
CatchesUp ==
  \A n \in Slaves : Streaming(n) =>
    \A k \in Keys : LET e == store[Upstream[n]][k] IN
      IF e # Absent THEN Eventual(n)[k] = OnWire(e)
      ELSE Eventual(n)[k] = Absent \/ IsExpired(Eventual(n)[k])

(* A replica that was never promoted is again and again in step with its   *)
(* upstream, unless the end of its connection tore a line: since the       *)
(* model's clients and faults run out, it ends there.  A restart brings    *)
(* back also a replica that a torn line had stopped.                       *)
InStep(n) == synced[n] /\ link[n] = "open" /\ applied[n] = offset[Upstream[n]]
ReplicasCatchUp == \A n \in Slaves : []<>(role[n] = "master" \/ InStep(n) \/ link[n] = "torn")

(* promote() ends in a node that no longer listens to its old master. *)
PromotionCompletes ==
  \A n \in Slaves : role[n] = "master" ~> role[n] = "slave" \/ Owner(n)

(* A key that expires on a master does not stay there for ever, unless the *)
(* bound on batches stops the master from appending its DEL.               *)
MastersReclaim ==
  \A n \in Nodes, k \in Keys :
    (role[n] = "master" /\ k \in Expired(store[n]))
      ~> (role[n] # "master" \/ k \notin Expired(store[n]) \/ offset[n] = MaxOffset)

-----------------------------------------------------------------------------
(* What the documents say and the code does not do. *)

(* openspec/specs/replication/spec.md:20: however the master finds an      *)
(* expired key, it appends a DEL and the replica deletes it too.           *)
DeletionsReachReplicas ==
  \A n \in Slaves : Streaming(n) =>
    Present(Eventual(n)) \subseteq Present(store[Upstream[n]])
=============================================================================
