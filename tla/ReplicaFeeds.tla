----------------------------- MODULE ReplicaFeeds -----------------------------
(***************************************************************************)
(* The master's end of replication as the coroutines see it                *)
(* (MasterReplicator): one handle_replica for each connection that sent    *)
(* SYNC, with its queue and its transport, and replicas that stall or go   *)
(* away.  Replication says what the messages do to the stores; here they   *)
(* are numbers, the snapshot that of the offset it was taken at.           *)
(*                                                                         *)
(* The transport and the peer's kernel are external: what is written stays *)
(* until the peer takes it, and a connection whose peer has gone is found  *)
(* lost when something is written to it, or earlier, or never.             *)
(***************************************************************************)
EXTENDS Naturals, Sequences

CONSTANTS
  Connections,  \* the connections that replicas make
  HighWater,    \* messages a transport holds before drain() waits
  MaxOffset     \* bound: batches the master appends

ASSUME FeedBounds == HighWater \in Nat /\ MaxOffset \in Nat

VARIABLES
  offset,     \* MasterReplicator.offset
  slaves,     \* MasterReplicator._slaves, by connection
  handler,    \* of a connection: "none", in drain() or in queue.get(), "ended"
  queue,      \* the queue of handle_replica
  transport,  \* written and not taken by the peer
  lost,       \* whether the transport knows that its peer has gone
  peer,       \* "none", "reading", "stalled" or "gone"
  got         \* what the peer took

vars == <<offset, slaves, handler, queue, transport, lost, peer, got>>
peerVars == <<peer, got>>

Init ==
  /\ offset = 0
  /\ slaves = {}
  /\ handler = [c \in Connections |-> "none"]
  /\ queue = [c \in Connections |-> << >>]
  /\ transport = [c \in Connections |-> << >>]
  /\ lost = [c \in Connections |-> FALSE]
  /\ peer = [c \in Connections |-> "none"]
  /\ got = [c \in Connections |-> << >>]

-----------------------------------------------------------------------------
(* Mutant of AppendBatch: a queue that has grown too long takes nothing. *)
AppendIfRoom ==
  /\ offset < MaxOffset
  /\ offset' = offset + 1
  /\ queue' = [c \in Connections |-> IF c \in slaves /\ Len(queue[c]) <= HighWater
                                    THEN Append(queue[c], offset + 1) ELSE queue[c]]
  /\ UNCHANGED <<slaves, handler, transport, lost, peerVars>>

(* append_batch: no await, so it never waits for a replica. *)
AppendBatch ==
  /\ offset < MaxOffset
  /\ offset' = offset + 1
  /\ queue' = [c \in Connections |-> IF c \in slaves THEN Append(queue[c], offset + 1) ELSE queue[c]]
  /\ UNCHANGED <<slaves, handler, transport, lost, peerVars>>

(* A transport that is lost ignores what is written. *)
Write(c, msg) ==
  transport' = [transport EXCEPT ![c] = IF lost[c] THEN @ ELSE Append(@, msg)]

(* handle_replica: the queue is registered as the snapshot is taken. *)
HandleReplica(c) ==
  /\ handler[c] = "none"
  /\ peer' = [peer EXCEPT ![c] = "reading"]
  /\ slaves' = slaves \union {c}
  /\ Write(c, offset)
  /\ handler' = [handler EXCEPT ![c] = "draining"]
  /\ UNCHANGED <<offset, queue, lost, got>>

(* Mutant of Drained: drain() waits for every replica. *)
AllDrained(c) ==
  /\ handler[c] = "draining"
  /\ ~ lost[c]
  /\ \A d \in slaves : Len(transport[d]) <= HighWater
  /\ handler' = [handler EXCEPT ![c] = "waiting"]
  /\ UNCHANGED <<offset, slaves, queue, transport, lost, peerVars>>

Drained(c) ==
  /\ handler[c] = "draining"
  /\ ~ lost[c]
  /\ Len(transport[c]) <= HighWater
  /\ handler' = [handler EXCEPT ![c] = "waiting"]
  /\ UNCHANGED <<offset, slaves, queue, transport, lost, peerVars>>

SendBatch(c) ==
  /\ handler[c] = "waiting"
  /\ queue[c] # << >>
  /\ Write(c, Head(queue[c]))
  /\ queue' = [queue EXCEPT ![c] = Tail(@)]
  /\ handler' = [handler EXCEPT ![c] = "draining"]
  /\ UNCHANGED <<offset, slaves, lost, peerVars>>

(* Mutant of EndReplica: the error is taken for the end of a batch. *)
GoOnReplica(c) ==
  /\ handler[c] = "draining"
  /\ lost[c]
  /\ handler' = [handler EXCEPT ![c] = "waiting"]
  /\ UNCHANGED <<offset, slaves, queue, transport, lost, peerVars>>

(* Mutant of EndReplica: the queue stays registered. *)
EndHandlerOnly(c) ==
  /\ handler[c] = "draining"
  /\ lost[c]
  /\ handler' = [handler EXCEPT ![c] = "ended"]
  /\ UNCHANGED <<offset, slaves, queue, transport, lost, peerVars>>

(* drain() raises on a lost connection, which is the only way out.         *)
EndReplica(c) ==
  /\ handler[c] = "draining"
  /\ lost[c]
  /\ slaves' = slaves \ {c}
  /\ queue' = [queue EXCEPT ![c] = << >>]
  /\ handler' = [handler EXCEPT ![c] = "ended"]
  /\ UNCHANGED <<offset, transport, lost, peerVars>>

-----------------------------------------------------------------------------
(* The replica and the network. *)
Take(c) ==
  /\ peer[c] = "reading"
  /\ transport[c] # << >>
  /\ got' = [got EXCEPT ![c] = Append(@, Head(transport[c]))]
  /\ transport' = [transport EXCEPT ![c] = Tail(@)]
  /\ UNCHANGED <<offset, slaves, handler, queue, lost, peer>>

StallOrResume(c) ==
  /\ peer[c] \in {"reading", "stalled"}
  /\ peer' = [peer EXCEPT ![c] = IF @ = "reading" THEN "stalled" ELSE "reading"]
  /\ UNCHANGED <<offset, slaves, handler, queue, transport, lost, got>>

(* The replica hangs up: its process ends, or its task is cancelled. *)
Leave(c) ==
  /\ peer[c] \in {"reading", "stalled"}
  /\ peer' = [peer EXCEPT ![c] = "gone"]
  /\ UNCHANGED <<offset, slaves, handler, queue, transport, lost, got>>

ConnectionLost(c) ==
  /\ peer[c] = "gone"
  /\ ~ lost[c]
  /\ lost' = [lost EXCEPT ![c] = TRUE]
  /\ transport' = [transport EXCEPT ![c] = << >>]
  /\ UNCHANGED <<offset, slaves, handler, queue, peerVars>>

-----------------------------------------------------------------------------
Handler(c) == Drained(c) \/ SendBatch(c) \/ EndReplica(c)
Replica(c) == HandleReplica(c) \/ Take(c) \/ StallOrResume(c) \/ Leave(c)

Next == AppendBatch \/ \E c \in Connections : Handler(c) \/ Replica(c) \/ ConnectionLost(c)

Spec == Init /\ [][Next]_vars

(* The event loop runs what is ready, a replica that reads goes on, and a  *)
(* write to a peer that has gone is answered with a reset.                 *)
FairSpec ==
  /\ Spec
  /\ \A c \in Connections :
       /\ WF_vars(Handler(c))
       /\ WF_vars(Take(c))
       /\ WF_vars(transport[c] # << >> /\ ConnectionLost(c))

-----------------------------------------------------------------------------
Served == {c \in Connections : handler[c] \in {"draining", "waiting"}}

TypeOK ==
  /\ offset \in 0 .. MaxOffset
  /\ handler \in [Connections -> {"none", "draining", "waiting", "ended"}]
  /\ slaves = Served
  /\ queue \in [Connections -> Seq(1 .. MaxOffset)]
  /\ transport \in [Connections -> Seq(0 .. MaxOffset)]
  /\ lost \in [Connections -> BOOLEAN]
  /\ peer \in [Connections -> {"none", "reading", "stalled", "gone"}]
  /\ got \in [Connections -> Seq(0 .. MaxOffset)]

(* Whatever stalls and resumes on either side, what a served replica has   *)
(* taken, what is under way and what is queued make up the snapshot and    *)
(* every batch behind it, in order, up to the master's offset.             *)
Stream(c) == got[c] \o transport[c] \o queue[c]
StreamIsGapless ==
  \A c \in Served : ~ lost[c] =>
    /\ \A i \in 1 .. Len(Stream(c)) - 1 : Stream(c)[i + 1] = Stream(c)[i] + 1
    /\ Stream(c)[Len(Stream(c))] = offset

(* A replica that reads gets everything, though others stall or are gone.  *)
UpToDate(c) == got[c] # << >> /\ got[c][Len(got[c])] = offset
ReadersGetEverything ==
  \A c \in Connections : []<>(peer[c] # "reading" \/ UpToDate(c))

(* A replica that has gone ties up no more than a transport holds without *)
(* waiting: what is written beyond that, or to a connection that is known  *)
(* to be lost, ends its handler and takes its queue off the list.          *)
Overdue(c) == (lost[c] /\ queue[c] # << >>) \/ Len(transport[c] \o queue[c]) > HighWater
WritesEndDeadFeeds ==
  \A c \in Connections : (peer[c] = "gone" /\ Overdue(c)) ~> c \notin slaves

-----------------------------------------------------------------------------
(* openspec/specs/cache-server/spec.md:19-20: when a client disconnects,   *)
(* its coroutine ends and its buffers are freed.                           *)
DisconnectEndsHandler == \A c \in Connections : peer[c] = "gone" ~> c \notin Served
=============================================================================
