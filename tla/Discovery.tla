------------------------------ MODULE Discovery ------------------------------
(***************************************************************************)
(* Service discovery (distcache/discovery.py, and its use by serve.py and  *)
(* client.py).  Each node registers a key in etcd under a lease that a     *)
(* thread refreshes; a client lists the keys, watches them from then on,   *)
(* and keeps its table of addresses and its hash ring to what it is told.  *)
(*                                                                         *)
(* etcd itself is external: keys attached to leases, and a watch that      *)
(* delivers the changes made after it began, in order.  The ring is the    *)
(* set of its members; HashRing says where it sends a key.                 *)
(***************************************************************************)
EXTENDS Naturals, Sequences, FiniteSets

CONSTANTS
  Nodes,      \* the host:port of the nodes
  MaxStarts,  \* bound: times a node is started
  MaxLapses   \* bound: leases that expire although their node runs

ASSUME DiscoveryBounds == MaxStarts \in Nat \ {0} /\ MaxLapses \in Nat

VARIABLES
  process,  \* of a node: "down", "granted" a lease, or "up" and registered
  starts,   \* how often the node was started: the name of its latest lease
  alive,    \* the leases etcd holds
  key,      \* the lease the node's key in etcd is attached to, 0 for no key
  lapses,
  phase,    \* of the client: "new", "listed", "watching", "closed"
  addr,     \* DistributedCacheClient._addr
  ring,     \* the members of DistributedCacheClient.ring
  events,   \* watch events the callback has not been given yet
  calling,  \* the on_add or on_remove that is half done, if any
  missed    \* auxiliary: nodes that changed between the list and the watch, and not since

nodeVars == <<process, starts>>
etcdVars == <<alive, key>>
clientVars == <<phase, addr, ring, calling>>
vars == <<nodeVars, etcdVars, lapses, clientVars, events, missed>>

-----------------------------------------------------------------------------
(* etcd tells a watching client of each change of a key. *)
Notify(kind, n) ==
  IF phase = "watching"
    THEN events' = Append(events, [kind |-> kind, node |-> n]) /\ missed' = missed \ {n}
    ELSE UNCHANGED <<events, missed>>

(* A lease ends, and the key that is attached to it goes with it. *)
EndLease(n, i) ==
  /\ alive' = alive \ {<<n, i>>}
  /\ IF key[n] = i THEN key' = [key EXCEPT ![n] = 0] /\ Notify("DELETE", n)
                   ELSE UNCHANGED <<key, events, missed>>

Init ==
  /\ process = [n \in Nodes |-> "down"]
  /\ starts = [n \in Nodes |-> 0]
  /\ alive = {}
  /\ key = [n \in Nodes |-> 0]
  /\ lapses = 0
  /\ phase = "new"
  /\ addr = {} /\ ring = {}
  /\ events = << >>
  /\ calling = << >>
  /\ missed = {}

-----------------------------------------------------------------------------
(* The node: serve.py with --etcd. *)

(* register: a lease is granted ... *)
GrantLease(n) ==
  /\ process[n] = "down"
  /\ starts[n] < MaxStarts
  /\ process' = [process EXCEPT ![n] = "granted"]
  /\ starts' = [starts EXCEPT ![n] = @ + 1]
  /\ alive' = alive \union {<<n, starts[n] + 1>>}
  /\ UNCHANGED <<key, lapses, clientVars, events, missed>>

(* Mutant of PutKey: a key that is there is not put again. *)
PutIfAbsent(n) ==
  /\ process[n] = "granted"
  /\ <<n, starts[n]>> \in alive
  /\ process' = [process EXCEPT ![n] = "up"]
  /\ key' = [key EXCEPT ![n] = IF @ = 0 THEN starts[n] ELSE @]
  /\ Notify("PUT", n)
  /\ UNCHANGED <<starts, alive, lapses, clientVars>>

(* ... then the key is put under it, and the keepalive thread starts. *)
PutKey(n) ==
  /\ process[n] = "granted"
  /\ <<n, starts[n]>> \in alive
  /\ process' = [process EXCEPT ![n] = "up"]
  /\ key' = [key EXCEPT ![n] = starts[n]]
  /\ Notify("PUT", n)
  /\ UNCHANGED <<starts, alive, lapses, clientVars>>

(* deregister: the keepalive thread ends and the lease is revoked.  An     *)
(* error of the revocation is swallowed: then the lease is left to expire. *)
Deregister(n) ==
  /\ process[n] = "up"
  /\ process' = [process EXCEPT ![n] = "down"]
  /\ EndLease(n, starts[n]) \/ UNCHANGED <<etcdVars, events, missed>>
  /\ UNCHANGED <<starts, lapses, clientVars>>

(* The process is killed, or a call of register raises and ends it. *)
Crash(n) ==
  /\ process[n] # "down"
  /\ process' = [process EXCEPT ![n] = "down"]
  /\ UNCHANGED <<starts, etcdVars, lapses, clientVars, events, missed>>

(* Nobody refreshes the lease any more ... *)
LeaseExpires(n, i) ==
  /\ <<n, i>> \in alive
  /\ process[n] = "down" \/ i # starts[n]
  /\ EndLease(n, i)
  /\ UNCHANGED <<nodeVars, lapses, clientVars>>

(* ... or every refresh fails for the length of its TTL.  The keepalive    *)
(* thread swallows the errors and goes on refreshing what is gone.         *)
LeaseLapses(n) ==
  /\ <<n, starts[n]>> \in alive
  /\ process[n] # "down"
  /\ lapses < MaxLapses
  /\ lapses' = lapses + 1
  /\ EndLease(n, starts[n])
  /\ UNCHANGED <<nodeVars, clientVars>>

-----------------------------------------------------------------------------
(* The client. *)

(* The constructor: list_nodes, and each node added; nothing else of the   *)
(* client runs yet.                                                        *)
ListNodes ==
  /\ phase = "new"
  /\ phase' = "listed"
  /\ addr' = {n \in Nodes : key[n] # 0}
  /\ ring' = addr'
  /\ UNCHANGED <<nodeVars, etcdVars, lapses, events, calling, missed>>

StartWatch ==
  /\ phase = "listed"
  /\ phase' = "watching"
  /\ missed' = {n \in Nodes : n \in addr <=> key[n] = 0}
  /\ UNCHANGED <<nodeVars, etcdVars, lapses, addr, ring, events, calling>>

(* The callback, in the watcher's thread.  Each of on_add and on_remove    *)
(* takes the lock of the table and the lock of the ring one after the      *)
(* other; Close may run between.                                           *)
NextEvent(kind) ==
  /\ phase = "watching"
  /\ calling = << >>
  /\ events # << >>
  /\ Head(events).kind = kind
  /\ events' = Tail(events)
  /\ UNCHANGED <<nodeVars, etcdVars, lapses, phase, missed>>

(* Mutant of AddAddress: the ring is first. *)
AddToRing ==
  /\ NextEvent("PUT")
  /\ ring' = ring \union {Head(events).node}
  /\ calling' = <<Head(events)>>
  /\ UNCHANGED addr

(* Mutant of AddAddress: the event is kept for the node. *)
AddEvent ==
  /\ NextEvent("PUT")
  /\ addr' = addr \union {Head(events)}
  /\ calling' = <<Head(events)>>
  /\ UNCHANGED ring

AddAddress ==
  /\ NextEvent("PUT")
  /\ LET n == Head(events).node IN
     IF n \in addr THEN UNCHANGED <<addr, calling>>
     ELSE addr' = addr \union {n} /\ calling' = <<Head(events)>>
  /\ UNCHANGED ring

(* Mutant of RemoveFromRing: a DELETE is not acted on. *)
IgnoreDelete == NextEvent("DELETE") /\ UNCHANGED <<addr, ring, calling>>

RemoveFromRing ==
  /\ NextEvent("DELETE")
  /\ ring' = ring \ {Head(events).node}
  /\ calling' = <<Head(events)>>
  /\ UNCHANGED addr

(* Mutant of FinishCall: on_remove keeps the address. *)
FinishAddOnly ==
  /\ calling # << >>
  /\ IF calling[1].kind = "PUT" THEN ring' = ring \union {calling[1].node} ELSE UNCHANGED ring
  /\ calling' = << >>
  /\ UNCHANGED <<nodeVars, etcdVars, lapses, phase, addr, events, missed>>

FinishCall ==
  /\ calling # << >>
  /\ LET n == calling[1].node IN
     IF calling[1].kind = "PUT" THEN ring' = ring \union {n} /\ UNCHANGED addr
     ELSE addr' = addr \ {n} /\ UNCHANGED ring
  /\ calling' = << >>
  /\ UNCHANGED <<nodeVars, etcdVars, lapses, phase, events, missed>>

(* close() stops the watcher; the ring stays as it is. *)
Close ==
  /\ phase = "watching"
  /\ phase' = "closed"
  /\ events' = << >>
  /\ UNCHANGED <<nodeVars, etcdVars, lapses, addr, ring, calling, missed>>

-----------------------------------------------------------------------------
NodeStep(n) ==
  \/ GrantLease(n) \/ PutKey(n) \/ Deregister(n) \/ Crash(n) \/ LeaseLapses(n)
  \/ \E i \in 1 .. MaxStarts : LeaseExpires(n, i)

Watcher == AddAddress \/ RemoveFromRing \/ FinishCall

Next ==
  \/ \E n \in Nodes : NodeStep(n)
  \/ ListNodes \/ StartWatch \/ Close
  \/ Watcher

Spec == Init /\ [][Next]_vars

(* An unrefreshed lease expires, and the watcher's thread is scheduled. *)
FairSpec ==
  /\ Spec
  /\ WF_vars(Watcher)
  /\ \A n \in Nodes, i \in 1 .. MaxStarts : WF_vars(LeaseExpires(n, i))

-----------------------------------------------------------------------------
Events == [kind : {"PUT", "DELETE"}, node : Nodes]

TypeOK ==
  /\ process \in [Nodes -> {"down", "granted", "up"}]
  /\ starts \in [Nodes -> 0 .. MaxStarts]
  /\ alive \subseteq Nodes \X (1 .. MaxStarts)
  /\ key \in [Nodes -> 0 .. MaxStarts]
  /\ lapses \in 0 .. MaxLapses
  /\ phase \in {"new", "listed", "watching", "closed"}
  /\ addr \subseteq Nodes /\ ring \subseteq Nodes
  /\ events \in Seq(Events)
  /\ calling \in {<< >>} \union {<<e>> : e \in Events}
  /\ missed \subseteq Nodes

(* Every node the ring can name has an address, in the middle of on_add    *)
(* and on_remove too: a request fails as "no longer registered" only when  *)
(* its node left the ring after the request was routed.                    *)
RoutableHasAddress == ring \subseteq addr

(* A restarted node is registered under its own lease: what is left of its *)
(* predecessor's, which expires later, does not take the new key away.     *)
OwnLeaseHoldsKey ==
  \A n \in Nodes :
    process[n] = "up" /\ <<n, starts[n]>> \in alive => key[n] = starts[n]

(* Once the events on their way are handled, the client knows exactly the  *)
(* registered nodes, apart from changes it missed before the watch began.  *)
InFlight == calling \o events
OfNode(n) == {i \in 1 .. Len(InFlight) : InFlight[i].node = n}
WillKnow(n) ==
  IF OfNode(n) = {} THEN n \in addr
  ELSE InFlight[CHOOSE i \in OfNode(n) : \A j \in OfNode(n) : j <= i].kind = "PUT"
WatchIsExact ==
  phase = "watching" => \A n \in Nodes \ missed : WillKnow(n) <=> key[n] # 0

(* A node that crashes and stays down leaves the ring: its lease expires,  *)
(* and the watch reports it.                                               *)
CrashedNodesLeave ==
  \A n \in Nodes :
    (phase = "watching" /\ process[n] = "down" /\ n \notin missed)
      ~> (phase # "watching" \/ process[n] # "down" \/ n \notin ring)
=============================================================================
