-------------------------- MODULE DiscoveryProofs --------------------------
(***************************************************************************)
(* Theorems about Discovery, for any set of nodes and any number of        *)
(* restarts and of lapsed leases.                                          *)
(***************************************************************************)
EXTENDS Discovery, DataLemmas, SequenceTheorems

USE DiscoveryBounds

Leases == 0 .. MaxStarts

-----------------------------------------------------------------------------
(* Type correctness. *)

LEMMA TypeInit == Init => TypeOK
BY DEF Init, TypeOK

LEMMA NotifyTypes ==
  ASSUME TypeOK, NEW kind \in {"PUT", "DELETE"}, NEW n \in Nodes, Notify(kind, n)
  PROVE  events' \in Seq(Events) /\ missed' \subseteq Nodes
<1>1. [kind |-> kind, node |-> n] \in Events
  BY DEF Events
<1>2. Append(events, [kind |-> kind, node |-> n]) \in Seq(Events)
  BY <1>1, AppendProperties DEF TypeOK
<1> QED BY <1>2 DEF Notify, TypeOK

LEMMA EndLeaseTypes ==
  ASSUME TypeOK, NEW n \in Nodes, NEW i \in Leases, EndLease(n, i)
  PROVE  /\ alive' \subseteq Nodes \X (1 .. MaxStarts)
         /\ key' \in [Nodes -> Leases]
         /\ events' \in Seq(Events) /\ missed' \subseteq Nodes
<1>1. CASE key[n] = i
  <2>1. key' = [key EXCEPT ![n] = 0] /\ Notify("DELETE", n)
    BY <1>1 DEF EndLease
  <2>2. events' \in Seq(Events) /\ missed' \subseteq Nodes
    BY <2>1, NotifyTypes
  <2> QED BY <2>1, <2>2 DEF EndLease, TypeOK, Leases
<1>2. CASE key[n] # i
  BY <1>2 DEF EndLease, TypeOK, Leases
<1> QED BY <1>1, <1>2

LEMMA NodeTypes ==
  ASSUME TypeOK, NEW n \in Nodes, NodeStep(n) PROVE TypeOK'
<1>1. CASE GrantLease(n)
  <2>1. starts[n] + 1 \in 1 .. MaxStarts
    BY <1>1 DEF GrantLease, TypeOK
  <2> QED BY <1>1, <2>1 DEF GrantLease, TypeOK, clientVars
<1>2. CASE PutKey(n)
  <2>1. events' \in Seq(Events) /\ missed' \subseteq Nodes
    BY <1>2, NotifyTypes DEF PutKey
  <2> QED BY <1>2, <2>1 DEF PutKey, TypeOK, clientVars
<1>3. CASE Deregister(n)
  <2>1. /\ alive' \subseteq Nodes \X (1 .. MaxStarts)
        /\ key' \in [Nodes -> Leases]
        /\ events' \in Seq(Events) /\ missed' \subseteq Nodes
    <3>1. starts[n] \in Leases
      BY DEF TypeOK, Leases
    <3>2. CASE EndLease(n, starts[n])
      BY <3>1, <3>2, EndLeaseTypes
    <3>3. CASE UNCHANGED <<etcdVars, events, missed>>
      BY <3>3 DEF TypeOK, etcdVars, Leases
    <3> QED BY <1>3, <3>2, <3>3 DEF Deregister
  <2> QED BY <1>3, <2>1 DEF Deregister, TypeOK, clientVars, Leases
<1>4. CASE Crash(n)
  BY <1>4 DEF Crash, TypeOK, etcdVars, clientVars
<1>5. CASE LeaseLapses(n)
  <2>1. lapses' \in 0 .. MaxLapses
    BY <1>5 DEF LeaseLapses, TypeOK
  <2>2. starts[n] \in Leases
    BY DEF TypeOK, Leases
  <2> QED BY <1>5, <2>1, <2>2, EndLeaseTypes DEF LeaseLapses, TypeOK, nodeVars, clientVars, Leases
<1>6. ASSUME NEW i \in 1 .. MaxStarts, LeaseExpires(n, i) PROVE TypeOK'
  <2>1. i \in Leases
    BY DEF Leases
  <2> QED BY <1>6, <2>1, EndLeaseTypes DEF LeaseExpires, TypeOK, nodeVars, clientVars, Leases
<1> QED BY <1>1, <1>2, <1>3, <1>4, <1>5, <1>6 DEF NodeStep

(* The event that the callback takes. *)
LEMMA HeadEvent ==
  ASSUME TypeOK, events # << >>
  PROVE  Head(events) \in Events /\ Head(events).node \in Nodes /\ Tail(events) \in Seq(Events)
<1>1. Head(events) \in Events /\ Tail(events) \in Seq(Events)
  BY HeadTailProperties DEF TypeOK
<1> QED BY <1>1 DEF Events

LEMMA CallType ==
  ASSUME TypeOK, calling # << >>
  PROVE  /\ calling[1] \in Events /\ calling = <<calling[1]>>
         /\ calling[1].kind \in {"PUT", "DELETE"} /\ calling[1].node \in Nodes
<1>1. PICK e \in Events : calling = <<e>>
  BY DEF TypeOK
<1>2. calling[1] = e
  BY <1>1
<1> QED BY <1>1, <1>2 DEF Events

LEMMA ClientTypes ==
  ASSUME TypeOK, ListNodes \/ StartWatch \/ Close \/ Watcher PROVE TypeOK'
<1>1. CASE ListNodes
  BY <1>1 DEF ListNodes, TypeOK, nodeVars, etcdVars
<1>2. CASE StartWatch
  BY <1>2 DEF StartWatch, TypeOK, nodeVars, etcdVars
<1>3. CASE Close
  BY <1>3, EmptySeq DEF Close, TypeOK, nodeVars, etcdVars
<1>4. CASE AddAddress
  BY <1>4, HeadEvent DEF AddAddress, NextEvent, TypeOK, nodeVars, etcdVars
<1>5. CASE RemoveFromRing
  BY <1>5, HeadEvent DEF RemoveFromRing, NextEvent, TypeOK, nodeVars, etcdVars
<1>6. CASE FinishCall
  BY <1>6, CallType DEF FinishCall, TypeOK, nodeVars, etcdVars
<1> QED BY <1>1, <1>2, <1>3, <1>4, <1>5, <1>6 DEF Watcher

LEMMA TypeNext == TypeOK /\ [Next]_vars => TypeOK'
<1>1. TypeOK /\ UNCHANGED vars => TypeOK'
  BY DEF vars, nodeVars, etcdVars, clientVars, TypeOK
<1> QED BY <1>1, NodeTypes, ClientTypes DEF Next

(* The registrations, the client's table and what is on its way between    *)
(* them stay what they are meant to be.                                    *)
THEOREM TypeCorrect == Spec => []TypeOK
BY TypeInit, TypeNext, PTL DEF Spec

-----------------------------------------------------------------------------
(* The table of addresses and the ring. *)

(* In the middle of on_add the address is there already, and in the middle *)
(* of on_remove the ring has let the node go.                              *)
HalfDone ==
  calling # << >> =>
    /\ calling[1].kind = "PUT" => calling[1].node \in addr
    /\ calling[1].kind = "DELETE" => calling[1].node \notin ring

(* Before the watch nothing is on its way. *)
QuietBefore == phase \in {"new", "listed"} => calling = << >> /\ events = << >>

RouteInv == TypeOK /\ RoutableHasAddress /\ HalfDone /\ QuietBefore

LEMMA QuietNext == QuietBefore /\ [Next]_vars => QuietBefore'
<1> SUFFICES ASSUME QuietBefore, [Next]_vars, phase' \in {"new", "listed"}
             PROVE  calling' = << >> /\ events' = << >>
  BY DEF QuietBefore
<1>1. ASSUME NEW n \in Nodes, NodeStep(n) PROVE UNCHANGED <<phase, calling>>
  BY <1>1 DEF NodeStep, GrantLease, PutKey, Deregister, Crash, LeaseLapses, LeaseExpires, clientVars
<1>2. ASSUME NEW n \in Nodes, NodeStep(n), phase # "watching" PROVE UNCHANGED events
  BY <1>2 DEF NodeStep, GrantLease, PutKey, Deregister, Crash, LeaseLapses, LeaseExpires,
              EndLease, Notify
<1>3. CASE \E n \in Nodes : NodeStep(n)
  BY <1>1, <1>2, <1>3 DEF QuietBefore
<1>4. CASE ListNodes \/ StartWatch \/ Close \/ Watcher
  BY <1>4 DEF ListNodes, StartWatch, Close, Watcher, AddAddress, RemoveFromRing, NextEvent,
              FinishCall, QuietBefore
<1>5. CASE UNCHANGED vars
  BY <1>5 DEF vars, clientVars, QuietBefore
<1> QED BY <1>3, <1>4, <1>5 DEF Next

LEMMA NodesLeaveClient ==
  ASSUME NEW n \in Nodes, NodeStep(n) PROVE UNCHANGED clientVars
BY DEF NodeStep, GrantLease, PutKey, Deregister, Crash, LeaseLapses, LeaseExpires

LEMMA ClientRoutes ==
  ASSUME RouteInv, ListNodes \/ StartWatch \/ Close \/ Watcher
  PROVE  RoutableHasAddress' /\ HalfDone'
<1>1. CASE ListNodes
  BY <1>1 DEF ListNodes, RouteInv, RoutableHasAddress, HalfDone, QuietBefore
<1>2. CASE StartWatch \/ Close
  <2>1. UNCHANGED <<addr, ring, calling>>
    BY <1>2 DEF StartWatch, Close
  <2> QED BY <2>1 DEF RouteInv, RoutableHasAddress, HalfDone
<1>3. CASE AddAddress
  <2>1. events # << >> /\ Head(events).kind = "PUT" /\ ring' = ring /\ calling = << >>
    BY <1>3 DEF AddAddress, NextEvent
  <2>2. CASE Head(events).node \in addr
    BY <1>3, <2>1, <2>2 DEF AddAddress, RouteInv, RoutableHasAddress, HalfDone
  <2>3. CASE Head(events).node \notin addr
    <3>1. addr' = addr \union {Head(events).node} /\ calling' = <<Head(events)>>
      BY <1>3, <2>3 DEF AddAddress
    <3> QED BY <2>1, <3>1 DEF RouteInv, RoutableHasAddress, HalfDone
  <2> QED BY <2>2, <2>3
<1>4. CASE RemoveFromRing
  <2>1. /\ ring' = ring \ {Head(events).node} /\ addr' = addr
        /\ calling' = <<Head(events)>> /\ Head(events).kind = "DELETE"
    BY <1>4 DEF RemoveFromRing, NextEvent
  <2> QED BY <2>1 DEF RouteInv, RoutableHasAddress, HalfDone
<1>5. CASE FinishCall
  BY <1>5, CallType DEF FinishCall, RouteInv, RoutableHasAddress, HalfDone
<1> QED BY <1>1, <1>2, <1>3, <1>4, <1>5 DEF Watcher

(* RoutableHasAddress: the two locks of on_add and on_remove are taken in  *)
(* an order that never leaves a node of the ring without an address.       *)
THEOREM RoutesHaveAddresses == Spec => []RoutableHasAddress
<1>1. Init => RouteInv
  BY TypeInit DEF Init, RouteInv, RoutableHasAddress, HalfDone, QuietBefore
<1>2. RouteInv /\ [Next]_vars => RouteInv'
  <2> SUFFICES ASSUME RouteInv, [Next]_vars PROVE RoutableHasAddress' /\ HalfDone'
    BY TypeNext, QuietNext DEF RouteInv
  <2>1. CASE UNCHANGED clientVars
    BY <2>1 DEF clientVars, RouteInv, RoutableHasAddress, HalfDone
  <2> QED BY <2>1, NodesLeaveClient, ClientRoutes DEF Next, vars
<1>3. RouteInv => RoutableHasAddress
  BY DEF RouteInv
<1> QED BY <1>1, <1>2, <1>3, PTL DEF Spec

-----------------------------------------------------------------------------
(* Leases and keys. *)

LEMMA EndLeaseKeepsOwn ==
  ASSUME TypeOK, OwnLeaseHoldsKey, NEW n \in Nodes, NEW i \in Leases, EndLease(n, i),
         UNCHANGED starts, \A m \in Nodes : process'[m] = "up" => process[m] = "up"
  PROVE  OwnLeaseHoldsKey'
<1> SUFFICES ASSUME NEW m \in Nodes, process'[m] = "up", <<m, starts[m]>> \in alive'
             PROVE  key'[m] = starts[m]
  BY DEF OwnLeaseHoldsKey
<1>1. <<m, starts[m]>> \in alive /\ <<m, starts[m]>> # <<n, i>>
  BY DEF EndLease
<1>2. key[m] = starts[m]
  BY <1>1 DEF OwnLeaseHoldsKey
<1>3. CASE m = n
  <2>1. key[n] # i
    BY <1>1, <1>2, <1>3
  <2> QED BY <1>2, <2>1 DEF EndLease
<1>4. CASE m # n
  BY <1>2, <1>4 DEF EndLease, TypeOK
<1> QED BY <1>3, <1>4

LEMMA NodesKeepOwn ==
  ASSUME TypeOK, OwnLeaseHoldsKey, NEW n \in Nodes, NodeStep(n)
  PROVE  OwnLeaseHoldsKey'
<1>0. starts[n] \in Leases
  BY DEF TypeOK, Leases
<1>1. CASE GrantLease(n)
  BY <1>1 DEF GrantLease, OwnLeaseHoldsKey, TypeOK
<1>2. CASE PutKey(n)
  BY <1>2 DEF PutKey, OwnLeaseHoldsKey, TypeOK
<1>3. CASE Deregister(n)
  <2>1. \A m \in Nodes : process'[m] = "up" => process[m] = "up"
    BY <1>3 DEF Deregister, TypeOK
  <2>2. CASE EndLease(n, starts[n])
    BY <1>0, <1>3, <2>1, <2>2, EndLeaseKeepsOwn DEF Deregister
  <2>3. CASE UNCHANGED <<etcdVars, events, missed>>
    BY <1>3, <2>1, <2>3 DEF Deregister, OwnLeaseHoldsKey, etcdVars
  <2> QED BY <1>3, <2>2, <2>3 DEF Deregister
<1>4. CASE Crash(n)
  BY <1>4 DEF Crash, OwnLeaseHoldsKey, TypeOK, etcdVars
<1>5. CASE LeaseLapses(n)
  BY <1>0, <1>5, EndLeaseKeepsOwn DEF LeaseLapses, nodeVars
<1>6. ASSUME NEW i \in 1 .. MaxStarts, LeaseExpires(n, i) PROVE OwnLeaseHoldsKey'
  <2>1. i \in Leases
    BY DEF Leases
  <2> QED BY <1>6, <2>1, EndLeaseKeepsOwn DEF LeaseExpires, nodeVars
<1> QED BY <1>1, <1>2, <1>3, <1>4, <1>5, <1>6 DEF NodeStep

(* OwnLeaseHoldsKey: no order of crashes, restarts and expiring leases of  *)
(* earlier lives takes the key of a registered node away from it.          *)
THEOREM RestartsKeepRegistration == Spec => []OwnLeaseHoldsKey
<1>1. Init => OwnLeaseHoldsKey
  BY DEF Init, OwnLeaseHoldsKey
<1>2. TypeOK /\ OwnLeaseHoldsKey /\ [Next]_vars => OwnLeaseHoldsKey'
  <2> SUFFICES ASSUME TypeOK, OwnLeaseHoldsKey, [Next]_vars PROVE OwnLeaseHoldsKey'
    OBVIOUS
  <2>1. CASE UNCHANGED <<nodeVars, etcdVars>>
    BY <2>1 DEF nodeVars, etcdVars, OwnLeaseHoldsKey
  <2>2. CASE ListNodes \/ StartWatch \/ Close \/ Watcher
    BY <2>1, <2>2 DEF ListNodes, StartWatch, Close, Watcher, AddAddress, RemoveFromRing, NextEvent,
                      FinishCall
  <2> QED BY <2>1, <2>2, NodesKeepOwn DEF Next, vars
<1> QED BY <1>1, <1>2, TypeCorrect, PTL DEF Spec

-----------------------------------------------------------------------------
(* What the client will know of a node once it has handled the events s,   *)
(* with the addresses a before.                                            *)
Of(s, n) == {i \in 1 .. Len(s) : s[i].node = n}
Knows(s, a, n) ==
  IF Of(s, n) = {} THEN n \in a
  ELSE s[CHOOSE i \in Of(s, n) : \A j \in Of(s, n) : j <= i].kind = "PUT"

LEMMA KnowsByLast ==
  ASSUME NEW s \in Seq(Events), NEW a, NEW n,
         NEW i \in Of(s, n), \A j \in Of(s, n) : j <= i
  PROVE  Knows(s, a, n) = (s[i].kind = "PUT")
<1>1. ASSUME NEW x \in Of(s, n), \A j \in Of(s, n) : j <= x PROVE x = i
  <2>1. x <= i /\ i <= x
    BY <1>1
  <2>2. x \in Nat /\ i \in Nat
    BY DEF Of
  <2> QED BY <2>1, <2>2
<1>2. (CHOOSE x \in Of(s, n) : \A j \in Of(s, n) : j <= x) = i
  BY <1>1
<1> QED BY <1>2 DEF Knows

LEMMA LastExists ==
  ASSUME NEW s \in Seq(Events), NEW n, Of(s, n) # {}
  PROVE  \E i \in Of(s, n) : \A j \in Of(s, n) : j <= i
<1>1. Of(s, n) \in SUBSET (0 .. Len(s)) /\ Len(s) \in Nat
  BY DEF Of
<1> QED BY <1>1, GreatestNumber

LEMMA KnowsAppend ==
  ASSUME NEW s \in Seq(Events), NEW e \in Events, NEW a, NEW n
  PROVE  Knows(Append(s, e), a, n) = IF e.node = n THEN e.kind = "PUT" ELSE Knows(s, a, n)
<1> DEFINE t == Append(s, e)
<1>1. /\ t \in Seq(Events) /\ Len(t) = Len(s) + 1 /\ Len(s) \in Nat
      /\ t[Len(s) + 1] = e /\ \A i \in 1 .. Len(s) : t[i] = s[i]
  BY AppendProperties
<1> HIDE DEF t
<1>2. CASE e.node = n
  <2>1. Len(s) + 1 \in Of(t, n) /\ \A j \in Of(t, n) : j <= Len(s) + 1
    BY <1>1, <1>2 DEF Of
  <2>2. Knows(t, a, n) = (t[Len(s) + 1].kind = "PUT")
    BY <1>1, <2>1, KnowsByLast
  <2> QED BY <1>1, <1>2, <2>2 DEF t
<1>3. CASE e.node # n
  <2>1. Of(t, n) = Of(s, n)
    BY <1>1, <1>3 DEF Of
  <2>2. CASE Of(s, n) = {}
    BY <1>3, <2>1, <2>2 DEF Knows, t
  <2>3. CASE Of(s, n) # {}
    <3>1. PICK i \in Of(s, n) : \A j \in Of(s, n) : j <= i
      BY <2>3, LastExists
    <3>2. Knows(t, a, n) = (t[i].kind = "PUT")
      BY <1>1, <2>1, <3>1, KnowsByLast
    <3>3. Knows(s, a, n) = (s[i].kind = "PUT")
      BY <3>1, KnowsByLast
    <3>4. t[i] = s[i]
      BY <1>1 DEF Of
    <3> QED BY <1>3, <3>2, <3>3, <3>4 DEF t
  <2> QED BY <2>2, <2>3
<1> QED BY <1>2, <1>3

(* The first event is handled: the addresses become b. *)
LEMMA KnowsTail ==
  ASSUME NEW s \in Seq(Events), s # << >>, NEW a, NEW b, NEW n,
         n \in b <=> IF Head(s).node = n THEN Head(s).kind = "PUT" ELSE n \in a
  PROVE  Knows(Tail(s), b, n) = Knows(s, a, n)
<1> DEFINE t == Tail(s)
<1>1. /\ t \in Seq(Events) /\ Len(t) = Len(s) - 1 /\ Len(s) \in Nat \ {0}
      /\ \A i \in 1 .. Len(t) : t[i] = s[i + 1]
  BY HeadTailProperties, EmptySeq
<1>2. Head(s) = s[1]
  OBVIOUS
<1> HIDE DEF t
<1>3. \A i \in 1 .. Len(t) : i \in Of(t, n) <=> i + 1 \in Of(s, n)
  BY <1>1 DEF Of
<1>4. 1 \in Of(s, n) <=> Head(s).node = n
  BY <1>1, <1>2 DEF Of
<1>5. CASE Of(t, n) = {}
  <2>1. Of(s, n) \subseteq {1}
    <3>1. ASSUME NEW i \in Of(s, n), i # 1 PROVE FALSE
      <4>1. i - 1 \in 1 .. Len(t) /\ (i - 1) + 1 = i
        BY <1>1, <3>1 DEF Of
      <4>2. i - 1 \in Of(t, n)
        BY <1>3, <4>1
      <4> QED BY <1>5, <4>2
    <3> QED BY <3>1
  <2>2. CASE Head(s).node = n
    <3>1. 1 \in Of(s, n) /\ \A j \in Of(s, n) : j <= 1
      BY <1>4, <2>1, <2>2
    <3>2. Knows(s, a, n) = (s[1].kind = "PUT")
      BY <3>1, KnowsByLast
    <3> QED BY <1>2, <1>5, <2>2, <3>2 DEF Knows, t
  <2>3. CASE Head(s).node # n
    <3>1. Of(s, n) = {}
      BY <1>4, <2>1, <2>3
    <3> QED BY <1>5, <2>3, <3>1 DEF Knows, t
  <2> QED BY <2>2, <2>3
<1>6. CASE Of(t, n) # {}
  <2>1. PICK i \in Of(t, n) : \A j \in Of(t, n) : j <= i
    BY <1>1, <1>6, LastExists
  <2>2. i \in 1 .. Len(t) /\ i + 1 \in Of(s, n)
    BY <1>3 DEF Of
  <2>3. ASSUME NEW j \in Of(s, n) PROVE j <= i + 1
    <3>1. CASE j = 1
      BY <2>2, <3>1
    <3>2. CASE j # 1
      <4>1. j - 1 \in 1 .. Len(t) /\ (j - 1) + 1 = j
        BY <1>1, <3>2 DEF Of
      <4>2. j - 1 \in Of(t, n)
        BY <1>3, <4>1
      <4> QED BY <2>1, <2>2, <4>1, <4>2
    <3> QED BY <3>1, <3>2
  <2>4. Knows(t, b, n) = (t[i].kind = "PUT")
    BY <1>1, <2>1, KnowsByLast
  <2>5. Knows(s, a, n) = (s[i + 1].kind = "PUT")
    BY <2>2, <2>3, KnowsByLast
  <2> QED BY <1>1, <2>2, <2>4, <2>5 DEF t
<1> QED BY <1>5, <1>6

LEMMA WillKnowIs ==
  ASSUME NEW n PROVE WillKnow(n) = Knows(InFlight, addr, n)
BY DEF WillKnow, Knows, OfNode, Of

LEMMA InFlightType ==
  ASSUME TypeOK PROVE calling \in Seq(Events) /\ InFlight \in Seq(Events)
<1>1. calling \in Seq(Events)
  <2>1. CASE calling = << >>
    BY <2>1
  <2>2. CASE calling # << >>
    <3>1. calling[1] \in Events /\ calling = <<calling[1]>>
      BY <2>2, CallType
    <3>2. \A e \in Events : <<e>> \in Seq(Events)
      OBVIOUS
    <3> QED BY <3>1, <3>2
  <2> QED BY <2>1, <2>2
<1> QED BY <1>1, ConcatProperties DEF TypeOK, InFlight

WatchInv == TypeOK /\ HalfDone /\ QuietBefore /\ WatchIsExact

(* A change of a key, of which a watching client is told. *)
LEMMA ToldOfChange ==
  ASSUME WatchInv, NEW n \in Nodes, NEW kind \in {"PUT", "DELETE"}, Notify(kind, n),
         UNCHANGED clientVars, NEW x \in Leases, key' = [key EXCEPT ![n] = x],
         kind = "PUT" <=> x # 0
  PROVE  WatchIsExact'
<1>1. TypeOK /\ UNCHANGED <<phase, addr, calling>>
  BY DEF WatchInv, clientVars
<1>2. CASE phase = "watching"
  <2> DEFINE e == [kind |-> kind, node |-> n]
  <2>1. e \in Events
    BY DEF Events
  <2>2. events' = Append(events, e) /\ missed' = missed \ {n}
    BY <1>2 DEF Notify
  <2>3. InFlight' = Append(InFlight, e)
    <3>1. calling \in Seq(Events) /\ events \in Seq(Events)
      BY <1>1, InFlightType DEF TypeOK
    <3>2. calling \o Append(events, e) = Append(calling \o events, e)
      <4> HIDE DEF e
      <4> QED BY <2>1, <3>1, ConcatProperties, AppendProperties, SeqEqual
    <3> QED BY <1>1, <2>2, <3>2 DEF InFlight
  <2>4. ASSUME NEW m \in Nodes \ missed' PROVE WillKnow(m)' <=> key'[m] # 0
    <3>1. WillKnow(m)' = Knows(InFlight, addr, m)'
      BY DEF WillKnow, Knows, OfNode, Of
    <3>2. WillKnow(m)' = Knows(Append(InFlight, e), addr, m)
      BY <1>1, <2>3, <3>1 DEF Knows, Of
    <3>3. WillKnow(m)' = IF e.node = m THEN e.kind = "PUT" ELSE Knows(InFlight, addr, m)
      BY <1>1, <2>1, <3>2, InFlightType, KnowsAppend
    <3>4. CASE m = n
      BY <1>1, <3>3, <3>4 DEF TypeOK
    <3>5. CASE m # n
      <4>1. m \notin missed /\ key'[m] = key[m]
        BY <1>1, <2>2, <3>5 DEF TypeOK
      <4>2. WillKnow(m) <=> key[m] # 0
        BY <1>2, <4>1 DEF WatchInv, WatchIsExact
      <4> QED BY <3>3, <3>5, <4>1, <4>2, WillKnowIs
    <3> QED BY <3>4, <3>5
  <2>5. WatchIsExact'
    BY <2>4 DEF WatchIsExact
  <2> QED BY <1>1, <1>2, <2>5
<1>3. CASE phase # "watching"
  BY <1>1, <1>3 DEF Notify, WatchInv, WatchIsExact
<1> QED BY <1>2, <1>3

LEMMA NothingToTell ==
  ASSUME WatchInv, UNCHANGED <<phase, addr, calling, events, missed, key>>
  PROVE  WatchIsExact'
<1>1. \A n \in Nodes : WillKnow(n)' = WillKnow(n)
  BY DEF WillKnow, OfNode, InFlight
<1> QED BY <1>1 DEF WatchInv, WatchIsExact

LEMMA EndLeaseIsTold ==
  ASSUME WatchInv, NEW n \in Nodes, NEW i \in Leases, EndLease(n, i), UNCHANGED clientVars
  PROVE  WatchIsExact'
<1>1. CASE key[n] = i
  BY <1>1, ToldOfChange DEF EndLease, Leases
<1>2. CASE key[n] # i
  BY <1>2, NothingToTell DEF EndLease, clientVars
<1> QED BY <1>1, <1>2

LEMMA NodesAreWatched ==
  ASSUME WatchInv, NEW n \in Nodes, NodeStep(n) PROVE WatchIsExact'
<1>1. UNCHANGED clientVars
  BY NodesLeaveClient
<1>2. starts[n] \in Leases
  BY DEF WatchInv, TypeOK, Leases
<1>3. CASE PutKey(n)
  <2>1. starts[n] # 0
    BY <1>3 DEF PutKey, WatchInv, TypeOK
  <2> QED BY <1>1, <1>2, <1>3, <2>1, ToldOfChange DEF PutKey
<1>4. CASE GrantLease(n) \/ Crash(n)
  BY <1>1, <1>4, NothingToTell DEF GrantLease, Crash, etcdVars, clientVars
<1>5. CASE Deregister(n)
  <2>1. CASE EndLease(n, starts[n])
    BY <1>1, <1>2, <2>1, EndLeaseIsTold
  <2>2. CASE UNCHANGED <<etcdVars, events, missed>>
    BY <1>1, <2>2, NothingToTell DEF etcdVars, clientVars
  <2> QED BY <1>5, <2>1, <2>2 DEF Deregister
<1>6. CASE LeaseLapses(n)
  BY <1>1, <1>2, <1>6, EndLeaseIsTold DEF LeaseLapses
<1>7. ASSUME NEW i \in 1 .. MaxStarts, LeaseExpires(n, i) PROVE WatchIsExact'
  <2>1. i \in Leases
    BY DEF Leases
  <2> QED BY <1>1, <1>7, <2>1, EndLeaseIsTold DEF LeaseExpires
<1> QED BY <1>3, <1>4, <1>5, <1>6, <1>7 DEF NodeStep

(* What is on its way gets shorter by the event that was handled. *)
LEMMA HandledFirst ==
  ASSUME WatchInv, InFlight # << >>, InFlight' = Tail(InFlight), UNCHANGED <<missed, key, phase>>,
         \A n \in Nodes : n \in addr' <=> IF Head(InFlight).node = n THEN Head(InFlight).kind = "PUT"
                                          ELSE n \in addr
  PROVE  WatchIsExact'
<1>1. InFlight \in Seq(Events)
  BY InFlightType DEF WatchInv
<1>2. ASSUME NEW n \in Nodes PROVE WillKnow(n)' = WillKnow(n)
  <2>1. WillKnow(n)' = Knows(Tail(InFlight), addr', n)
    BY DEF WillKnow, Knows, OfNode, Of
  <2>2. Knows(Tail(InFlight), addr', n) = Knows(InFlight, addr, n)
    BY <1>1, KnowsTail
  <2> QED BY <2>1, <2>2, WillKnowIs
<1> QED BY <1>2 DEF WatchInv, WatchIsExact

(* An event that moves to the call that handles it. *)
LEMMA TakenUp ==
  ASSUME WatchInv, calling = << >>, events # << >>,
         calling' = <<Head(events)>>, events' = Tail(events), UNCHANGED <<missed, key, phase>>,
         \A n \in Nodes \ {Head(events).node} : n \in addr' <=> n \in addr
  PROVE  WatchIsExact'
<1>1. events \in Seq(Events)
  BY DEF WatchInv, TypeOK
<1>2. calling \o events = events /\ <<Head(events)>> \o Tail(events) = events
  BY <1>1, ConcatEmptySeq
<1>3. InFlight' = InFlight
  BY <1>2 DEF InFlight
<1>4. ASSUME NEW n \in Nodes PROVE WillKnow(n)' = WillKnow(n)
  <2>1. CASE n # Head(events).node
    BY <1>3, <2>1 DEF WillKnow, OfNode
  <2>2. CASE n = Head(events).node
    <3>1. 1 \in OfNode(n)
      BY <1>1, <1>2, <2>2, EmptySeq DEF OfNode, InFlight
    <3>2. OfNode(n) # {} /\ OfNode(n)' = OfNode(n)
      BY <1>3, <3>1 DEF OfNode
    <3> QED BY <1>3, <3>2 DEF WillKnow
  <2> QED BY <2>1, <2>2
<1> QED BY <1>4 DEF WatchInv, WatchIsExact

LEMMA ClientWatches ==
  ASSUME WatchInv, ListNodes \/ StartWatch \/ Close \/ Watcher
  PROVE  WatchIsExact'
<1>0. TypeOK
  BY DEF WatchInv
<1>1. CASE ListNodes
  BY <1>1 DEF ListNodes, WatchInv, WatchIsExact
<1>2. CASE StartWatch
  <2>1. InFlight' = << >> /\ addr' = addr /\ key' = key
    BY <1>2 DEF StartWatch, WatchInv, QuietBefore, InFlight, etcdVars
  <2>2. \A n \in Nodes : WillKnow(n)' <=> n \in addr
    BY <2>1 DEF WillKnow, OfNode
  <2>3. \A n \in Nodes \ missed' : n \in addr <=> key[n] # 0
    BY <1>2 DEF StartWatch
  <2> QED BY <1>2, <2>1, <2>2, <2>3 DEF StartWatch, WatchIsExact
<1>3. CASE Close
  BY <1>3 DEF Close, WatchIsExact
<1>4. CASE AddAddress
  <2>1. /\ phase = "watching" /\ calling = << >> /\ events # << >> /\ Head(events).kind = "PUT"
        /\ events' = Tail(events) /\ UNCHANGED <<missed, key, phase>>
    BY <1>4 DEF AddAddress, NextEvent, etcdVars
  <2>2. CASE Head(events).node \in addr
    <3>1. addr' = addr /\ calling' = << >>
      BY <1>4, <2>1, <2>2 DEF AddAddress
    <3>2. InFlight = events /\ InFlight' = Tail(events)
      <4>1. events \in Seq(Events) /\ Tail(events) \in Seq(Events)
        BY <1>0, <2>1, HeadEvent DEF TypeOK
      <4> QED BY <2>1, <3>1, <4>1, ConcatEmptySeq DEF InFlight
    <3> QED BY <2>1, <2>2, <3>1, <3>2, HandledFirst
  <2>3. CASE Head(events).node \notin addr
    <3>1. addr' = addr \union {Head(events).node} /\ calling' = <<Head(events)>>
      BY <1>4, <2>3 DEF AddAddress
    <3> QED BY <2>1, <3>1, TakenUp
  <2> QED BY <2>2, <2>3
<1>5. CASE RemoveFromRing
  <2>1. /\ phase = "watching" /\ calling = << >> /\ events # << >> /\ events' = Tail(events)
        /\ UNCHANGED <<missed, key, phase>> /\ addr' = addr /\ calling' = <<Head(events)>>
    BY <1>5 DEF RemoveFromRing, NextEvent, etcdVars
  <2> QED BY <2>1, TakenUp
<1>6. CASE FinishCall
  <2>1. /\ calling' = << >> /\ events' = events /\ UNCHANGED <<missed, key, phase>>
    BY <1>6 DEF FinishCall, etcdVars
  <2>2. /\ calling # << >> /\ calling[1] \in Events /\ calling = <<calling[1]>>
        /\ calling[1].kind \in {"PUT", "DELETE"}
    BY <1>0, <1>6, CallType DEF FinishCall
  <2>3. InFlight # << >> /\ Head(InFlight) = calling[1] /\ InFlight' = Tail(InFlight)
    <3> DEFINE e == calling[1]
    <3>1. events \in Seq(Events) /\ e \in Events
      BY <1>0, <2>2 DEF TypeOK
    <3>2. InFlight = <<e>> \o events /\ InFlight' = << >> \o events
      BY <2>1, <2>2 DEF InFlight
    <3> HIDE DEF e
    <3>3. << >> \o events = events
      BY <3>1, ConcatEmptySeq
    <3>4. <<e>> \o events # << >> /\ Head(<<e>> \o events) = e /\ Tail(<<e>> \o events) = events
      BY <3>1
    <3> QED BY <3>2, <3>3, <3>4 DEF e
  <2>4. \A n \in Nodes : n \in addr' <=> IF calling[1].node = n THEN calling[1].kind = "PUT"
                                          ELSE n \in addr
    <3>1. CASE calling[1].kind = "PUT"
      <4>1. addr' = addr /\ calling[1].node \in addr
        BY <1>6, <2>2, <3>1 DEF FinishCall, WatchInv, HalfDone
      <4> QED BY <3>1, <4>1
    <3>2. CASE calling[1].kind = "DELETE"
      <4>1. addr' = addr \ {calling[1].node}
        BY <1>6, <3>2 DEF FinishCall
      <4> QED BY <3>2, <4>1
    <3> QED BY <2>2, <3>1, <3>2
  <2> QED BY <2>1, <2>3, <2>4, HandledFirst
<1> QED BY <1>1, <1>2, <1>3, <1>4, <1>5, <1>6 DEF Watcher

(* WatchIsExact: nothing that happens after the watch began is lost on the *)
(* way to the client's table, in whatever order registrations, lapses and  *)
(* the two steps of a call come.                                           *)
THEOREM WatchMissesNothing == Spec => []WatchIsExact
<1>1. Init => WatchInv
  BY TypeInit DEF Init, WatchInv, WatchIsExact, HalfDone, QuietBefore
<1>2. WatchInv /\ RoutableHasAddress /\ [Next]_vars => WatchInv'
  <2> SUFFICES ASSUME WatchInv, RoutableHasAddress, [Next]_vars PROVE WatchInv'
    OBVIOUS
  <2>1. RouteInv
    BY DEF RouteInv, WatchInv
  <2>2. HalfDone'
    <3>1. CASE UNCHANGED clientVars
      BY <3>1 DEF WatchInv, HalfDone, clientVars
    <3> QED BY <2>1, <3>1, NodesLeaveClient, ClientRoutes DEF Next, vars
  <2>3. WatchIsExact'
    <3>1. CASE UNCHANGED vars
      <4>1. UNCHANGED <<phase, addr, calling, events, missed, key>>
        BY <3>1 DEF vars, clientVars, etcdVars
      <4> QED BY <4>1, NothingToTell
    <3> QED BY <3>1, NodesAreWatched, ClientWatches DEF Next
  <2> QED BY <2>2, <2>3, TypeNext, QuietNext DEF WatchInv
<1>3. WatchInv => WatchIsExact
  BY DEF WatchInv
<1> QED BY <1>1, <1>2, <1>3, RoutesHaveAddresses, PTL DEF Spec
=============================================================================
