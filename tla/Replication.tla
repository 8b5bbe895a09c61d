----------------------------- MODULE Replication -----------------------------
(***************************************************************************)
(* Nodes of the cache and the replication between them (server.py,         *)
(* replication.py).  A node accepts writes while its role is master; each  *)
(* write changes its store and appends one batch of effects, under the     *)
(* next offset, to the queue of every replica connected to it, with no     *)
(* await between the two.  A replica connects to its upstream, loads a     *)
(* snapshot, then applies batch after batch; whenever the connection ends  *)
(* it starts again from a new snapshot.                                    *)
(*                                                                         *)
(* asyncio runs one callback at a time, so an action here is the code      *)
(* between two awaits.  A connection is two queues: what the upstream's    *)
(* handler has still to write, and what is in the transport.  A message is *)
(* one SNAPSHOT or BATCH with all its effects; the reader takes its header *)
(* and its effects in two steps, between which anything may happen.  The   *)
(* upstream's end may go when any number of bytes is delivered, and where  *)
(* that cuts the last message decides how the reader ends.                 *)
(*                                                                         *)
(* The recency order of the stores is left to LRUCache: here the key that  *)
(* an insertion pushes out is any other key.                               *)
(***************************************************************************)
EXTENDS Integers, Sequences, FiniteSets

CONSTANTS
  Nodes,
  Primary,      \* the node started with role="master"
  Upstream,     \* Upstream[n]: the node n follows (follow()); the primary follows none
  Keys, Values,
  Absent,       \* no entry for a key
  Never,        \* expire_at = None
  MaxSize,      \* maxsize of every node's store
  SampleSize,   \* sample_size of sample_expired
  TTLs,         \* the EX / SETEX / EXPIRE arguments, in ticks
  TicksPerMs,   \* time.time() is finer than the milliseconds on the wire
  WireCap,      \* bound: messages a transport holds before drain() blocks
  MaxOffset,    \* bound: batches a node appends
  MaxTime,      \* bound: the clock stops here
  MaxFaults     \* bound: lost connections and restarts

Slaves == Nodes \ {Primary}

ASSUME PrimaryAssumption == Primary \in Nodes
ASSUME UpstreamAssumption == Upstream \in [Nodes -> Nodes]
ASSUME KeysAssumption == IsFiniteSet(Keys)
ASSUME AbsentAssumption ==
  /\ Absent \notin [value : Values, expire_at : Nat \union {Never}]
  /\ Absent \notin [value : Values, ms : Nat]
ASSUME NeverAssumption == Never \notin Int
ASSUME SizeAssumption == MaxSize \in Nat \ {0} /\ SampleSize \in Nat \ {0}
ASSUME TTLAssumption == TTLs \subseteq Nat
ASSUME TicksAssumption == TicksPerMs \in Nat \ {0}
ASSUME BoundsAssumption ==
  WireCap \in Nat \ {0} /\ MaxOffset \in Nat /\ MaxTime \in Nat /\ MaxFaults \in Nat

VARIABLES
  role,     \* Node.role
  store,    \* the entries of Node.store
  offset,   \* MasterReplicator.offset
  client,   \* does the node's ReplicaClient task run?
  link,     \* the connection of a replica to its upstream, see Links
  queue,    \* per replica: the asyncio.Queue its upstream's handler drains
  wire,     \* per replica: messages written to it and not yet read
  reading,  \* per replica: the message whose header _consume has read, if any
  applied,  \* ReplicaClient.applied_offset
  seen,     \* ReplicaClient.last_seen_offset
  synced,   \* ReplicaClient.synced_event
  clock,    \* time(), the same on every node
  faults    \* lost connections and restarts so far

vars == <<role, store, offset, client, link, queue, wire, reading,
          applied, seen, synced, clock, faults>>

upstreamVars == <<offset, queue>>
replicaVars == <<link, wire, reading, applied, seen, synced>>

(* "down": none.  "requested": SYNC is sent, the upstream has not read it. *)
(* "open": handle_replica runs.  "severed": the handler is gone, but the   *)
(* replica may still read what was written.  "torn": as severed, but the   *)
(* last message ends inside a line of which a word is missing.             *)
Links == {"down", "requested", "open", "severed", "torn"}

Entries == [value : Values, expire_at : Nat \union {Never}]
Stores == [Keys -> Entries \union {Absent}]

SetEffects == [op : {"SET"}, key : Keys, value : Values, ms : Nat]
DelEffects == [op : {"DEL"}, key : Keys]
ExpireEffects == [op : {"PEXPIREAT"}, key : Keys, ms : Nat]
Effects == SetEffects \union DelEffects \union ExpireEffects

Items == [Keys -> [value : Values, ms : Nat] \union {Absent}]
SnapshotMsgs == [tag : {"SNAPSHOT"}, off : Nat, items : Items]
Batches == {effs \in Seq(Effects) : Len(effs) \in {1, 2}}
BatchMsgs == [tag : {"BATCH"}, off : Nat, effects : Batches]
Messages == SnapshotMsgs \union BatchMsgs

-----------------------------------------------------------------------------
(* Deadlines.  On the wire they are whole milliseconds, and 0 is "none".   *)

Ms(t) == IF t = Never THEN 0 ELSE t \div TicksPerMs
FromMs(ms) == IF ms = 0 THEN Never ELSE ms * TicksPerMs

IsExpired(e) == e.expire_at # Never /\ e.expire_at <= clock

WithDeadline(e, t) == [value |-> e.value, expire_at |-> t]

Present(s) == {k \in Keys : s[k] # Absent}
Expired(s) == {k \in Present(s) : IsExpired(s[k])}

(* Effects, as a master emits them and as a replica applies them. *)

(* Mutant of SetEffect: the deadline is not converted. *)
SetEffectRaw(k, v, t) == [op |-> "SET", key |-> k, value |-> v, ms |-> t]

SetEffect(k, v, t) == [op |-> "SET", key |-> k, value |-> v, ms |-> Ms(t)]
DelEffect(k) == [op |-> "DEL", key |-> k]
ExpireEffect(k, t) == [op |-> "PEXPIREAT", key |-> k, ms |-> Ms(t)]

Apply(s, eff) ==
  IF eff.op = "SET" THEN
    [s EXCEPT ![eff.key] = [value |-> eff.value, expire_at |-> FromMs(eff.ms)]]
  ELSE IF eff.op = "DEL" THEN [s EXCEPT ![eff.key] = Absent]
  ELSE IF s[eff.key] = Absent THEN s
  ELSE [s EXCEPT ![eff.key] = WithDeadline(@, eff.ms * TicksPerMs)]

(* Mutant of ApplyAll: what the batch evicts stays. *)
ApplyFirst(s, effs) == Apply(s, effs[1])

(* A batch is one effect, or a SET and the DEL of the key it pushed out. *)
ApplyAll(s, effs) ==
  IF Len(effs) = 1 THEN Apply(s, effs[1]) ELSE Apply(Apply(s, effs[1]), effs[2])

(* handle_replica's snapshot frames, and the items load_snapshot gets. *)
SnapshotItems(s) ==
  [k \in Keys |-> IF s[k] = Absent THEN Absent
                  ELSE [value |-> s[k].value, ms |-> Ms(s[k].expire_at)]]
Loaded(items) ==
  [k \in Keys |-> IF items[k] = Absent THEN Absent
                  ELSE [value |-> items[k].value, expire_at |-> FromMs(items[k].ms)]]

-----------------------------------------------------------------------------
Init ==
  /\ role = [n \in Nodes |-> IF n = Primary THEN "master" ELSE "slave"]
  /\ store = [n \in Nodes |-> [k \in Keys |-> Absent]]
  /\ offset = [n \in Nodes |-> 0]
  /\ client = [n \in Nodes |-> n # Primary]
  /\ link = [n \in Nodes |-> "down"]
  /\ queue = [n \in Nodes |-> << >>]
  /\ wire = [n \in Nodes |-> << >>]
  /\ reading = [n \in Nodes |-> << >>]
  /\ applied = [n \in Nodes |-> 0]
  /\ seen = [n \in Nodes |-> 0]
  /\ synced = [n \in Nodes |-> FALSE]
  /\ clock = TicksPerMs
  /\ faults = 0

-----------------------------------------------------------------------------
(* The master.  append_batch, called once for each batch: the batches take *)
(* the next offsets and go to every connected replica.                     *)

(* Mutant of Numbered: the offset is raised twice. *)
NumberedTwice(n, effs) ==
  [i \in DOMAIN effs |-> [tag |-> "BATCH", off |-> offset[n] + i + 1, effects |-> effs[i]]]

Numbered(n, effs) ==
  [i \in DOMAIN effs |-> [tag |-> "BATCH", off |-> offset[n] + i, effects |-> effs[i]]]

(* Mutant of AppendBatches: a queue is registered after the snapshot. *)
AppendToLoaded(n, effs) ==
  /\ offset[n] + Len(effs) <= MaxOffset
  /\ offset' = [offset EXCEPT ![n] = @ + Len(effs)]
  /\ queue' = [r \in Nodes |-> IF Upstream[r] = n /\ link[r] = "open" /\ synced[r]
                               THEN queue[r] \o Numbered(n, effs) ELSE queue[r]]

AppendBatches(n, effs) ==
  /\ offset[n] + Len(effs) <= MaxOffset
  /\ offset' = [offset EXCEPT ![n] = @ + Len(effs)]
  /\ queue' = [r \in Nodes |-> IF Upstream[r] = n /\ link[r] = "open"
                               THEN queue[r] \o Numbered(n, effs) ELSE queue[r]]

(* The keys one of which a write of k pushes out: LRUCache says which. *)
Evictable(n, k) ==
  IF store[n][k] = Absent /\ Cardinality(Present(store[n])) + 1 > MaxSize
    THEN Present(store[n]) ELSE {}

(* SET and SETEX. *)
ClientSet(n, k, v, t) ==
  LET new == [value |-> v, expire_at |-> t] IN
  /\ role[n] = "master"
  /\ \/ /\ Evictable(n, k) = {}
        /\ store' = [store EXCEPT ![n] = [@ EXCEPT ![k] = new]]
        /\ AppendBatches(n, << <<SetEffect(k, v, t)>> >>)
     \/ \E lru \in Evictable(n, k) :
          /\ store' = [store EXCEPT ![n] = [@ EXCEPT ![k] = new, ![lru] = Absent]]
          /\ AppendBatches(n, << <<SetEffect(k, v, t), DelEffect(lru)>> >>)
  /\ UNCHANGED <<role, client, replicaVars, clock, faults>>

ClientExpire(n, k, t) ==
  /\ role[n] = "master"
  /\ store[n][k] # Absent
  /\ store' = [store EXCEPT ![n] = [@ EXCEPT ![k] = WithDeadline(store[n][k], t)]]
  /\ AppendBatches(n, << <<ExpireEffect(k, t)>> >>)
  /\ UNCHANGED <<role, client, replicaVars, clock, faults>>

ClientDel(n, k) ==
  /\ role[n] = "master"
  /\ store[n][k] # Absent
  /\ store' = [store EXCEPT ![n][k] = Absent]
  /\ AppendBatches(n, << <<DelEffect(k)>> >>)
  /\ UNCHANGED <<role, client, replicaVars, clock, faults>>

(* GET of an expired key on a master deletes it and appends nothing.  Any  *)
(* other GET, on any node, changes recency at most.                        *)
ClientGetExpired(n, k) ==
  /\ role[n] = "master"
  /\ k \in Expired(store[n])
  /\ store' = [store EXCEPT ![n][k] = Absent]
  /\ UNCHANGED <<role, client, upstreamVars, replicaVars, clock, faults>>

(* Mutant of RunsExpiry: promote() does not start the loop. *)
RunsExpiryFromStart(n) == n = Primary

(* A master, by start() or by promote(), runs _active_expire_loop. *)
RunsExpiry(n) == role[n] = "master"

(* One round of _active_expire_loop: the sampled keys that have expired    *)
(* are deleted, then a DEL is appended for each.                           *)
ActiveExpire(n, drawn) ==
  LET gone == drawn \intersect Expired(store[n]) IN
  /\ RunsExpiry(n)
  /\ drawn \subseteq Present(store[n])
  /\ Cardinality(drawn) = IF Cardinality(Present(store[n])) > SampleSize
                            THEN SampleSize ELSE Cardinality(Present(store[n]))
  /\ gone # {}
  /\ store' = [store EXCEPT ![n] = [k \in Keys |-> IF k \in gone THEN Absent ELSE @[k]]]
  /\ \E removed \in [1 .. Cardinality(gone) -> gone] :
       /\ {removed[i] : i \in DOMAIN removed} = gone
       /\ AppendBatches(n, [i \in 1 .. Cardinality(gone) |-> <<DelEffect(removed[i])>>])
  /\ UNCHANGED <<role, client, replicaVars, clock, faults>>

-----------------------------------------------------------------------------
(* The connection of replica n, at its upstream's end. *)

(* handle_replica up to its first await: offset, snapshot and queue are    *)
(* taken together.                                                         *)
HandleSync(n) ==
  LET m == Upstream[n] IN
  /\ link[n] = "requested"
  /\ link' = [link EXCEPT ![n] = "open"]
  /\ queue' = [queue EXCEPT ![n] = << >>]
  /\ wire' = [wire EXCEPT ![n] = << [tag |-> "SNAPSHOT", off |-> offset[m],
                                     items |-> SnapshotItems(store[m])] >>]
  /\ UNCHANGED <<role, store, offset, client, reading, applied, seen, synced, clock, faults>>

(* Mutant of StreamBatch: a batch is dropped when the transport is full. *)
StreamOrDrop(n) ==
  /\ link[n] = "open"
  /\ queue[n] # << >>
  /\ wire' = IF Len(wire[n]) < WireCap
              THEN [wire EXCEPT ![n] = Append(@, Head(queue[n]))] ELSE wire
  /\ queue' = [queue EXCEPT ![n] = Tail(@)]
  /\ UNCHANGED <<role, store, offset, client, link, reading, applied, seen, synced, clock, faults>>

(* handle_replica writes the next batch of its queue, once drain returned. *)
StreamBatch(n) ==
  /\ link[n] = "open"
  /\ queue[n] # << >>
  /\ Len(wire[n]) < WireCap
  /\ wire' = [wire EXCEPT ![n] = Append(@, Head(queue[n]))]
  /\ queue' = [queue EXCEPT ![n] = Tail(@)]
  /\ UNCHANGED <<role, store, offset, client, link, reading, applied, seen, synced, clock, faults>>

(* What an upstream that goes leaves of the connection: any prefix of the  *)
(* bytes.  The last message left is torn when it ends before the last word *)
(* of its header or of an effect's E line.  One cut anywhere else is       *)
(* dropped by the reader, which runs into the end of the connection, as if *)
(* nothing of it had come; a snapshot without items that lacks no more     *)
(* than its CRLF counts as whole.                                          *)
Ends(n) ==
  LET kept == {SubSeq(wire[n], 1, i) : i \in 0 .. Len(wire[n])} IN
  [link : {"severed"}, wire : kept]
    \union {end \in [link : {"torn"}, wire : kept] : reading[n] \o end.wire # << >>}

(* The upstream's end goes: the handler stops and what the transport had   *)
(* not delivered is lost.                                                  *)
Sever(n) ==
  /\ link[n] = "open"
  /\ faults < MaxFaults
  /\ faults' = faults + 1
  /\ queue' = [queue EXCEPT ![n] = << >>]
  /\ \E end \in Ends(n) :
       /\ link' = [link EXCEPT ![n] = end.link]
       /\ wire' = [wire EXCEPT ![n] = end.wire]
  /\ UNCHANGED <<role, store, offset, client, reading, applied, seen, synced, clock>>

-----------------------------------------------------------------------------
(* The replica: ReplicaClient.run and _consume. *)

Connect(n) ==
  /\ client[n]
  /\ link[n] = "down"
  /\ link' = [link EXCEPT ![n] = "requested"]
  /\ UNCHANGED <<role, store, upstreamVars, client, wire, reading, applied, seen, synced,
                 clock, faults>>

(* Mutant of ReadHeader: last_seen_offset rises with the snapshot only. *)
ReadHeaderUnseen(n) ==
  /\ client[n]
  /\ reading[n] = << >>
  /\ wire[n] # << >>
  /\ reading' = [reading EXCEPT ![n] = <<Head(wire[n])>>]
  /\ wire' = [wire EXCEPT ![n] = Tail(@)]
  /\ UNCHANGED <<role, store, upstreamVars, client, link, applied, seen, synced, clock, faults>>

(* A message's header is read; last_seen_offset rises with a batch's. *)
ReadHeader(n) ==
  /\ client[n]
  /\ reading[n] = << >>
  /\ wire[n] # << >>
  /\ reading' = [reading EXCEPT ![n] = <<Head(wire[n])>>]
  /\ wire' = [wire EXCEPT ![n] = Tail(@)]
  /\ seen' = [seen EXCEPT ![n] = IF Head(wire[n]).tag = "BATCH" /\ Head(wire[n]).off > @
                                 THEN Head(wire[n]).off ELSE @]
  /\ UNCHANGED <<role, store, upstreamVars, client, link, applied, synced, clock, faults>>

(* The one message left is torn: its rest does not come. *)
AtTear(n) == link[n] = "torn" /\ Len(reading[n] \o wire[n]) = 1

(* All the items of a snapshot are read: it replaces the store. *)
LoadSnapshot(n) ==
  LET msg == reading[n][1] IN
  /\ client[n]
  /\ reading[n] # << >>
  /\ ~ AtTear(n)
  /\ msg.tag = "SNAPSHOT"
  /\ store' = [store EXCEPT ![n] = Loaded(msg.items)]
  /\ applied' = [applied EXCEPT ![n] = msg.off]
  /\ seen' = [seen EXCEPT ![n] = IF msg.off > @ THEN msg.off ELSE @]
  /\ synced' = [synced EXCEPT ![n] = TRUE]
  /\ reading' = [reading EXCEPT ![n] = << >>]
  /\ UNCHANGED <<role, upstreamVars, client, link, wire, clock, faults>>

(* All the effects of a batch are read: they are applied in one go. *)
ApplyBatch(n) ==
  LET msg == reading[n][1] IN
  /\ client[n]
  /\ reading[n] # << >>
  /\ ~ AtTear(n)
  /\ msg.tag = "BATCH"
  /\ store' = [store EXCEPT ![n] = ApplyAll(@, msg.effects)]
  /\ applied' = [applied EXCEPT ![n] = msg.off]
  /\ reading' = [reading EXCEPT ![n] = << >>]
  /\ UNCHANGED <<role, upstreamVars, client, link, wire, seen, synced, clock, faults>>

(* Mutant of HangUp: what was read of a message is kept. *)
HangUpHalfRead(n) ==
  /\ link' = [link EXCEPT ![n] = "down"]
  /\ queue' = [queue EXCEPT ![n] = << >>]
  /\ wire' = [wire EXCEPT ![n] = << >>]
  /\ UNCHANGED reading

(* The replica's end of a connection goes, whatever it was doing. *)
HangUp(n) ==
  /\ link' = [link EXCEPT ![n] = "down"]
  /\ queue' = [queue EXCEPT ![n] = << >>]
  /\ wire' = [wire EXCEPT ![n] = << >>]
  /\ reading' = [reading EXCEPT ![n] = << >>]

(* Mutant of Disconnect: the error ends the replica's task. *)
DisconnectForGood(n) ==
  /\ client[n]
  /\ link[n] # "down"
  /\ \/ link[n] \in {"severed", "torn"} /\ UNCHANGED faults
     \/ link[n] \in {"requested", "open"} /\ faults < MaxFaults /\ faults' = faults + 1
  /\ HangUp(n)
  /\ synced' = [synced EXCEPT ![n] = FALSE]
  /\ client' = [client EXCEPT ![n] = FALSE]
  /\ UNCHANGED <<role, store, offset, applied, seen, clock>>

(* A read fails: the connection broke, or the upstream had closed it.      *)
(* What was read of an unfinished message is forgotten.  Of a torn line    *)
(* this is the reset that comes before the line is read.                   *)
Disconnect(n) ==
  /\ client[n]
  /\ link[n] # "down"
  /\ \/ link[n] \in {"severed", "torn"} /\ UNCHANGED faults
     \/ link[n] \in {"requested", "open"} /\ faults < MaxFaults /\ faults' = faults + 1
  /\ HangUp(n)
  /\ synced' = [synced EXCEPT ![n] = FALSE]
  /\ UNCHANGED <<role, store, offset, client, applied, seen, clock>>

(* readline() returns the torn line.  The words it lacks raise errors that *)
(* run() does not catch: the task ends, and nothing else of it changes.    *)
(* The line may be the header of the message or one behind it, also of a   *)
(* snapshot without items, which has none: the outcome is the same.        *)
ReadTornLine(n) ==
  /\ client[n]
  /\ AtTear(n)
  /\ client' = [client EXCEPT ![n] = FALSE]
  /\ queue' = [queue EXCEPT ![n] = << >>]
  /\ wire' = [wire EXCEPT ![n] = << >>]
  /\ reading' = [reading EXCEPT ![n] = << >>]
  /\ UNCHANGED <<role, store, offset, link, applied, seen, synced, clock, faults>>

-----------------------------------------------------------------------------
(* promote(): the role changes at once, the replica task is only asked to  *)
(* stop; StopClient is the first step of that, in a later turn of the loop. *)
Promote(n) ==
  /\ role[n] = "slave"
  /\ role' = [role EXCEPT ![n] = "master"]
  /\ UNCHANGED <<store, upstreamVars, client, replicaVars, clock, faults>>

(* Mutant of StopClient: the connection is closed, the task not cancelled. *)
StopConnection(n) ==
  /\ role[n] = "master"
  /\ client[n]
  /\ HangUp(n)
  /\ UNCHANGED <<role, store, offset, client, applied, seen, synced, clock, faults>>

(* The cancelled task ends at once: synced_event stays as it is. *)
StopClient(n) ==
  /\ role[n] = "master"
  /\ client[n]
  /\ client' = [client EXCEPT ![n] = FALSE]
  /\ HangUp(n)
  /\ UNCHANGED <<role, store, offset, applied, seen, synced, clock, faults>>

(* A process dies and is started again as it was deployed: an empty store, *)
(* offset 0, no connections.  Its replicas are left with what of each      *)
(* stream was delivered.                                                   *)
Restart(n) ==
  LET fed == {r \in Nodes \ {n} : Upstream[r] = n /\ link[r] = "open"}
      asking == {r \in Nodes \ {n} : Upstream[r] = n /\ link[r] = "requested"} IN
  /\ faults < MaxFaults
  /\ faults' = faults + 1
  /\ role' = [role EXCEPT ![n] = IF n = Primary THEN "master" ELSE "slave"]
  /\ store' = [store EXCEPT ![n] = [k \in Keys |-> Absent]]
  /\ offset' = [offset EXCEPT ![n] = 0]
  /\ client' = [client EXCEPT ![n] = n # Primary]
  /\ \E end \in [fed -> UNION {Ends(r) : r \in fed}] :
       /\ \A r \in fed : end[r] \in Ends(r)
       /\ link' = [r \in Nodes |-> IF r = n THEN "down"
                                   ELSE IF r \in asking THEN "severed"
                                   ELSE IF r \in fed THEN end[r].link ELSE link[r]]
       /\ wire' = [r \in Nodes |-> IF r = n THEN << >>
                                   ELSE IF r \in fed THEN end[r].wire ELSE wire[r]]
  /\ queue' = [r \in Nodes |-> IF r = n \/ Upstream[r] = n THEN << >> ELSE queue[r]]
  /\ reading' = [reading EXCEPT ![n] = << >>]
  /\ applied' = [applied EXCEPT ![n] = 0]
  /\ seen' = [seen EXCEPT ![n] = 0]
  /\ synced' = [synced EXCEPT ![n] = FALSE]
  /\ UNCHANGED clock

Tick ==
  /\ clock < MaxTime
  /\ clock' = clock + 1
  /\ UNCHANGED <<role, store, upstreamVars, client, replicaVars, faults>>

-----------------------------------------------------------------------------
DeadlinesNow == {clock + ttl : ttl \in TTLs}

ClientStep(n) ==
  \E k \in Keys :
    \/ ClientDel(n, k)
    \/ ClientGetExpired(n, k)
    \/ \E t \in DeadlinesNow : ClientExpire(n, k, t)
    \/ \E v \in Values, t \in DeadlinesNow \union {Never} : ClientSet(n, k, v, t)

ExpireStep(n) == \E drawn \in SUBSET Keys : ActiveExpire(n, drawn)

LinkStep(n) ==
  \/ Connect(n) \/ HandleSync(n) \/ StreamBatch(n) \/ ReadHeader(n)
  \/ LoadSnapshot(n) \/ ApplyBatch(n)

Next ==
  \/ \E n \in Nodes :
       \/ ClientStep(n) \/ ExpireStep(n) \/ Restart(n)
  \/ \E n \in Slaves :
       \/ LinkStep(n) \/ Sever(n) \/ Disconnect(n) \/ ReadTornLine(n)
       \/ Promote(n) \/ StopClient(n)
  \/ Tick

Spec == Init /\ [][Next]_vars

(* The tasks of a running node: the event loop resumes each task whose     *)
(* wait is over.  Clients, faults and promotion are never obliged to act.  *)
FairSpec ==
  /\ Spec
  /\ \A n \in Slaves :
       /\ WF_vars(Connect(n)) /\ WF_vars(HandleSync(n)) /\ WF_vars(StreamBatch(n))
       /\ WF_vars(ReadHeader(n)) /\ WF_vars(LoadSnapshot(n)) /\ WF_vars(ApplyBatch(n))
       /\ WF_vars(link[n] = "severed" /\ Disconnect(n)) /\ WF_vars(ReadTornLine(n))
       /\ WF_vars(StopClient(n))
  /\ \A n \in Nodes, k \in Keys :
       WF_vars(\E drawn \in SUBSET Keys : k \in drawn /\ ActiveExpire(n, drawn))

-----------------------------------------------------------------------------
TypeOK ==
  /\ role \in [Nodes -> {"master", "slave"}]
  /\ store \in [Nodes -> Stores]
  /\ offset \in [Nodes -> Nat]
  /\ client \in [Nodes -> BOOLEAN]
  /\ link \in [Nodes -> Links]
  /\ queue \in [Nodes -> Seq(BatchMsgs)]
  /\ wire \in [Nodes -> Seq(Messages)]
  /\ reading \in [Nodes -> Seq(Messages)]
  /\ applied \in [Nodes -> Nat]
  /\ seen \in [Nodes -> Nat]
  /\ synced \in [Nodes -> BOOLEAN]
  /\ clock \in Nat
  /\ faults \in 0 .. MaxFaults

(* Everything a connected replica has still to receive. *)
Pending(n) == reading[n] \o wire[n] \o queue[n]

(* The pending messages msgs of a replica lead from where it stands to the *)
(* upstream's offset last: their offsets count up by one to last, those of *)
(* a loaded replica from its own, and a snapshot comes first, for a        *)
(* replica that has not loaded one on this connection, and only then.      *)
Leads(msgs, last, loaded, at) ==
  /\ \A i \in 1 .. Len(msgs) :
       /\ msgs[i].off = last - (Len(msgs) - i)
       /\ msgs[i].tag = "SNAPSHOT" <=> (i = 1 /\ ~ loaded)
  /\ loaded => at = last - Len(msgs)
  /\ loaded \/ Len(msgs) > 0

(* The splice of snapshot and stream: a batch appended while the snapshot  *)
(* is still being written, or read, is neither lost nor delivered twice.   *)
StreamSpliced ==
  \A n \in Slaves : link[n] = "open" =>
    Leads(Pending(n), offset[Upstream[n]], synced[n], applied[n])

(* Nothing of an earlier connection, in particular no message half read,   *)
(* is left when the next one begins, and nothing can arrive once the       *)
(* replica's task has ended.                                               *)
ConnectionsStartClean ==
  \A n \in Slaves :
    /\ Len(reading[n]) <= 1
    /\ link[n] \in {"down", "requested"} =>
         Pending(n) = << >> /\ (client[n] => ~ synced[n])
    /\ client[n] \/ link[n] = "down" \/ (link[n] = "torn" /\ Pending(n) = << >>)

(* A replica applies the batches of a connection one by one: between two   *)
(* moments of the same connection its offset grows by one at a time.       *)
AppliesBatchesInTurn ==
  [][ \A n \in Slaves : synced[n] /\ synced'[n] /\ applied'[n] # applied[n]
        => applied'[n] = applied[n] + 1 ]_vars

(* The lag a replica exports, last_seen_offset less applied_offset, is the *)
(* batch it has read the header of and not applied: never negative, never  *)
(* what is still on its way, until a fault makes the two disagree for good.*)
LagIsBacklog ==
  \A n \in Slaves :
    faults = 0 /\ role[n] = "slave" /\ synced[n] => seen[n] = applied[n] + Len(reading[n])

(* The position of a replica is that of a detached one unless its upstream *)
(* still streams to it and the snapshot is loaded.                         *)
Followers == {n \in Slaves : Upstream[n] = Primary}
Position(n) == IF link[n] = "open" /\ synced[n] THEN applied[n] ELSE -1

Log == INSTANCE LogShipping WITH
         Replicas <- Followers,
         Detached <- -1,
         committed <- offset[Primary],
         position <- [n \in Followers |-> Position(n)]

(* Replication implements the promise about positions, for the replicas of *)
(* the primary.                                                            *)
ShipsTheLog == Log!Spec
=============================================================================
