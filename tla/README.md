# A formal model of distcache

TLA+ modules that model the distributed cache in `distcache/`, TLC
configurations that check them on small instances, and theorems that TLAPS
proves for every instance, about every modelled part but the loop over a
connection's commands.
`PROJECT.json` lists the runs, the theorems, the lines each definition models,
a mutant of the code for every checked property, and the hazards the properties
are for.

## 1. The system

Clients route keys over a consistent hash ring to cache nodes. A node is one
asyncio process: a store (LRU with deadlines), a role (master or slave), a
server for client commands and for replicas, and, on a slave, a replica task
that follows a master. Nodes may register in etcd; a client may take its list
of nodes from there and watch it.

| part | state | operations | talks to | hard about it |
|---|---|---|---|---|
| store, `lru.py` | dict `_map`, linked list, `mode` | `get set apply_set set_expire delete sample_expired snapshot load_snapshot` | called by node and replica task | dict and list must agree; the same call deletes or hides an expired key, by mode; capacity when replicas fill the store without evicting |
| master, `MasterReplicator` | `offset`, one queue per replica | `append_batch`, `handle_replica` | one TCP stream per replica | snapshot and stream must join without gap or repeat while writes go on |
| replica, `ReplicaClient` | `applied_offset`, `last_seen_offset`, `synced_event`, its task | `run`, `_consume`, `_apply`, `stop` | its upstream, the node's store | connection lost in the middle of a message, master restarts, cancellation |
| node, `server.py` | `role`, the above, the tasks | commands, `start`, `stop`, `promote`, expiry loop | clients, replicas | promotion while the stream is running; expired keys found by a read or by the loop |
| ring, `hashring.py` | `_ring`, `_sorted`, `_nodes` | `add_node remove_node get_node` | client and watcher thread | wrap-around; independence of the order of joins |
| discovery, `discovery.py` | lease, key, keepalive thread; watch | `register deregister list_nodes watch stop` | etcd, `serve.py`, client | crash and restart under an old lease, lapsed lease, changes before the watch |
| client, `client.py` | `_addr`, ring, `_conns`, a socket and a buffer for each node | `set get delete add_node remove_node close` | nodes, watcher thread | half done callbacks, broken sockets, closing a connection in use |
| protocol, `protocol.py` | receive buffer | `feed`, `parse_one`, encoders | node, client | any chunking of the input; what a malformed command takes with it |
| entry point, `serve.py` | — | start, register, deregister, stop | node, discovery | order of listening and registering |
| metrics, scripts, deployment | counters | — | — | output only, not modelled |

What makes each part correct:

- store: dict, insertion order and recency name the same keys; a client's
  write keeps the capacity; a slave's store never gives up a key by itself; an
  expired key is reclaimed on a master.
- replication: batches reach a replica once, in order, whole; a replica holds
  what the wire carries of its master's keys; it comes back in step, unless its
  connection ends in the middle of a line (section 6).
- promotion: the node ends up following nobody and runs the expiry loop.
- feeds: a replica that stalls or goes away delays no other, and what it ties
  up on the master is bounded by the next writes.
- command stream: the answers are those of the commands sent, in their order,
  however the bytes are cut.
- client: a reply is the answer to its own request; no call hangs; a node of the
  ring is served.
- ring: a key goes to the next virtual node clockwise, and moves only to a
  node that came or from a node that left.
- discovery: whatever the client routes to has an address; a dead node leaves
  the ring; a restarted node keeps its registration.

## 2. The modules

| module | models | uses |
|---|---|---|
| `KeyOrders` | taking keys out of an order of keys | |
| `LRUCache` | what the store promises: map, insertion order, recency sequence, mode | `KeyOrders` |
| `LinkedLRU` | the store as coded, with `prev`/`next` links and sentinels; implements `LRUCache` | `LRUCache`, `KeyOrders` |
| `LogShipping` | what replication promises about positions in the upstream's log | |
| `Replication` | nodes, roles, commands, expiry, master and replica ends of a connection, faults, promotion; implements `LogShipping` | `LogShipping` |
| `Convergence` | properties of `Replication` about contents, its liveness, and what the documents say | `Replication` |
| `ReplicaFeeds` | the master's queues, transports and handler coroutines, and replicas that stall or go away | |
| `Protocol` | `encode_command` and the parser, as operators on bytes | |
| `CommandStream` | a node's loop over the bytes of a connection | `Protocol` |
| `CacheClient` | the sharding client: requests, connections, the watcher's thread, close | |
| `HashRing` | the hash ring | |
| `Discovery` | registration, leases, watch, and the client's table and ring | |
| `ReplicationProofs` | the theorems about connections and about the contents of replicas | `Convergence`, `DataLemmas` |
| `LRUCacheProofs`, `LinkedLRUProofs`, `HashRingProofs`, `DiscoveryProofs`, `CacheClientProofs`, `ReplicaFeedsProofs` | the theorems about the module of that name | that module; `DataLemmas`, but for the feeds |
| `DataLemmas` | induction over numbers and sequences, what folds, recursive functions and the operators on orders give, and the theorems about the parser | `KeyOrders`, `Protocol`, the theorem modules of the library |
| `MC*` | definitions of the constants, and bounds on the explored states | the above |

`Replication` looks at one connection with its messages and stores;
`ReplicaFeeds` at many connections of one master, whose messages are numbers.
`Discovery` looks at the client as a list of nodes; `CacheClient` takes the
additions and removals from the watcher as they come and looks at the requests.

### Store

`LRUCache` keeps `entry` (the dict), `order` (the dict's insertion order, which
is what a snapshot carries) and `recency`. One action per outcome of each
method: `GetMiss`, `GetExpired`, `GetHit`, `Set`, `ApplySet`, `SetExpire`,
`Delete`, `SampleExpired`, `LoadSnapshot`, and `Promote` for the change of mode
by `Node.promote`. `LinkedLRU` replaces `recency` by the links `list.next`,
`list.prev`, written by `Unlink`, `AddFront` and `MoveToFront` as
`_remove`, `_add_front` and `_move_to_front` write them. Its refinement mapping
reads the recency order by following the links from the head.

### Replication

asyncio runs one callback at a time, so an action is the code between two
awaits. A command changes the store and appends its batch in one step, since no
await stands between them. The state of a replica's connection is

- `link`: none, SYNC sent, handler running, handler gone, or handler gone in the
  middle of a line;
- `queue`: the `asyncio.Queue` that `append_batch` fills;
- `wire`: messages written and not yet read, at most `WireCap` batches at a
  time, since the handler waits in `drain()`;
- `reading`: the message whose header `_consume` has read and whose effects it
  is still awaiting. `last_seen_offset` rises with the header, the store and
  `applied_offset` change only when everything is read.

`HandleSync` is `handle_replica` up to its first await: offset, snapshot and
queue are taken together. `StreamBatch` is one round of its loop. `Sever` ends
the upstream's end of a connection, of which any prefix of the bytes was delivered;
`Restart` is a crash or a stop of a process, followed by a start as deployed, and
does the same to the connections of its replicas. `Disconnect` is a read error on
the replica's side.

What a cut does depends on the byte (`Ends`). `readexactly` reports the end of a
connection as an error that `run` catches, and so does `readline` when no byte of
the line has come: the unfinished message is dropped and the replica reconnects
(`link` is "severed", then `Disconnect`). But of a line that was begun `readline`
returns what there is. When a word of a header, or of an effect's `E` line, is
missing, that is an error that `run` does not catch (`link` is "torn", then
`ReadTornLine`, once the messages before the tear are applied): the task ends,
`synced_event` stays set, nothing reconnects. A line that lacks only digits of its
last number, or its CRLF, ends as the first kind, since what it announces does not
come. A reset that arrives before the line is read is an ordinary read error, also
of a torn one. The header of a torn message may be whole, so that `ReadHeader`
takes it; its effects are not all there, so that `LoadSnapshot` and `ApplyBatch` do not
happen (`AtTear`). For a snapshot without items this splits what is one step in
the code; the outcome is that of a torn header.

`Promote` changes the role;
`StopClient` is the cancellation of the replica task, in a later turn; it leaves
`synced_event` as it was, which only the handling of a lost connection clears.

Effects are records; deadlines on the wire are whole milliseconds (`Ms`,
`FromMs`), with `TicksPerMs` clock ticks to a millisecond, and 0 for none.
Which key a full store evicts is any present key: the recency order is
`LRUCache`'s subject. All nodes read one clock.

The queue of a replica that went away stays registered in the code until the
next write to it fails; it can reach nobody, and this model drops it with the
connection. `ReplicaFeeds` keeps it.

### Replica feeds

`append_batch` puts the batch on every registered queue without an await:
`AppendBatch`. For each connection, `handle_replica` is `HandleReplica` (the
snapshot is written and the queue registered), then turns of `Drained`
(`drain()` returns when the transport holds no more than its high-water mark)
and `SendBatch` (`queue.get()` and `write`), until `EndReplica`: the exception
of `drain()` on a lost connection, and the `finally` clause. It never reads, so
there is no other way out. The transport and the peer are external: `Take`,
`StallOrResume`, `Leave`, and `ConnectionLost`, the moment at which the
transport knows that the peer has gone.

### Command stream

A byte is a string of one symbol, and the name of a command is one byte. The
parser's functions are operators over such sequences, in `Protocol`: `ParseOne` chooses between
`ParseInline` and `ParseArray`, and gives the arguments and the number of bytes
taken, or waits, or raises. `Read` appends any part of what the client sent;
then the inner loop of `_handle_client` runs one round at a time: `NeedMore`,
`Malformed` (answers and clears the buffer), `Skip` (an empty command),
`Execute` (one answer, whose write may fail), `Hijack` (SYNC). `Eof` is a
client that went away. What should be answered is computed from the messages
sent and from the number of bytes read (`ToAnswer`), without the parser.

### Client

One thread of the application calls `set`, `get` and `delete`, and `close` when
it likes; the watcher's thread calls `add_node` and `remove_node`. A request is
`Route` (ring), `FindAddress`, `FindConn` (table), `Connect`, `Send`, and then
`_read_reply`: `TakeLine` and `TakeValue` take what is in the buffer,
`EnterRecv`, `RecvSome` and `RecvEnd` are `recv`. `Fail` is the exception, which
leaves the connection as it is. `remove_node` is `OnRemove`, `DropAddress`,
`PopConn`, `CloseConn`; `add_node` is `OnAdd`, `AddToRing`; `close` is
`CloseBegin`, `CloseOne`, `CloseNext`, `StopWatcher`. A node answers (`Answer`),
drops a connection (`LoseConn`), stops and starts, and the part of a reply that
was sent may be any prefix. A part of a reply is marked with whether it belongs
to the request that runs; the code cannot see the mark.

What this takes for granted of the world around the code:

- The interpreter's lock changes hands between calls, so that an action is what
  runs from one call to the next (CPython 3.10 and later look at requests for
  the lock at calls and at backward jumps; the repository's README also allows
  3.9, which looks more often).
- A `_Conn` that nothing refers to is deleted at once, which closes its socket
  (reference counting).
- `recv` returns what the kernel has before it reports the end of a connection,
  and the end is reported: the code sets no timeout on its sockets.
- A `recv` under way goes on when another thread closes the socket.

### Hash ring

Every method holds the ring's lock throughout, so each is one action.
`AddNode` and `RemoveNode` fold over the virtual nodes as the loops do, on the
dict and the sorted list together. The hash is any injective function onto
`0 .. Space - 1`, chosen at the start.

### Discovery

The node: `GrantLease` and `PutKey` are the two calls of `register`, with a
crash possible between them. `LeaseExpires` ends a lease nobody refreshes,
`LeaseLapses` one whose refreshes all failed. etcd is external: a key vanishes
with the lease it is attached to, and a watch reports the changes made after it
began, in order. The client: `ListNodes` and `StartWatch` are the two calls of
the constructor; the callback runs in the watcher's thread in two steps
(`AddAddress` or `RemoveFromRing`, then `FinishCall`), one per lock it takes.

## 3. The runs

`tlc -config <cfg> <module>`; the sizes are of distinct states.

| run | module, cfg | asks | states |
|---|---|---|---|
| convergence | `MCConvergence`, `Convergence.cfg` | do stream and snapshot join, does the replica get the contents, is `LogShipping` implemented? | 681,790, keys symmetric |
| catch_up | `MCConvergence`, `CatchUp.cfg` | does a replica come back in step, does a promotion end, are expired keys reclaimed? | 136,137 |
| feeds | `ReplicaFeeds`, `Feeds.cfg` | does a stalled or dead replica disturb the others, and for how long does it stay on the list? | 139,591 |
| command_stream | `MCCommandStream`, `CommandStream.cfg` | is every stream, cut in any way, answered as sent? | 671,865 |
| client | `CacheClient`, `Client.cfg` | are replies those of their requests, do calls end, are nodes served? | 67,788 |
| store | `MCLRUCache` | capacity, who may delete, reclamation | 13,642 |
| linked_store | `MCLinkedLRU` | are links and dict consistent, is `LRUCache` implemented? | 2,308, keys symmetric |
| ring | `MCHashRing` | routing, minimal movement | 40,320 |
| discovery | `MCDiscovery`, `MCDiscovery.cfg` | what the client knows of the nodes | 89,540 |

Three more runs (`lazy_deletion`, `close_keeps_watching`, `abandoned_feed`) check
a sentence of a document each and find it violated: section 6.

Properties of the runs, beyond the type invariants:

- `StreamSpliced`: the messages a connected replica has still to receive
  (`reading`, `wire`, `queue`) count up by one, from where it stands, to its
  upstream's offset; a snapshot comes first and only once.
- `ConnectionsStartClean`: while no connection is open, the reader holds nothing
  of an earlier one and a running replica task is not marked as synced; at most
  one message is half read; when the replica's task has ended, nothing is left
  that could still be read.
- `AppliesBatchesInTurn`: on one connection `applied_offset` grows by one,
  also while what is left of a severed or torn connection is read.
- `ShipsTheLog`: the refinement of `LogShipping`.
- `CatchesUp`: deliver everything pending and the replica holds each key of its
  master as the wire carries it, and besides only expired keys.
- `LagIsBacklog`: the lag that a replica exports is the batch it has half read,
  as long as no fault has happened (section 6 says what happens after one).
- `ReplicasCatchUp`: a replica that is not promoted is again and again in step with
  its upstream, whatever was lost or restarted, unless its connection ended in a
  torn line; once it is restarted itself, it comes back also from that.
  `PromotionCompletes`, `MastersReclaim`: a promoted node ends up detached, and an
  expired key leaves a master.
- `StreamIsGapless`: what a served replica took, what its transport holds and
  what its queue holds are the snapshot and each batch behind it, up to the
  master's offset, also while others end or stall.
- `ReadersGetEverything`: a replica that reads is again and again up to date,
  whatever the others do. `WritesEndDeadFeeds`: a replica that went away leaves
  the list once more is written to it than its transport holds without waiting.
- `AnswersInOrder`: the answers are those of the messages sent, in their order;
  when the node waits for bytes, none is outstanding that it could give. Left
  out are streams in which an error threw away bytes of a message behind it.
  `ParsingConsumes`: a command takes bytes from the buffer, without which the
  loop over the buffer would not end.
- `RepliesAreOwn`: a request that returns something returns its own node's answer
  to it, unless it used a connection whose other end has gone.
  `ConnectionsInStep`: between requests a working connection holds no request
  without its answer and no rest of one. `CallsEnd`, `ServesMembers`: every call
  ends, and a node that stays up and in the ring is served again and again,
  unless the table keeps a broken connection to it.
- `OrdersMatchMap`, `WritesKeepCapacity`, `LogicalReadsKeepKeys`,
  `ExpiredIsReclaimed`, `ListMatchesMap`, `ImplementsLRU`: the store.
- `RingHoldsMembers`, `RoutesClockwise`, `OnlyItsKeysMove`: the ring.
- `RoutableHasAddress`, `OwnLeaseHoldsKey`, `WatchIsExact`,
  `CrashedNodesLeave`: discovery.

### Bounds

- Replication: two nodes, two keys (one in `catch_up`, with two batches), one value, a
  store of one key so that writes evict, three batches, one fault or restart,
  one time to live, a clock of one step; in the run of the contents half a
  millisecond long, so that the wire truncates. `WireCap` is 1, so that batches wait
  in the queue, in the transport and in the reader at once. One value is
  enough: a lost or repeated write shows in the offsets, and contents differ by
  presence and deadline. `MaxOffset` caps the appended batches, `MaxTime` the
  clock, `MaxFaults` the faults, and the constraint `PromotedWriteOnce` the
  batches of a promoted node, which nobody follows. `catch_up` has two faults, so
  that a replica with a torn connection can be restarted. The theorems below hold
  for every value of these bounds, and need no constraint.
- `convergence` and `linked_store` identify states that differ by a permutation
  of the keys. No key is named by the specifications, and these two runs check
  no liveness property, for which the reduction would not be sound.
- Feeds: two connections, a transport that waits above one message, four
  batches: enough for a queue to be longer than the mark of one replica while the
  other has read everything.
- Command stream: up to three of twelve messages (arrays with values that hold
  CRLF or look like a header, empty values, inline commands with blanks, SYNC, three
  kinds of empty command, three of malformed ones) in every order and cut
  everywhere. Three show what is behind and before an error or a SYNC. Lengths
  and counts have one digit.
- Client: two nodes, of which one (`Changing`) comes and goes in person and in
  the ring; the other shows that it is not disturbed. Two `_Conn` objects for a node:
  one that the watcher closes, and one in the table or in the hand of the
  application.
- Store: three keys over a capacity of two: removal at either end and in the
  middle, eviction, and a store above its capacity by the replica paths.
- Ring: three nodes at two points each on seven points, in every arrangement.
- Discovery: two nodes, each started twice, one lapsed lease.

`CHECK_DEADLOCK FALSE` stands where the bounds, or a client that closed, let the
modelled system stop.

### Fairness

- The steps of the replica task, of the handler and of the cancelled task are
  weakly fair: the event loop resumes a task whose wait is over, and reconnecting
  is retried for ever. A read error is fair only when the other end is gone, and
  the error of a torn line when the messages before it are read.
- Sampling is random: an expired key that stays stored is drawn with
  probability one, so the rounds that draw it are weakly fair.
- An unrefreshed lease expires; the watcher's thread is scheduled.
- Feeds: a handler whose wait is over runs, a replica that reads takes what there
  is, and a write to a peer that has gone is answered by a reset. Without something
  written the end of a peer need not be found.
- Client: a thread that is in a call goes on and a node answers what it was
  asked. The application is not obliged to call `close`; it goes on asking, and
  routes strongly fairly to each node of the ring, as it does with keys drawn
  at random (`scripts/load.py`).
- Clients, faults, promotions, starts and stops are never obliged to happen.

## 4. The theorems

Each holds for every value of the constants that the named assumptions of its
module allow: any set of nodes, keys and values, any topology, sizes and bounds
on the exploration. Assumptions beyond the types of the constants:

| assumption | says | why the code justifies it |
|---|---|---|
| `KeysAssumption`, `NodesAssumption` | the keys, and the nodes a client knows, are finitely many; `None` is no node | a dict is finite |
| `AbsentAssumption`, `NeverAssumption` | the marks for no entry and no deadline are neither entries nor numbers | `None` in Python is neither |
| `HashesAssumption` | no two virtual nodes share a point | points have 64 bits; the code has no case for a collision |
| `SentinelAssumption` | the two sentinels are different, no key is one, and `Null` is neither | `_head` and `_tail` are nodes of their own that `_map` never holds; a link that is cleared is `None` |

Proofs are by an inductive invariant: it holds initially, every step keeps it
(one lemma for each action or group of actions), and it implies the property.

**Induction over data.** Several of these modules fold over sequences or define a
recursive function. The library's induction theorems take an operator as a
parameter, which no installed prover can instantiate; `DataLemmas` states induction
about sets instead, which the provers can use: `SetInduction` (a set with 0 and the
successors of its members holds all naturals), from the well-foundedness of
inclusion between finite sets; from it `GreatestOf` and the like, `RecursionExists`
(for a start value and a step function there is a sequence of results) and
`FoldExists`. A recursive function chosen by its equation is then shown to have
one, and has the expected value at each position. No step is assumed.

**Replication** (`ReplicationProofs`)

- `TypeCorrect`: `[]TypeOK`. The lemmas before it say what the operators on
  effects, snapshots and batches return.
- `NothingLostOrTwice`: `[]StreamSpliced`, and `CleanStarts`:
  `[]ConnectionsStartClean`. Neither is inductive alone. `StreamSpliced` says
  nothing of a connection that is not open, so that the step that opens one
  needs to know that the reader holds nothing and a running replica task is not
  marked as synced; that is `ConnectionsStartClean`, which in turn needs that a half-read
  message is one message, and that every way a connection goes down clears it.
  The inductive invariant is `SpliceInv == TypeOK /\ StreamSpliced /\
  ConnectionsStartClean`. The proof views the pending messages as one sequence
  and has a lemma per way it changes: a message moves from queue to wire or from
  wire to reader (the sequence stays), the first is consumed, batches are
  appended with the next offsets, a connection starts, or ends.
- `BatchesInTurn`: `AppliesBatchesInTurn`. `SpliceInv` knows nothing of a severed or
  torn connection, whose upstream may be at any offset by now; `TurnInv` adds that what
  is left of one goes on where the replica stands, wherever the cut was.
- `LagCountsBacklog`: `[]LagIsBacklog`. The invariant follows `last_seen_offset`
  through the header and the effects of a batch, as long as `faults` is 0.
- `ShipsCorrectly`: `Spec => ShipsTheLog`. Under `SpliceInv` each step is a step
  of `LogShipping` or a stutter: appending is `Commit`, loading a snapshot is
  `Attach` at an offset the upstream has reached, applying a batch is `Advance`,
  the end of a connection is `Detach`, a restart of the primary is `Restart`.

**Contents of replicas** (`ReplicationProofs`)

- `Mirroring`: `[]MirrorInv`. For a connected replica of the primary that was not
  promoted, fold all pending messages into its store: the result holds each key of
  the primary as the wire carries it, and else only expired keys. Each command
  changes both sides alike (`MirrorSet`, `MirrorDel`, ...), since the fold over
  appended batches is the fold over the old ones and then the new ones; a snapshot
  starts it; moving a message changes nothing. It needs `SpliceInv`, that deadlines
  do not lie before the first millisecond (`Punctual`), where the wire's 0
  would mean no deadline, and that the clock only moves on.
- `ReplicasMirror`: `[]CatchesUp`, provided every replica follows the primary
  itself, as the documents, tests and scripts set it up (master to slave). With a replica of a replica it would not hold: what the
  one in the middle applies is never appended to its queues (`server.py:154` serves
  the SYNC all the same), so that the other keeps the contents of its snapshot
  once the one in the middle is promoted.

**Feeds** (`ReplicaFeedsProofs`): `TypeCorrect`, and `NoGaps`: `[]StreamIsGapless`.
The step that registers a feed needs that it starts empty, and the appending step
that the stream of a served replica is never empty, so that the last message has
the master's offset: `FeedInv` adds `FeedsStartClean`.

**Store** (`LRUCacheProofs`): `TypeCorrect`; `OrdersAgree`: `[]OrdersMatchMap`;
`CapacityKept`: `WritesKeepCapacity`, which needs `OrdersMatchMap` so that the key
at the tail of the list is one that the dict holds and its eviction makes room;
`LogicalKeysStay`: `LogicalReadsKeepKeys`. The invariant is `TypeOK /\
OrdersMatchMap`. Removing keys from an order is a recursive function, whose
result is shown to keep the other keys, each once.

**Links of the store** (`LinkedLRUProofs`): `TypeCorrect`; `ListAgrees`:
`[]ListMatchesMap`; `Implements`: `Spec => ImplementsLRU`.

- Neither `TypeOK` nor `ListMatchesMap` is inductive: which links a removal changes
  depends on the neighbours on both sides, and so on the whole chain, and the
  dict's order must hold each key once. `LinkInv` adds `IsChain(list, r)`: along the
  path from one sentinel to the other through the keys of `r`, each node's `next` is
  the following one and that one's `prev` is the node, and keys that are not on it
  have no links. TLC checked `LinkInv` on the run before it was proved.
- Chains come first, without any state: `_remove` on a chain for `r` gives one for
  `r` without the key (`UnlinkChain`), `_add_front` one with the key in front
  (`AddChain`), and `_move_to_front` both (`MoveChain`). Walking a chain from either
  end gives `r` and its reverse (`ChainForward`, `ChainBackward`), and the node that
  `_tail.prev` names is the last of `r` (`ChainLast`), which makes the evicted
  key the one used longest ago. `sample_expired` and `load_snapshot` fold over
  several keys (`UnlinkAllChain`, `LoadChain`, by induction on the number of keys).
- Each step is then a step of `LRUCache` with the same dict and order, whose recency
  order is what the walk from the head gives (`CallStep`, one lemma for each
  method), and keeps `LinkInv` (`LinkStep`). The theorems of `LRUCacheProofs`
  thereby hold of the list as it is coded.

**Ring** (`HashRingProofs`): `TypeCorrect`; `HoldsMembers`: `[]RingHoldsMembers`;
`RoutesToNearest`: `[]RoutesClockwise`; `MovesFewKeys`: `OnlyItsKeysMove`. `RingInv`
says that the sorted list is ascending and holds the dict's points, which are
those of the members, each mapped to its own. That the loops of `add_node` and
`remove_node` keep it is an induction over the virtual nodes (`PlaceRuns`,
`DisplaceRuns`); a bisection cuts an ascending list at the point (`Cuts`), which
makes the entry found the nearest clockwise. Minimal movement follows without the
list: the nearest of more points is the nearest of the old ones or a new one.

**Discovery** (`DiscoveryProofs`): `TypeCorrect`; `RoutesHaveAddresses`:
`[]RoutableHasAddress`, with the state of the half done call (`HalfDone`) and that
nothing is on its way before the watch (`QuietBefore`); `RestartsKeepRegistration`:
`[]OwnLeaseHoldsKey`; `WatchMissesNothing`: `[]WatchIsExact`, by what the last
event in flight about a node says of its key.

**Client** (`CacheClientProofs`): `TypeCorrect`; `StaysInStep`:
`[]ConnectionsInStep`; `AnswersOwn`: `RepliesAreOwn`, for any number of nodes that
come and go. `ClientInv` (theorem `Serving`) says what each thread holds
at each of its steps (`AppHolds`, `WatcherHolds`), that a `_Conn` nothing refers to
is unused (`OthersUnused`), that a connection of the table that works has nothing
left over and one without a socket an empty buffer, unless it is being read
(`TableClean`), and what a request that reads still awaits (`AppClean`): the whole
answer, its rest, or, when the watcher cleared the buffer under it, so little that
no line or value can complete any more. This last case is why `remove_node` during a request
makes it fail and cannot make it answer wrongly. TLC checked `ClientInv` with both nodes
of `Client.cfg` changing (2.7 million states) before it was proved.

**Parser** (`DataLemmas`, about `Protocol`)

- `ReadsCommands`: of any bytes that begin with, or are the beginning of, what
  `encode_command` writes for some arguments, `parse_one` returns exactly these
  arguments and takes exactly these bytes once all are there, and waits as long as
  one is missing. The arguments are any sequences of bytes, of any length and any
  number; they may hold CRLF or look like a header.
- The numbers in the headers are written digit by digit and read by a fold:
  `WritesExists` solves the recursion of `Str`, by induction on numbers, and
  `ReadsDigits` that of `IntOf` (`StrIsNumeral`: what is written is read back). No
  digit is a CR, so that the first CRLF behind the beginning of a header is its own
  (`FindsHeader`). `ReadsArg` is one argument, behind any others, cut anywhere;
  `FlattenGrows` says how the encodings follow one another, and from both the
  recursion of `ParseArray` gets an explicit solution.
- `ReadsInTurn`: anywhere in a stream, when what stands before a command has been
  consumed, the buffer gives this command as soon as its last byte is there,
  and what is left of it is what came in behind. This is one round of the loop
  of `_handle_client`.

**Only model-checked**

- Liveness, which is out of the prover's reach: `ReplicasCatchUp`,
  `PromotionCompletes`, `MastersReclaim`, `ReadersGetEverything`,
  `WritesEndDeadFeeds`, `CallsEnd`, `ServesMembers`, `ExpiredIsReclaimed`,
  `CrashedNodesLeave`.
- `CommandStream`: `TypeOK`, `AnswersInOrder`, `ParsingConsumes`, over the messages
  of the run. What the parser does with encoded commands is proved, above; what it
  takes from arbitrary bytes is not claimed: after an error in the middle of a
  message any bytes may come first, among them lengths below zero, with which
  these three need not hold (section 6).

## 5. Not modelled

- Frames between nodes that this code does not write. Those it writes and that a
  lost connection cuts short are modelled, at every byte.
- Argument errors and the texts of replies; negative times to live, which behave
  as 0 does: the key has expired when it is written.
- Snapshots of a slave: `SYNC` to a slave is modelled, but every run has
  replicas of the primary only.
- The steps of `Node.stop`: a stop and a crash are one action. That `stop()` waits
  for the coroutines of open connections depends on the interpreter (Python 3.12.1
  and later); that such a coroutine need not end is shown by `abandoned_feed`.
- Metrics, which are output only, apart from the lag (`LagIsBacklog`); demo, load
  and check scripts and the deployment, which keep no state of the system.
- etcd's own failures beyond lapsed leases and failing revocations: what the etcd
  client library reports of a broken watch is not visible here. Clocks that differ
  by node.
- The client in more than one application thread: nothing in the code or in the
  documents promises that.

## 6. Where documents and code differ

Three runs check a sentence of a document and find it violated. The sentences
and their lines are in `PROJECT.json`.

| run | what happens |
|---|---|
| lazy_deletion | a GET on a master deletes an expired key and appends no DEL: the replica keeps the key |
| close_keeps_watching | the watcher removes a node while `close()` loops over the connections; the loop raises, and the watcher is not stopped |
| abandoned_feed | a replica goes away from a master without writes: its coroutine and its queue stay |

Seen while modelling, each without a run of its own:

- `lru.py:104`: an insertion evicts one key at most, so that a store which the
  replica paths filled beyond `maxsize` stays above it after its promotion
  (`openspec/specs/lru-cache/spec.md:42`). `WritesKeepCapacity` is about stores
  that were within it.
- `replication.py:212`: `last_seen_offset` only grows, so that after a restart of
  the master the exported lag is positive for a replica in step
  (`openspec/changes/add-etcd-prom-grafana/specs/metrics-exporter/spec.md:35`).
  `LagIsBacklog` is about the time before.
- `replication.py:164`: when the upstream goes with its transport half flushed, in the
  middle of a header or of an `E` line, `readline` returns the part that came, and
  the `ProtocolError` (`:177`, `:226`) or `IndexError` (`:178`, `:202`, `:216`) of the
  missing words is not caught: the replica's task ends for good, with `synced_event`
  set, where `replication.py:127` says that it always synchronises again and
  `design.md:20` of the archived change `add-distributed-cache` that reconnecting
  recovers. It stays behind until its process is restarted. `ReplicasCatchUp`
  excuses just this; without its last disjunct TLC shows the behaviour: `Connect`,
  `HandleSync`, a `Sever` that tears, `ReadTornLine`, and nothing more.
- `server.py:84`: `Node.stop` awaits the replica task and so raises again the
  error of one that a torn line ended; its server is then not closed. `promote` only
  schedules that await, and is not disturbed.
- `server.py:94`: a promoted node applies what its old master sends until its task
  is cancelled, in a later turn of the event loop (`server.py:6-7`).
- `client.py:113`: a change between the list and the start of the watch is missed
  for good (`README.md:18`); `WatchIsExact` leaves out the nodes missed so.
- `discovery.py:134`: a node whose lease lapsed goes on refreshing it and is never
  registered again (`etcd-discovery/spec.md:17`).
- `client.py:70`: an exception leaves the broken socket and half a reply in the
  `_Conn`, and no code removes it from the table while its node is a member. Every
  later request to the node fails, or takes what is left in the buffer for its own
  answer; `ServesMembers` and `RepliesAreOwn` exclude just this. A request that races
  with `remove_node` may put a connection back, which meets the node when it
  returns.
- `server.py:148`: a malformed command clears the buffer with the complete commands
  behind it, which are never answered; the rest of one that was cut there is read
  as commands of its own (`openspec/specs/cache-protocol/spec.md:61` asks that
  several commands in one read be told apart). `AnswersInOrder` excludes just this.
- `replication.py:104`: the wire truncates deadlines to whole milliseconds, where
  `openspec/specs/replication/spec.md:26` promises the same deadline on both
  sides; `CatchesUp` compares with what the wire leaves of an entry.
- `protocol.py:109`: the length of a value may be below zero, other than a count
  of arguments, for which the parser has a case of its own; the end of the value
  is then before its start. Encoders write no such length and the runs have none.
- `lru.py:112`: EXPIRE revives a key that has expired and is not yet reclaimed.
- `replication.py:160`: the replica does not close its writer when it reconnects.

## 7. Plan

Done: all modules of section 2 and their runs; every safety property that a run
checks is proved, but for those of `CommandStream`. Next, in this order:

1. `CommandStream`: `AnswersInOrder` for any sequence of messages that the parser
   tells by their last byte, from `ReadsInTurn`.
2. A run of replication with a replica of a replica.
