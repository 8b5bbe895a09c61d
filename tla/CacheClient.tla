----------------------------- MODULE CacheClient -----------------------------
(***************************************************************************)
(* The sharding client (distcache/client.py): the requests of one thread   *)
(* of the application over one connection for each node, while the         *)
(* watcher's thread adds and removes nodes and the nodes come and go.      *)
(*                                                                         *)
(* The threads share the interpreter's lock, which changes hands at calls: *)
(* a step is what runs from one call to the next.  HashRing says which     *)
(* node a key is routed to, Discovery when the watcher adds or removes one.*)
(***************************************************************************)
EXTENDS Naturals, Sequences, FiniteSets

CONSTANTS
  Nodes,
  None,      \* no node
  Changing   \* bound: the nodes that come and go, in person or in the ring

ASSUME NodesAssumption == IsFiniteSet(Nodes) /\ None \notin Nodes
ASSUME ClientBounds == Changing \subseteq Nodes

VARIABLES
  up,        \* whether the node's process runs
  ring,      \* the members of DistributedCacheClient.ring
  addr,      \* DistributedCacheClient._addr
  table,     \* DistributedCacheClient._conns: the _Conn of a node, 0 for none
  conn,      \* the _Conn objects, and the other end of their sockets
  app,       \* the application's thread
  watcher,   \* the watcher's thread
  watching,  \* whether there is a watcher that was not stopped
  result     \* what the latest request gave, None while one runs

vars == <<up, ring, addr, table, conn, app, watcher, watching, result>>

(* Enough _Conn objects of a node: one that the watcher closes, and a new  *)
(* one of the table or the application.                                    *)
Conns == {1, 2}

(* sock: _sock is None, open or closed.  peer: the node has the connection *)
(* too.  asked: it has a request to answer.  wire: what it answered and    *)
(* was not received.  buf: _buf.                                           *)
Unused == [sock |-> "none", peer |-> FALSE, asked |-> FALSE,
           wire |-> << >>, buf |-> << >>]

(* A reply arrives in pieces, none smaller than its parts: a status line   *)
(* ("+OK", "-ERR ..", "$-1"), or a header, a value and the CRLF behind it. *)
(* "lines" is a value that has a CRLF in it.                               *)
Part(name) == [name |-> name, own |-> TRUE]
StatusReply == <<Part("status"), Part("eol")>>
ValueReply(v) == <<Part("header"), Part(v), Part("tail")>>
Replies == {StatusReply, ValueReply("value"), ValueReply("lines")}

EndsLine(part) == part.name \in {"eol", "header", "tail", "lines"}
Ends(buf) == {i \in DOMAIN buf : EndsLine(buf[i])}
FirstLine(buf) == SubSeq(buf, 1, CHOOSE i \in Ends(buf) : \A j \in Ends(buf) : i <= j)
AllOwn(parts) == \A i \in DOMAIN parts : parts[i].own

(* Whatever was there before a request is not an answer to it. *)
NotOwn(parts) == [i \in DOMAIN parts |-> [parts[i] EXCEPT !.own = FALSE]]

-----------------------------------------------------------------------------
(* A _Conn that nothing refers to any more is deleted, and with it its     *)
(* socket is closed.                                                       *)
Referred(n, c) ==
  c \in {table'[n]} \union {t.conn : t \in {x \in {app', watcher'} : x.node = n}}
SetConns(cs) ==
  conn' = [n \in Nodes |-> [c \in Conns |-> IF Referred(n, c) THEN cs[n][c] ELSE Unused]]
SetConn(n, c, r) == SetConns([conn EXCEPT ![n][c] = r])
InTable == {n \in Nodes : table[n] # 0}

Idle == [pc |-> "idle", node |-> None, conn |-> 0, recv |-> FALSE, seen |-> {}, size |-> 0]
AtRest == [pc |-> "idle", node |-> None, conn |-> 0]

Init ==
  /\ up = [n \in Nodes |-> TRUE]
  /\ ring \in SUBSET Nodes
  /\ addr = ring
  /\ table = [n \in Nodes |-> 0]
  /\ conn = [n \in Nodes |-> [c \in Conns |-> Unused]]
  /\ app = Idle
  /\ watcher = AtRest
  /\ watching = TRUE
  /\ result = [node |-> None, is |-> "none"]

-----------------------------------------------------------------------------
(* A request: set, get or delete. *)
AppConn == conn[app.node][app.conn]
SetAppConn(r) == SetConn(app.node, app.conn, r)
AppGoes(pc) == app' = [app EXCEPT !.pc = pc]
Return(is) == app' = Idle /\ result' = [node |-> IF is = "own" THEN app.node ELSE None, is |-> is]

(* Mutant of Fail: the socket is closed and stays in place. *)
FailClosing ==
  /\ Return("error")
  /\ IF app.conn # 0 /\ AppConn.sock = "open" THEN SetAppConn([AppConn EXCEPT !.sock = "closed"])
     ELSE SetConns(conn)

(* Mutant of Fail: the next request connects again, on the old buffer. *)
FailResetting ==
  /\ Return("error")
  /\ IF app.conn # 0 THEN SetAppConn([AppConn EXCEPT !.sock = "none"]) ELSE SetConns(conn)

(* An exception goes to the caller and leaves the _Conn as it is. *)
Fail == Return("error") /\ SetConns(conn)

NoNodes ==
  /\ app.pc = "idle" /\ ring = {}
  /\ Return("error")
  /\ UNCHANGED <<table, conn>>

Route(n) ==
  /\ app.pc = "idle" /\ n \in ring
  /\ app' = [Idle EXCEPT !.pc = "routed", !.node = n]
  /\ result' = [node |-> None, is |-> "none"]
  /\ UNCHANGED <<table, conn>>

FindAddress ==
  /\ app.pc = "routed"
  /\ UNCHANGED table
  /\ IF app.node \in addr THEN AppGoes("found") /\ UNCHANGED <<conn, result>> ELSE Fail

(* The table's _Conn, or a new one, which is put there. *)
FindConn ==
  /\ app.pc = "found"
  /\ LET n == app.node
         free == CHOOSE c \in Conns : watcher.node = n => c # watcher.conn
         c == IF table[n] # 0 THEN table[n] ELSE free
     IN table' = [table EXCEPT ![n] = c] /\ app' = [app EXCEPT !.pc = "held", !.conn = c]
  /\ UNCHANGED conn
  /\ UNCHANGED result

Connect ==
  /\ app.pc = "held"
  /\ UNCHANGED table
  /\ LET socket == [AppConn EXCEPT !.sock = "open", !.peer = TRUE, !.asked = FALSE, !.wire = << >>]
     IN IF AppConn.sock # "none" THEN AppGoes("connected") /\ UNCHANGED <<conn, result>>
        ELSE IF up[app.node] THEN AppGoes("connected") /\ SetAppConn(socket) /\ UNCHANGED result
        ELSE Fail

(* sendall may succeed although the node has gone. *)
Send ==
  /\ app.pc = "connected"
  /\ UNCHANGED table
  /\ LET r == AppConn IN
     \/ /\ r.sock = "open"
        /\ AppGoes("line")
        /\ SetAppConn([r EXCEPT !.asked = r.peer, !.wire = NotOwn(@), !.buf = NotOwn(@)])
        /\ UNCHANGED result
     \/ (r.sock # "open" \/ ~ r.peer) /\ Fail

Received == AppConn.buf
Drop(n) == [AppConn EXCEPT !.buf = SubSeq(@, n + 1, Len(@))]
HasLine == app.pc = "line" /\ Ends(Received) # {}

HasValue == app.pc = "value" /\ Len(Received) >= 2

(* Mutant of ValueLength: the CRLF behind the value stays in the buffer. *)
ValueOnly == 1

(* _read_exact: the value and the CRLF behind it. *)
ValueLength == 2

(* _read_reply on a line of _read_line: a status is returned, a header     *)
(* asks for the value.  The bytes of a value may read as anything.         *)
TakeLine ==
  /\ ~ app.recv /\ HasLine
  /\ UNCHANGED table
  /\ LET line == FirstLine(Received)
         tag == line[1].name
         rest == Drop(Len(line))
     IN \/ /\ tag = "header"
           /\ AppGoes("value") /\ SetAppConn(rest) /\ UNCHANGED result
        \/ /\ tag \in {"status", "value", "lines"}
           /\ Return(IF tag = "status" /\ AllOwn(line) THEN "own" ELSE "foreign")
           /\ SetAppConn(rest)
        \/ /\ tag \in {"eol", "tail", "value", "lines"}
           /\ Return("error") /\ SetAppConn(rest)

TakeValue ==
  /\ ~ app.recv /\ HasValue
  /\ UNCHANGED table
  /\ Return(IF AllOwn(SubSeq(Received, 1, 2)) THEN "own" ELSE "foreign")
  /\ SetAppConn(Drop(ValueLength))

(* recv on what _sock is by now: None and a closed socket raise. *)
EnterRecv ==
  /\ app.pc \in {"line", "value"} /\ ~ app.recv /\ ~ HasLine /\ ~ HasValue
  /\ UNCHANGED table
  /\ IF AppConn.sock = "open"
       THEN app' = [app EXCEPT !.recv = TRUE] /\ UNCHANGED <<conn, result>>
       ELSE Fail

(* A recv that waits goes on when the watcher closes the socket under it. *)
RecvSome ==
  /\ app.recv
  /\ UNCHANGED <<table, result>>
  /\ app' = [app EXCEPT !.recv = FALSE]
  /\ LET r == AppConn IN
     \E k \in DOMAIN r.wire :
       SetAppConn([r EXCEPT !.buf = @ \o SubSeq(r.wire, 1, k), !.wire = SubSeq(@, k + 1, Len(@))])

(* Mutant of RecvEnd: no bytes are as good as some. *)
RecvEndIgnored ==
  /\ app.recv /\ ~ AppConn.peer /\ AppConn.wire = << >>
  /\ UNCHANGED <<table, conn, result>>
  /\ app' = [app EXCEPT !.recv = FALSE]

(* No bytes, or an error, once what the node had sent was received. *)
RecvEnd ==
  /\ app.recv /\ ~ AppConn.peer /\ AppConn.wire = << >>
  /\ UNCHANGED table
  /\ Fail

-----------------------------------------------------------------------------
(* _Conn.close, in three steps: the socket is found, closed, and let go    *)
(* together with the buffer.                                               *)
HasSocket(n) == table[n] # 0 /\ conn[n][table[n]].sock # "none"
Shut(r) == [r EXCEPT !.sock = IF @ = "open" THEN "closed" ELSE @]
Cleared(r) == [r EXCEPT !.sock = "none", !.buf = << >>]

(* close(): the loop over the table's values raises when the table has     *)
(* another size than at the start, also where it would have ended.         *)
Iterate(size, seen) ==
  /\ \/ /\ Cardinality(InTable) # size
        /\ app' = [Idle EXCEPT !.pc = "raised"]
        /\ UNCHANGED table
     \/ /\ Cardinality(InTable) = size
        /\ \E n \in InTable \ seen :
             app' = [app EXCEPT !.pc = IF HasSocket(n) THEN "shut" ELSE "next", !.node = n,
                                !.conn = table[n], !.seen = seen \union {n}, !.size = size]
        /\ UNCHANGED table
     \/ /\ Cardinality(InTable) = size /\ InTable = seen
        /\ app' = [Idle EXCEPT !.pc = "stop"]
        /\ table' = [n \in Nodes |-> 0]
  /\ SetConns(conn)
  /\ UNCHANGED <<watching, result>>

CloseBegin == app.pc = "idle" /\ Iterate(Cardinality(InTable), {})
CloseNext == app.pc = "next" /\ Iterate(app.size, app.seen)

CloseOne ==
  /\ UNCHANGED <<table, watching, result>>
  /\ \/ app.pc = "shut" /\ AppGoes("clear") /\ SetAppConn(Shut(AppConn))
     \/ app.pc = "clear" /\ AppGoes("next") /\ SetAppConn(Cleared(AppConn))

StopWatcher ==
  /\ app.pc = "stop"
  /\ AppGoes("closed")
  /\ watching' = FALSE
  /\ UNCHANGED <<table, conn, result>>

-----------------------------------------------------------------------------
(* The watcher's thread: add_node ... *)
OnAdd(n) ==
  /\ watching /\ watcher.pc = "idle" /\ n \notin addr
  /\ addr' = addr \union {n}
  /\ watcher' = [AtRest EXCEPT !.pc = "ring", !.node = n]
  /\ UNCHANGED <<ring, table, conn>>

AddToRing ==
  /\ watcher.pc = "ring"
  /\ ring' = ring \union {watcher.node}
  /\ watcher' = AtRest
  /\ UNCHANGED <<addr, table, conn>>

(* ... and remove_node. *)
OnRemove(n) ==
  /\ watching /\ watcher.pc = "idle"
  /\ ring' = ring \ {n}
  /\ watcher' = [AtRest EXCEPT !.pc = "addr", !.node = n]
  /\ UNCHANGED <<addr, table, conn>>

DropAddress ==
  /\ watcher.pc = "addr"
  /\ addr' = addr \ {watcher.node}
  /\ watcher' = [watcher EXCEPT !.pc = "pop"]
  /\ UNCHANGED <<ring, table, conn>>

(* Mutant of PopConn: the connection stays in the table. *)
GetConn ==
  /\ watcher.pc = "pop"
  /\ watcher' = IF HasSocket(watcher.node)
                  THEN [watcher EXCEPT !.pc = "shut", !.conn = table[watcher.node]] ELSE AtRest
  /\ UNCHANGED <<ring, addr, table, conn>>

PopConn ==
  /\ watcher.pc = "pop"
  /\ watcher' = IF HasSocket(watcher.node)
                  THEN [watcher EXCEPT !.pc = "shut", !.conn = table[watcher.node]] ELSE AtRest
  /\ table' = [table EXCEPT ![watcher.node] = 0]
  /\ SetConns(conn)
  /\ UNCHANGED <<ring, addr>>

CloseConn ==
  /\ UNCHANGED <<ring, addr, table>>
  /\ LET r == conn[watcher.node][watcher.conn] IN
     \/ /\ watcher.pc = "shut" /\ watcher' = [watcher EXCEPT !.pc = "clear"]
        /\ SetConn(watcher.node, watcher.conn, Shut(r))
     \/ /\ watcher.pc = "clear" /\ watcher' = AtRest
        /\ SetConn(watcher.node, watcher.conn, Cleared(r))

-----------------------------------------------------------------------------
(* The nodes.  One that stops, or drops a connection, may have sent a part *)
(* of a reply.                                                             *)
Answer(n, c) ==
  /\ conn[n][c].asked
  /\ \E reply \in Replies :
       conn' = [conn EXCEPT ![n][c].asked = FALSE, ![n][c].wire = @ \o reply]
  /\ UNCHANGED up

Broken(r, k) == [r EXCEPT !.peer = FALSE, !.asked = FALSE,
                          !.wire = SubSeq(@, 1, IF k < Len(@) THEN k ELSE Len(@))]

LoseConn(n, c) ==
  /\ conn[n][c].peer
  /\ \E k \in 0 .. Len(conn[n][c].wire) : conn' = [conn EXCEPT ![n][c] = Broken(@, k)]
  /\ UNCHANGED up

Stop(n) ==
  /\ up[n]
  /\ up' = [up EXCEPT ![n] = FALSE]
  /\ \E k \in 0 .. 3 : conn' = [conn EXCEPT ![n] = [c \in Conns |-> Broken(@[c], k)]]

Start(n) ==
  /\ ~ up[n]
  /\ up' = [up EXCEPT ![n] = TRUE]
  /\ UNCHANGED conn

-----------------------------------------------------------------------------
Request == FindAddress \/ FindConn \/ Connect \/ Send
             \/ TakeLine \/ TakeValue \/ EnterRecv \/ RecvSome \/ RecvEnd
Calls == NoNodes \/ \E n \in Nodes : Route(n)
Closing == CloseNext \/ CloseOne \/ StopWatcher

AppStep ==
  /\ UNCHANGED <<up, ring, addr, watcher>>
  /\ \/ UNCHANGED watching /\ (Calls \/ Request)
     \/ CloseBegin \/ Closing

WatcherGoesOn == AddToRing \/ DropAddress \/ PopConn \/ CloseConn
WatcherStep ==
  /\ UNCHANGED <<up, app, watching, result>>
  /\ WatcherGoesOn \/ \E n \in Changing : OnAdd(n) \/ OnRemove(n)

NodeStep ==
  /\ \/ \E n \in Changing : Stop(n) \/ Start(n) \/ \E c \in Conns : LoseConn(n, c)
     \/ \E n \in Nodes, c \in Conns : Answer(n, c)
  /\ UNCHANGED <<ring, addr, table, app, watcher, watching, result>>

Next == AppStep \/ WatcherStep \/ NodeStep

Spec == Init /\ [][Next]_vars

(* A call that began goes on, a node answers what it was asked, and an     *)
(* application that goes on asking routes keys to every node of the ring.  *)
FairSpec ==
  /\ Spec
  /\ WF_vars(UNCHANGED <<up, ring, addr, watcher, watching>> /\ Request)
  /\ WF_vars(UNCHANGED <<up, ring, addr, watcher>> /\ Closing)
  /\ \A n \in Nodes, c \in Conns :
       WF_vars(Answer(n, c) /\ UNCHANGED <<ring, addr, table, app, watcher, watching, result>>)
  /\ \A n \in Nodes : SF_vars(Route(n) /\ UNCHANGED <<up, ring, addr, watcher, watching>>)

-----------------------------------------------------------------------------
Parts == [name : {"status", "eol", "header", "value", "lines", "tail"}, own : BOOLEAN]
Records == [sock : {"none", "open", "closed"},
            peer : BOOLEAN, asked : BOOLEAN, wire : Seq(Parts), buf : Seq(Parts)]
AppPcs == {"idle", "routed", "found", "held", "connected", "line", "value",
           "next", "shut", "clear", "stop", "raised", "closed"}

TypeOK ==
  /\ up \in [Nodes -> BOOLEAN]
  /\ ring \subseteq Nodes /\ addr \subseteq Nodes
  /\ table \in [Nodes -> {0} \union Conns]
  /\ \A n \in Nodes, c \in Conns : conn[n][c] \in Records
  /\ app \in [pc : AppPcs, node : Nodes \union {None}, conn : {0} \union Conns, recv : BOOLEAN,
              seen : SUBSET Nodes, size : 0 .. Cardinality(Nodes)]
  /\ watcher \in [pc : {"idle", "ring", "addr", "pop", "shut", "clear"},
                  node : Nodes \union {None}, conn : {0} \union Conns]
  /\ watcher.conn # 0 => table[watcher.node] # watcher.conn
  /\ watching \in BOOLEAN
  /\ result \in [node : Nodes \union {None}, is : {"none", "own", "foreign", "error"}]

(* Over a connection that works, a request that returns gives the node's   *)
(* answer to that very request, whatever became of the earlier ones.  Only *)
(* what a broken connection has left in the buffer can be taken for one.   *)
RepliesAreOwn ==
  [][result' # result /\ result'.is = "foreign" => ~ AppConn.peer]_vars

(* Between two requests a connection that works has nothing left over:     *)
(* neither a request without its answer nor a part of an answer.           *)
ConnectionsInStep ==
  \A n \in InTable : LET r == conn[n][table[n]] IN
    r.sock = "open" /\ r.peer /\ <<app.node, app.conn>> # <<n, table[n]>>
      => ~ r.asked /\ r.wire = << >> /\ r.buf = << >>

(* No request and no close() hangs, though a node may die, a connection    *)
(* may break and the watcher may close it, at every point.                 *)
AtEnd == app.pc \in {"idle", "raised", "closed"}
CallsEnd == ~ AtEnd ~> AtEnd

(* A node that stays up and in the ring is served again and again, unless  *)
(* the table has a connection to it that broke, or the client was closed.  *)
UsesBroken(n) == HasSocket(n) /\ LET r == conn[n][table[n]] IN r.sock = "open" /\ ~ r.peer
ServesMembers ==
  \A n \in Nodes :
    []<>(\/ ~ up[n] \/ n \notin ring
         \/ result = [node |-> n, is |-> "own"]
         \/ UsesBroken(n)
         \/ app.pc \in {"next", "shut", "clear", "stop", "raised", "closed"})

-----------------------------------------------------------------------------
(* openspec/changes/add-etcd-prom-grafana/specs/etcd-discovery/spec.md:37: *)
(* close() stops the watcher, and the background thread can end.           *)
CloseStopsWatcher == app.pc \in {"raised", "closed"} => ~ watching
=============================================================================
