-------------------------- MODULE CacheClientProofs --------------------------
(***************************************************************************)
(* Theorems about CacheClient, for any set of nodes, all of which may come *)
(* and go.                                                                 *)
(***************************************************************************)
EXTENDS CacheClient, SequenceTheorems, DataLemmas

-----------------------------------------------------------------------------
(* The inductive invariant. *)

AppRecords == [pc : AppPcs, node : Nodes \union {None}, conn : {0} \union Conns, recv : BOOLEAN,
               seen : SUBSET Nodes, size : 0 .. Cardinality(Nodes)]
WatcherRecords == [pc : {"idle", "ring", "addr", "pop", "shut", "clear"},
                   node : Nodes \union {None}, conn : {0} \union Conns]
Tables == [Nodes -> [Conns -> Records]]

Types ==
  /\ up \in [Nodes -> BOOLEAN]
  /\ ring \subseteq Nodes /\ addr \subseteq Nodes
  /\ table \in [Nodes -> {0} \union Conns]
  /\ conn \in Tables
  /\ app \in AppRecords
  /\ watcher \in WatcherRecords
  /\ watching \in BOOLEAN
  /\ result \in [node : Nodes \union {None}, is : {"none", "own", "foreign", "error"}]

(* What the two threads refer to at each of their steps. *)
AppHolds ==
  /\ app.pc \in {"idle", "stop", "raised", "closed"} => app.node = None /\ app.conn = 0
  /\ app.pc \in {"routed", "found"} => app.node \in Nodes /\ app.conn = 0
  /\ app.pc \in {"held", "connected", "line", "value", "next", "shut", "clear"} =>
       app.node \in Nodes /\ app.conn \in Conns
  /\ app.recv => app.pc \in {"line", "value"}

WatcherHolds ==
  /\ watcher.pc = "idle" => watcher.node = None /\ watcher.conn = 0
  /\ watcher.pc \in {"ring", "addr", "pop"} => watcher.node \in Nodes /\ watcher.conn = 0
  /\ watcher.pc \in {"shut", "clear"} =>
       watcher.node \in Nodes /\ watcher.conn \in Conns /\ table[watcher.node] # watcher.conn

Refers(n, c) ==
  \/ table[n] = c
  \/ app.node = n /\ app.conn = c
  \/ watcher.node = n /\ watcher.conn = c

OthersUnused == \A n \in Nodes, c \in Conns : ~ Refers(n, c) => conn[n][c] = Unused

(* A connection that works has nothing left over, and one that will be     *)
(* opened again has an empty buffer.                                       *)
Clean(r) == r.sock = "open" /\ r.peer => ~ r.asked /\ r.wire = << >> /\ r.buf = << >>
Fresh(r) == r.sock = "none" => r.buf = << >>

Reads == app.pc \in {"line", "value"}
Requests == app.pc \in {"idle", "routed", "found", "held", "connected", "line", "value"}

(* The connections of the table; the one the application reads from is     *)
(* the subject of AppClean.                                                *)
TableClean ==
  \A n \in Nodes : table[n] # 0 =>
    /\ Fresh(conn[n][table[n]])
    /\ Requests => conn[n][table[n]].sock # "closed"
    /\ Clean(conn[n][table[n]]) \/ (Reads /\ app.node = n /\ app.conn = table[n])

(* What is still to be read of the answer, over a connection that works:   *)
(* all of it, unless the watcher cleared the buffer.  Then the request has *)
(* at most one more recv to go, which cannot complete a line or a value.   *)
Doomed(r, recv) == ~ recv /\ r.sock = "none" /\ r.buf = << >>
IsEol(s) == Len(s) = 1 /\ s[1].name = "eol"
IsValue(s) == Len(s) = 2 /\ s[1].own /\ s[2].own
LineAwaited(r, recv) ==
  \/ Doomed(r, recv)
  \/ r.asked /\ r.wire = << >> /\ r.buf = << >>
  \/ ~ r.asked /\ r.buf \o r.wire \in Replies
  \/ ~ r.asked /\ r.sock = "none" /\ IsEol(r.buf \o r.wire)
ValueAwaited(r, recv) ==
  /\ ~ r.asked
  /\ \/ Doomed(r, recv)
     \/ IsValue(r.buf \o r.wire)
     \/ r.sock = "none" /\ Len(r.buf) + Len(r.wire) <= 1

AppClean ==
  /\ app.pc = "held" => Clean(AppConn) /\ Fresh(AppConn)
  /\ app.pc = "connected" => Clean(AppConn)
  /\ app.pc \in {"connected", "line", "value"} /\ table[app.node] = app.conn =>
       AppConn.sock = "open"
  /\ app.pc = "line" =>
       /\ app.recv => Ends(AppConn.buf) = {}
       /\ AppConn.peer => LineAwaited(AppConn, app.recv)
  /\ app.pc = "value" =>
       /\ app.recv => Len(AppConn.buf) < 2
       /\ AppConn.peer => ValueAwaited(AppConn, app.recv)

ClientInv == Types /\ AppHolds /\ WatcherHolds /\ OthersUnused /\ TableClean /\ AppClean

-----------------------------------------------------------------------------
(* Parts of replies. *)

LEMMA ReplyParts ==
  /\ \A reply \in Replies : reply \in Seq(Parts)
  /\ << >> \in Seq(Parts)
BY DEF Replies, StatusReply, ValueReply, Part, Parts

LEMMA UnusedType == Unused \in Records /\ Clean(Unused) /\ Fresh(Unused)
BY ReplyParts DEF Unused, Records, Clean, Fresh

LEMMA NotOwnType == ASSUME NEW s \in Seq(Parts) PROVE NotOwn(s) \in Seq(Parts)
<1>1. \A i \in 1 .. Len(s) : s[i] \in Parts
  OBVIOUS
<1>2. \A p \in Parts : [p EXCEPT !.own = FALSE] \in Parts
  BY DEF Parts
<1>3. NotOwn(s) \in [1 .. Len(s) -> Parts]
  BY <1>1, <1>2 DEF NotOwn
<1> QED BY <1>3

LEMMA PiecesType ==
  ASSUME NEW s \in Seq(Parts), NEW k \in Nat
  PROVE  /\ SubSeq(s, 1, IF k < Len(s) THEN k ELSE Len(s)) \in Seq(Parts)
         /\ SubSeq(s, k + 1, Len(s)) \in Seq(Parts)
<1>1. \A i \in 1 .. Len(s) : s[i] \in Parts
  OBVIOUS
<1>2. Len(s) \in Nat
  OBVIOUS
<1> DEFINE m == IF k < Len(s) THEN k ELSE Len(s)
<1>3. m \in Nat /\ m <= Len(s)
  BY <1>2
<1>4. SubSeq(s, 1, m) \in Seq(Parts)
  <2> HIDE DEF m
  <2> QED BY <1>2, <1>3, SubSeqProperties
<1>5. SubSeq(s, k + 1, Len(s)) \in Seq(Parts)
  <2>1. \A i \in k + 1 .. Len(s) : s[i] \in Parts
    BY <1>1, <1>2
  <2>2. k + 1 \in Int /\ Len(s) \in Int
    BY <1>2
  <2> QED BY ONLY <2>1, <2>2, SubSeqProperties
<1> QED BY <1>4, <1>5

LEMMA Splits ==
  ASSUME NEW a \in Seq(Parts), NEW b \in Seq(Parts), NEW s \in Seq(Parts), a \o b = s
  PROVE  /\ Len(a) \in Nat /\ Len(b) \in Nat /\ Len(a) + Len(b) = Len(s)
         /\ DOMAIN a = 1 .. Len(a)
         /\ \A i \in 1 .. Len(a) : a[i] = s[i]
         /\ \A i \in 1 .. Len(b) : b[i] = s[Len(a) + i]
<1>1. Len(a) \in Nat /\ Len(b) \in Nat /\ DOMAIN a = 1 .. Len(a)
  OBVIOUS
<1>2. /\ Len(s) = Len(a) + Len(b)
      /\ \A i \in 1 .. Len(a) + Len(b) : s[i] = IF i <= Len(a) THEN a[i] ELSE b[i - Len(a)]
  BY ConcatProperties
<1>3. ASSUME NEW i \in 1 .. Len(a) PROVE a[i] = s[i]
  BY <1>1, <1>2
<1>4. ASSUME NEW i \in 1 .. Len(b) PROVE b[i] = s[Len(a) + i]
  <2>1. Len(a) + i \in 1 .. Len(a) + Len(b) /\ ~ (Len(a) + i <= Len(a)) /\ Len(a) + i - Len(a) = i
    BY <1>1
  <2> QED BY <1>2, <2>1
<1> QED BY <1>1, <1>2, <1>3, <1>4

LEMMA PartsJoin ==
  \A a, b, c \in Seq(Parts) : a \o b \in Seq(Parts) /\ (a \o b) \o c = a \o (b \o c)
BY ConcatProperties, ConcatAssociative

(* recv moves pieces from the wire to the buffer. *)
LEMMA Moved ==
  ASSUME NEW a \in Seq(Parts), NEW b \in Seq(Parts), NEW k \in DOMAIN b
  PROVE  /\ a \o SubSeq(b, 1, k) \in Seq(Parts) /\ SubSeq(b, k + 1, Len(b)) \in Seq(Parts)
         /\ (a \o SubSeq(b, 1, k)) \o SubSeq(b, k + 1, Len(b)) = a \o b
<1>1. k \in 1 .. Len(b) /\ Len(b) \in Nat
  OBVIOUS
<1> DEFINE c == SubSeq(b, 1, k)
           d == SubSeq(b, k + 1, Len(b))
<1>2. \A i \in 1 .. Len(b) : b[i] \in Parts
  OBVIOUS
<1>3. c \in Seq(Parts) /\ d \in Seq(Parts)
  <2>1. c \in Seq(Parts)
    BY <1>1, <1>2, SubSeqProperties
  <2>2. d \in Seq(Parts)
    <3>1. \A i \in k + 1 .. Len(b) : b[i] \in Parts
      BY <1>1, <1>2
    <3>2. k + 1 \in Int /\ Len(b) \in Int
      BY <1>1
    <3> QED BY ONLY <3>1, <3>2, SubSeqProperties
  <2> QED BY <2>1, <2>2
<1>4. c \o d = b
  <2>1. 1 \in 1 .. Len(b) + 1 /\ k \in 1 - 1 .. Len(b) /\ Len(b) \in k .. Len(b)
    BY <1>1
  <2>2. c \o d = SubSeq(b, 1, Len(b))
    BY <2>1, ConcatAdjacentSubSeq
  <2> QED BY <2>2, SubSeqFull
<1> HIDE DEF c, d
<1>5. a \o c \in Seq(Parts) /\ (a \o c) \o d = a \o b
  <2>1. (a \o c) \o d = a \o (c \o d)
    BY <1>3, PartsJoin
  <2>2. a \o c \in Seq(Parts)
    BY <1>3
  <2> QED BY <1>4, <2>1, <2>2
<1> QED BY <1>3, <1>5 DEF c, d

LEMMA FirstLineIs ==
  ASSUME NEW a \in Seq(Parts), NEW m \in 1 .. Len(a), EndsLine(a[m]),
         \A i \in 1 .. Len(a) : i < m => ~ EndsLine(a[i])
  PROVE  FirstLine(a) = SubSeq(a, 1, m) /\ Len(FirstLine(a)) = m
         /\ \A i \in 1 .. m : FirstLine(a)[i] = a[i]
<1>1. Len(a) \in Nat /\ DOMAIN a = 1 .. Len(a) /\ \A i \in 1 .. Len(a) : a[i] \in Parts
  OBVIOUS
<1> DEFINE First(i) == \A j \in Ends(a) : i <= j
           l == CHOOSE i \in Ends(a) : First(i)
<1>2. m \in Ends(a) /\ First(m)
  <2>1. m \in Ends(a)
    BY <1>1 DEF Ends
  <2>2. ASSUME NEW j \in Ends(a) PROVE m <= j
    <3>1. j \in 1 .. Len(a) /\ EndsLine(a[j])
      BY <1>1 DEF Ends
    <3> QED BY <1>1, <3>1
  <2> QED BY <2>1, <2>2
<1>3. l \in Ends(a) /\ First(l)
  BY <1>2
<1>4. l = m
  <2>1. l <= m /\ m <= l
    BY <1>2, <1>3
  <2>2. l \in 1 .. Len(a)
    BY <1>1, <1>3 DEF Ends
  <2> HIDE DEF l
  <2> QED BY ONLY <1>1, <2>1, <2>2, m \in 1 .. Len(a)
<1>5. FirstLine(a) = SubSeq(a, 1, m)
  BY <1>4 DEF FirstLine
<1>6. /\ Len(SubSeq(a, 1, m)) = IF 1 <= m THEN m - 1 + 1 ELSE 0
      /\ \A i \in 1 .. m - 1 + 1 : SubSeq(a, 1, m)[i] = a[1 + i - 1]
  BY <1>1, SubSeqProperties
<1> QED BY <1>1, <1>5, <1>6

LEMMA DropIs ==
  ASSUME NEW a \in Seq(Parts), NEW m \in 0 .. Len(a)
  PROVE  /\ SubSeq(a, m + 1, Len(a)) \in Seq(Parts)
         /\ Len(SubSeq(a, m + 1, Len(a))) = Len(a) - m
         /\ \A i \in 1 .. Len(a) - m : SubSeq(a, m + 1, Len(a))[i] = a[m + i]
<1>1. Len(a) \in Nat /\ m \in Nat /\ m <= Len(a) /\ \A i \in 1 .. Len(a) : a[i] \in Parts
  OBVIOUS
<1> DEFINE n == Len(a)
           d == SubSeq(a, m + 1, n)
<1>2. \A i \in m + 1 .. n : a[i] \in Parts
  BY <1>1
<1>3. /\ d \in Seq(Parts)
      /\ Len(d) = IF m + 1 <= n THEN n - (m + 1) + 1 ELSE 0
      /\ \A i \in 1 .. n - (m + 1) + 1 : d[i] = a[m + 1 + i - 1]
  <2> HIDE DEF n
  <2> QED BY <1>1, <1>2, SubSeqProperties DEF n
<1> HIDE DEF d
<1>4. Len(d) = n - m
  BY <1>1, <1>3
<1>5. ASSUME NEW i \in 1 .. n - m PROVE d[i] = a[m + i]
  <2>1. i \in 1 .. n - (m + 1) + 1 /\ m + 1 + i - 1 = m + i
    BY <1>1
  <2> QED BY <1>3, <2>1
<1> QED BY <1>3, <1>4, <1>5 DEF d

LEMMA EmptyOf == ASSUME NEW a \in Seq(Parts), Len(a) = 0 PROVE a = << >>
OBVIOUS

(* The answer is a status line, or a header before a value. *)
LEMMA ReadLine ==
  ASSUME NEW a \in Seq(Parts), NEW b \in Seq(Parts), a \o b \in Replies, Ends(a) # {}
  PROVE  LET line == FirstLine(a)
             rest == SubSeq(a, Len(line) + 1, Len(a)) IN
         /\ rest \in Seq(Parts)
         /\ \/ line[1].name = "status" /\ AllOwn(line) /\ rest = << >> /\ b = << >>
            \/ line[1].name = "header" /\ IsValue(rest \o b)
<1> DEFINE line == FirstLine(a)
           rest == SubSeq(a, Len(line) + 1, Len(a))
<1>1. CASE a \o b = StatusReply
  <2>1. /\ Len(a) \in Nat /\ Len(b) \in Nat /\ Len(a) + Len(b) = 2 /\ DOMAIN a = 1 .. Len(a)
        /\ \A i \in 1 .. Len(a) : a[i] = StatusReply[i]
    <3>1. StatusReply \in Seq(Parts) /\ Len(StatusReply) = 2
      BY DEF StatusReply, Part, Parts
    <3>2. a \in Seq(Parts) /\ b \in Seq(Parts) /\ a \o b = StatusReply
      BY <1>1
    <3> DEFINE s == StatusReply
    <3> HIDE DEF s
    <3>3. Len(a) + Len(b) = Len(s) /\ Len(a) \in Nat /\ Len(b) \in Nat /\ DOMAIN a = 1 .. Len(a)
          /\ (\A i \in 1 .. Len(a) : a[i] = s[i])
      <4>1. a \in Seq(Parts) /\ b \in Seq(Parts) /\ s \in Seq(Parts) /\ a \o b = s
        BY <3>1, <3>2 DEF s
      <4> QED BY ONLY <4>1, Splits
    <3> QED BY <3>1, <3>3 DEF s
  <2>2. StatusReply[1] = Part("status") /\ StatusReply[2] = Part("eol")
    BY DEF StatusReply
  <2>3. Len(a) = 2 /\ Len(b) = 0
    <3>1. PICK i \in 1 .. Len(a) : EndsLine(a[i])
      BY <2>1 DEF Ends
    <3>2. i # 1
      BY <2>1, <2>2, <3>1 DEF EndsLine, Part
    <3> QED BY <2>1, <3>2
  <2>4. a[1] = Part("status") /\ a[2] = Part("eol")
    BY <2>1, <2>2, <2>3
  <2>5. Len(line) = 2 /\ line[1] = Part("status") /\ line[2] = Part("eol") /\ DOMAIN line = 1 .. 2
    <3>1. EndsLine(a[2]) /\ ~ EndsLine(a[1])
      BY <2>4 DEF EndsLine, Part
    <3>2. \A i \in 1 .. Len(a) : i < 2 => i = 1
      BY <2>3
    <3>3. line = SubSeq(a, 1, 2) /\ Len(line) = 2 /\ line[1] = a[1] /\ line[2] = a[2]
      <4>1. 2 \in 1 .. Len(a) /\ \A i \in 1 .. Len(a) : i < 2 => ~ EndsLine(a[i])
        BY <2>3, <3>1, <3>2
      <4>2. 1 \in 1 .. 2 /\ 2 \in 1 .. 2
        OBVIOUS
      <4> QED BY <3>1, <4>1, <4>2, FirstLineIs
    <3>4. DOMAIN SubSeq(a, 1, 2) = 1 .. 2
      BY <2>3
    <3> QED BY <2>4, <3>3, <3>4
  <2>6. line[1].name = "status" /\ AllOwn(line)
    BY <2>5 DEF AllOwn, Part
  <2>7. rest \in Seq(Parts) /\ rest = << >>
    BY <2>3, <2>5, DropIs, EmptyOf
  <2> QED BY <2>3, <2>6, <2>7, EmptyOf
<1>2. CASE \E v \in {"value", "lines"} : a \o b = ValueReply(v)
  <2>1. PICK v \in {"value", "lines"} : a \o b = ValueReply(v)
    BY <1>2
  <2> DEFINE s == ValueReply(v)
  <2>2. Len(s) = 3 /\ s \in Seq(Parts) /\ s[1] = Part("header") /\ s[2] = Part(v) /\ s[3] = Part("tail")
    BY ReplyParts DEF ValueReply, Replies
  <2>3. /\ Len(a) \in Nat /\ Len(b) \in Nat /\ Len(a) + Len(b) = 3 /\ DOMAIN a = 1 .. Len(a)
        /\ \A i \in 1 .. Len(a) : a[i] = s[i]
        /\ \A i \in 1 .. Len(b) : b[i] = s[Len(a) + i]
    <3>1. a \in Seq(Parts) /\ b \in Seq(Parts) /\ s \in Seq(Parts) /\ a \o b = s
      BY <2>1, <2>2
    <3> HIDE DEF s
    <3>2. Len(a) + Len(b) = Len(s) /\ Len(a) \in Nat /\ Len(b) \in Nat /\ DOMAIN a = 1 .. Len(a)
          /\ (\A i \in 1 .. Len(a) : a[i] = s[i])
          /\ (\A i \in 1 .. Len(b) : b[i] = s[Len(a) + i])
      BY ONLY <3>1, Splits
    <3> QED BY <2>2, <3>2
  <2>4. Len(a) >= 1 /\ a[1] = Part("header")
    <3>1. PICK i \in 1 .. Len(a) : TRUE
      BY <2>3 DEF Ends
    <3> QED BY <2>2, <2>3
  <2>5. Len(line) = 1 /\ line[1] = Part("header")
    <3>1. EndsLine(a[1]) /\ 1 \in 1 .. Len(a) /\ \A i \in 1 .. Len(a) : ~ (i < 1)
      BY <2>3, <2>4 DEF EndsLine, Part
    <3>2. Len(line) = 1 /\ line[1] = a[1]
      <4> HIDE DEF line
      <4>1. line = FirstLine(a)
        BY DEF line
      <4>2. Len(FirstLine(a)) = 1 /\ \A i \in 1 .. 1 : FirstLine(a)[i] = a[i]
        BY <3>1, FirstLineIs
      <4> QED BY <4>1, <4>2
    <3> QED BY <2>4, <3>2
  <2> HIDE DEF line
  <2>6. /\ rest \in Seq(Parts) /\ Len(rest) = Len(a) - 1
        /\ \A i \in 1 .. Len(a) - 1 : rest[i] = a[1 + i]
    BY <2>3, <2>4, <2>5, DropIs
  <2> HIDE DEF rest, s
  <2>7. IsValue(rest \o b)
    <3> DEFINE t == rest \o b
    <3>1. /\ t \in Seq(Parts) /\ Len(t) = Len(rest) + Len(b)
          /\ \A i \in 1 .. Len(rest) + Len(b) : t[i] = IF i <= Len(rest) THEN rest[i] ELSE b[i - Len(rest)]
      BY <2>6, ConcatProperties
    <3> HIDE DEF t
    <3>2. Len(t) = 2
      BY <2>3, <2>6, <3>1
    <3>3. ASSUME NEW i \in 1 .. 2 PROVE t[i] = s[i + 1]
      <4>1. CASE i <= Len(a) - 1
        <5>1. t[i] = rest[i] /\ rest[i] = a[1 + i] /\ 1 + i \in 1 .. Len(a)
          BY <2>3, <2>6, <3>1, <3>2, <4>1
        <5> QED BY <2>3, <5>1
      <4>2. CASE ~ (i <= Len(a) - 1)
        <5>1. t[i] = b[i - (Len(a) - 1)] /\ i - (Len(a) - 1) \in 1 .. Len(b)
          BY <2>3, <2>6, <3>1, <3>2, <4>2
        <5>2. Len(a) + (i - (Len(a) - 1)) = i + 1
          BY <2>3
        <5> QED BY <2>3, <5>1, <5>2
      <4> QED BY <4>1, <4>2
    <3>4. t[1] = Part(v) /\ t[2] = Part("tail")
      BY <2>2, <3>3
    <3> QED BY <3>2, <3>4 DEF t, IsValue, Part
  <2>8. line[1].name = "header" /\ IsValue(rest \o b)
    BY <2>5, <2>7 DEF Part
  <2> QED BY <2>6, <2>8 DEF rest, line
<1> QED BY <1>1, <1>2 DEF Replies

LEMMA SmallSums ==
  \A m, n \in Nat :
    /\ m + n = 2 /\ m >= 2 => m = 2 /\ n = 0
    /\ m + n = 2 /\ m # 0 /\ m # 2 => m = 1 /\ n = 1
    /\ m < 2 => m = 0 \/ m = 1
    /\ m >= 2 => ~ (m + n <= 1)
OBVIOUS

(* A line, whatever it is, is a beginning of the buffer. *)
LEMMA LineLeaves ==
  ASSUME NEW a \in Seq(Parts), Ends(a) # {}
  PROVE  /\ Len(FirstLine(a)) \in 1 .. Len(a)
         /\ FirstLine(a)[1] = a[1]
         /\ SubSeq(a, Len(FirstLine(a)) + 1, Len(a)) \in Seq(Parts)
<1>1. Len(a) \in Nat /\ DOMAIN a = 1 .. Len(a)
  OBVIOUS
<1>2. Ends(a) \in SUBSET Nat /\ \A i \in Ends(a) : i \in 1 .. Len(a) /\ EndsLine(a[i])
  BY <1>1 DEF Ends
<1>3. PICK m \in Ends(a) : \A i \in Ends(a) : m <= i
  BY <1>2, LeastNumber
<1>4. m \in 1 .. Len(a) /\ EndsLine(a[m]) /\ 1 \in 1 .. m
  BY <1>2, <1>3
<1>5. \A i \in 1 .. Len(a) : i < m => ~ EndsLine(a[i])
  <2> SUFFICES ASSUME NEW i \in 1 .. Len(a), i < m, EndsLine(a[i]) PROVE FALSE
    OBVIOUS
  <2>1. i \in Ends(a)
    BY <1>1 DEF Ends
  <2>2. m <= i
    BY <1>3, <2>1
  <2> QED BY ONLY <1>4, <2>2, i < m, i \in 1 .. Len(a), <1>1
<1>6. Len(FirstLine(a)) = m /\ FirstLine(a)[1] = a[1]
  BY <1>4, <1>5, FirstLineIs
<1>7. SubSeq(a, m + 1, Len(a)) \in Seq(Parts)
  BY <1>1, <1>4, DropIs
<1> QED BY <1>4, <1>6, <1>7

(* The end of a status line alone is read as a line, and not as one that   *)
(* is an answer.                                                           *)
LEMMA ReadEol ==
  ASSUME NEW a \in Seq(Parts), NEW b \in Seq(Parts), IsEol(a \o b), Ends(a) # {}
  PROVE  FirstLine(a)[1].name = "eol"
<1>1. a \o b \in Seq(Parts)
  OBVIOUS
<1>2. Len(a) \in Nat /\ Len(b) \in Nat /\ Len(a) + Len(b) = 1 /\ \A i \in 1 .. Len(a) : a[i] = (a \o b)[i]
  BY <1>1, Splits DEF IsEol
<1>3. Len(FirstLine(a)) \in 1 .. Len(a) /\ FirstLine(a)[1] = a[1]
  BY LineLeaves
<1> QED BY <1>2, <1>3 DEF IsEol

LEMMA ReadValue ==
  ASSUME NEW a \in Seq(Parts), NEW b \in Seq(Parts), IsValue(a \o b), Len(a) >= 2
  PROVE  AllOwn(SubSeq(a, 1, 2)) /\ SubSeq(a, 3, Len(a)) = << >> /\ b = << >>
<1>1. a \o b \in Seq(Parts)
  OBVIOUS
<1>2. Len(a) \in Nat /\ Len(b) \in Nat /\ Len(a) + Len(b) = 2 /\ \A i \in 1 .. Len(a) : a[i] = (a \o b)[i]
  BY <1>1, Splits DEF IsValue
<1>3. Len(a) = 2 /\ Len(b) = 0
  BY <1>2, SmallSums
<1>4. SubSeq(a, 3, 2) = << >>
  BY SubSeqEmpty
<1>5. SubSeq(a, 1, 2) = a /\ DOMAIN a = 1 .. 2
  BY <1>3, SubSeqFull
<1>6. a[1].own /\ a[2].own
  BY <1>2, <1>3 DEF IsValue
<1>7. AllOwn(a)
  BY <1>5, <1>6 DEF AllOwn
<1> QED BY <1>3, <1>4, <1>5, <1>7, EmptyOf

(* What is left to be read when the watcher clears the buffer under recv. *)
LEMMA LineCleared ==
  ASSUME NEW a \in Seq(Parts), NEW b \in Seq(Parts), Ends(a) = {},
         a \o b \in Replies \/ IsEol(a \o b)
  PROVE  << >> \o b \in Replies \/ IsEol(<< >> \o b)
<1> DEFINE s == a \o b
<1>1. s \in Seq(Parts) /\ << >> \o b = b
  BY ConcatEmptySeq
<1>2. /\ Len(a) \in Nat /\ Len(b) \in Nat /\ Len(a) + Len(b) = Len(s) /\ DOMAIN a = 1 .. Len(a)
      /\ \A i \in 1 .. Len(a) : a[i] = s[i]
      /\ \A i \in 1 .. Len(b) : b[i] = s[Len(a) + i]
  BY <1>1, Splits
<1> HIDE DEF s
<1>3. \A i \in 1 .. Len(a) : ~ EndsLine(s[i])
  BY <1>2 DEF Ends
<1>4. CASE Len(a) = 0
  <2>1. b = s
    BY <1>1, <1>4, EmptyOf DEF s
  <2> QED BY <1>1, <2>1 DEF s
<1>5. CASE Len(a) # 0
  <2>1. ~ EndsLine(s[1])
    BY <1>2, <1>3, <1>5
  <2>2. s = StatusReply
    <3>1. ASSUME NEW v, s = ValueReply(v) PROVE FALSE
      BY <2>1, <3>1 DEF ValueReply, EndsLine, Part
    <3>2. ~ IsEol(s)
      BY <2>1 DEF IsEol, EndsLine
    <3> QED BY <3>1, <3>2 DEF Replies, s
  <2>3. Len(s) = 2 /\ s[2].name = "eol"
    BY <2>2 DEF StatusReply, Part
  <2>4. Len(a) = 1 /\ Len(b) = 1
    <3>1. Len(a) # 2
      <4> SUFFICES ASSUME Len(a) = 2 PROVE FALSE
        OBVIOUS
      <4>1. 2 \in 1 .. Len(a)
        OBVIOUS
      <4> QED BY <1>3, <2>3, <4>1 DEF EndsLine
    <3>2. Len(a) + Len(b) = 2
      BY <1>2, <2>3
    <3> QED BY <1>2, <1>5, <3>1, <3>2, SmallSums
  <2>5. b[1] = s[2]
    BY <1>2, <2>4
  <2> QED BY <1>1, <2>3, <2>4, <2>5 DEF IsEol
<1> QED BY <1>4, <1>5

LEMMA ValueCleared ==
  ASSUME NEW a \in Seq(Parts), NEW b \in Seq(Parts), Len(a) < 2,
         IsValue(a \o b) \/ Len(a) + Len(b) <= 1
  PROVE  IsValue(<< >> \o b) \/ Len(<< >>) + Len(b) <= 1
<1>1. a \o b \in Seq(Parts) /\ << >> \o b = b /\ Len(<< >>) = 0
  BY ConcatEmptySeq
<1>2. Len(a) \in Nat /\ Len(b) \in Nat /\ Len(a) + Len(b) = Len(a \o b)
  BY <1>1, Splits
<1>3. CASE Len(a) = 0
  <2>1. b = a \o b
    BY <1>1, <1>3, EmptyOf
  <2> QED BY <1>1, <1>2, <1>3, <2>1
<1>4. CASE Len(a) = 1
  BY <1>1, <1>2, <1>4 DEF IsValue
<1> QED BY <1>2, <1>3, <1>4, SmallSums

-----------------------------------------------------------------------------
(* What a step does to the _Conn objects. *)

Sets(cs) ==
  /\ conn' \in Tables
  /\ \A n \in Nodes, c \in Conns : conn'[n][c] = IF Refers(n, c)' THEN cs[n][c] ELSE Unused

LEMMA ConnsAre == Conns = {1, 2} /\ 0 \notin Conns
BY DEF Conns

LEMMA SetsConns ==
  ASSUME NEW cs \in Tables, SetConns(cs)
  PROVE  Sets(cs)
<1>1. ASSUME NEW n, NEW c PROVE Referred(n, c) <=> Refers(n, c)'
  BY DEF Referred, Refers
<1>2. conn' = [n \in Nodes |-> [c \in Conns |-> IF Referred(n, c) THEN cs[n][c] ELSE Unused]]
  BY DEF SetConns
<1>3. ASSUME NEW n \in Nodes, NEW c \in Conns
      PROVE  (IF Referred(n, c) THEN cs[n][c] ELSE Unused) \in Records
  BY UnusedType DEF Tables
<1>4. conn' \in Tables
  BY <1>2, <1>3 DEF Tables
<1>5. ASSUME NEW n \in Nodes, NEW c \in Conns
      PROVE  conn'[n][c] = IF Refers(n, c)' THEN cs[n][c] ELSE Unused
  BY <1>1, <1>2
<1> QED BY <1>4, <1>5 DEF Sets

LEMMA SetsOne ==
  ASSUME conn \in Tables, NEW n \in Nodes, NEW c \in Conns, NEW r \in Records
  PROVE  /\ [conn EXCEPT ![n][c] = r] \in Tables
         /\ [conn EXCEPT ![n][c] = r][n][c] = r
         /\ \A m \in Nodes, d \in Conns :
              [conn EXCEPT ![n][c] = r][m][d] = conn[m][d] \/ (m = n /\ d = c)
BY DEF Tables

LEMMA KeepsConns ==
  ASSUME conn \in Tables, OthersUnused, conn' = conn,
         \A n \in Nodes, c \in Conns : Refers(n, c) => Refers(n, c)'
  PROVE  Sets(conn)
BY DEF OthersUnused, Sets

(* A step of the application's thread that takes nothing out of the table: *)
(* it leaves the connections as they must be, if it leaves its own so.     *)
LEMMA AppKeeps ==
  ASSUME ClientInv, NEW cs \in Tables, Sets(cs), table' = table, watcher' = watcher,
         \A n \in Nodes, c \in Conns : cs[n][c] = conn[n][c] \/ (n = app.node /\ c = app.conn),
         Requests' => Requests,
         app.conn # 0 /\ table[app.node] = app.conn =>
           /\ Fresh(cs[app.node][app.conn])
           /\ Requests' => cs[app.node][app.conn].sock # "closed"
           /\ \/ Clean(cs[app.node][app.conn])
              \/ Reads' /\ app'.node = app.node /\ app'.conn = app.conn
  PROVE  conn' \in Tables /\ OthersUnused' /\ TableClean' /\ WatcherHolds'
<1>1. conn' \in Tables /\ OthersUnused'
  BY DEF Sets, OthersUnused
<1>2. WatcherHolds'
  BY DEF ClientInv, WatcherHolds
<1>3. ASSUME NEW n \in Nodes, table'[n] # 0
      PROVE  /\ Fresh(conn'[n][table'[n]])
             /\ Requests' => conn'[n][table'[n]].sock # "closed"
             /\ Clean(conn'[n][table'[n]]) \/ (Reads' /\ app'.node = n /\ app'.conn = table'[n])
  <2>0. PICK c \in Conns : c = table[n]
    BY <1>3 DEF ClientInv, Types
  <2>1. c \in Conns /\ c # 0 /\ table'[n] = c
    BY <1>3, <2>0
  <2>2. Refers(n, c)'
    BY <2>1 DEF Refers
  <2>3. conn'[n][c] = cs[n][c]
    BY <2>1, <2>2 DEF Sets
  <2>4. CASE n = app.node /\ c = app.conn
    <3>1. app.conn # 0 /\ table[app.node] = app.conn
      BY <2>0, <2>1, <2>4
    <3> QED BY <2>1, <2>3, <2>4, <3>1
  <2>5. CASE ~ (n = app.node /\ c = app.conn)
    <3>1. cs[n][c] = conn[n][c]
      BY <2>1, <2>5
    <3>2. /\ Fresh(conn[n][c])
          /\ Requests => conn[n][c].sock # "closed"
          /\ Clean(conn[n][c]) \/ (app.node = n /\ app.conn = c)
      <4>1. TableClean
        BY DEF ClientInv
      <4>2. table[n] # 0
        BY <2>0, <2>1
      <4>3. /\ Fresh(conn[n][table[n]])
            /\ Requests => conn[n][table[n]].sock # "closed"
            /\ Clean(conn[n][table[n]]) \/ (app.node = n /\ app.conn = table[n])
        BY <4>1, <4>2, Zenon DEF TableClean
      <4> QED BY <2>0, <4>3
    <3>3. Requests' => conn[n][c].sock # "closed"
      BY <3>2
    <3>4. Clean(conn[n][c])
      BY <2>5, <3>2
    <3> QED BY ONLY <2>1, <2>3, <3>1, <3>2, <3>3, <3>4
  <2> QED BY <2>4, <2>5
<1>4. TableClean'
  BY <1>3 DEF TableClean
<1> QED BY <1>1, <1>2, <1>4

LEMMA SizesAre == 0 \in 0 .. Cardinality(Nodes)
<1>1. Cardinality(Nodes) \in Nat
  BY NodesAssumption, FS_CardinalityType
<1> QED BY <1>1

LEMMA IdleIs ==
  /\ Idle \in AppRecords
  /\ Idle.pc = "idle" /\ Idle.node = None /\ Idle.conn = 0 /\ Idle.recv = FALSE
BY SizesAre DEF Idle, AppRecords, AppPcs

LEMMA AppGoesIs ==
  ASSUME app \in AppRecords, NEW pc \in AppPcs, AppGoes(pc)
  PROVE  /\ app' \in AppRecords
         /\ app'.pc = pc /\ app'.node = app.node /\ app'.conn = app.conn /\ app'.recv = app.recv
BY DEF AppGoes, AppRecords

LEMMA AppConnType ==
  ASSUME conn \in Tables, app.node \in Nodes, app.conn \in Conns
  PROVE  /\ AppConn \in Records
         /\ AppConn.buf \in Seq(Parts) /\ AppConn.wire \in Seq(Parts)
         /\ AppConn.asked \in BOOLEAN /\ AppConn.peer \in BOOLEAN
BY DEF Tables, AppConn, Records

(* A request that returns, over its connection or before it has one. *)
LEMMA Returns ==
  ASSUME ClientInv, Requests, UNCHANGED <<up, ring, addr, watcher, watching, table>>,
         NEW is \in {"own", "foreign", "error"}, Return(is),
         NEW cs \in Tables, Sets(cs),
         \A n \in Nodes, c \in Conns : cs[n][c] = conn[n][c] \/ (n = app.node /\ c = app.conn),
         app.conn # 0 /\ table[app.node] = app.conn =>
           /\ Fresh(cs[app.node][app.conn]) /\ Clean(cs[app.node][app.conn])
           /\ cs[app.node][app.conn].sock # "closed"
  PROVE  ClientInv'
<1>1. app' = Idle
  BY DEF Return
<1>2. /\ app' \in AppRecords
      /\ app'.pc = "idle" /\ app'.node = None /\ app'.conn = 0 /\ app'.recv = FALSE
  BY <1>1, IdleIs
<1>3. result' \in [node : Nodes \union {None}, is : {"none", "own", "foreign", "error"}]
  BY DEF Return, ClientInv, Types, AppRecords
<1>4. conn' \in Tables /\ OthersUnused' /\ TableClean' /\ WatcherHolds'
  <2>1. table' = table /\ watcher' = watcher
    OBVIOUS
  <2> QED BY <2>1, AppKeeps
<1>5. Types'
  BY <1>2, <1>3, <1>4 DEF ClientInv, Types
<1>6. AppHolds' /\ AppClean'
  BY <1>2 DEF AppHolds, AppClean
<1> QED BY <1>4, <1>5, <1>6 DEF ClientInv

LEMMA Fails ==
  ASSUME ClientInv, Requests, UNCHANGED <<up, ring, addr, watcher, watching, table>>, Fail,
         app.conn # 0 /\ table[app.node] = app.conn => Clean(AppConn)
  PROVE  ClientInv'
<1>1. conn \in Tables /\ table \in [Nodes -> {0} \union Conns]
  BY DEF ClientInv, Types
<1>2. Sets(conn)
  BY <1>1, SetsConns DEF Fail
<1>3. ASSUME app.conn # 0, table[app.node] = app.conn
      PROVE  Fresh(conn[app.node][app.conn]) /\ conn[app.node][app.conn].sock # "closed"
  <2>1. app.node \in Nodes
    BY <1>3 DEF ClientInv, AppHolds, Requests
  <2>2. TableClean
    BY DEF ClientInv
  <2> QED BY <1>3, <2>1, <2>2 DEF TableClean
<1>4. Return("error")
  BY DEF Fail
<1> QED BY <1>1, <1>2, <1>3, <1>4, Returns DEF AppConn

(* What a line is, of the answer that the request waits for. *)
LEMMA LineTaken ==
  ASSUME ClientInv, ~ app.recv, HasLine
  PROVE  LET line == FirstLine(Received)
             rest == Drop(Len(line)) IN
         /\ rest \in Records /\ rest.sock = AppConn.sock /\ rest.peer = AppConn.peer
         /\ AppConn.peer =>
              \/ line[1].name = "status" /\ AllOwn(line) /\ Clean(rest)
              \/ line[1].name = "header" /\ ~ rest.asked /\ IsValue(rest.buf \o rest.wire)
              \/ line[1].name = "eol" /\ AppConn.sock = "none"
<1> DEFINE r == AppConn
           line == FirstLine(r.buf)
           left == SubSeq(r.buf, Len(line) + 1, Len(r.buf))
           rest == [r EXCEPT !.buf = left]
<1>1. app.pc = "line" /\ Ends(r.buf) # {}
  BY DEF HasLine, Received
<1>2. r \in Records /\ r.buf \in Seq(Parts) /\ r.wire \in Seq(Parts)
  BY <1>1, AppConnType DEF ClientInv, Types, AppHolds
<1>3. AppClean
  BY DEF ClientInv
<1>4. r.peer => LineAwaited(r, app.recv)
  BY <1>1, <1>3 DEF AppClean
<1>5. Drop(Len(FirstLine(Received))) = rest /\ Received = r.buf
  BY DEF Drop, Received
<1> HIDE DEF r
<1>6. left \in Seq(Parts)
  BY <1>1, <1>2, LineLeaves
<1>7. /\ rest \in Records /\ rest.sock = r.sock /\ rest.peer = r.peer
      /\ rest.asked = r.asked /\ rest.wire = r.wire /\ rest.buf = left
  <2> HIDE DEF left
  <2> QED BY <1>2, <1>6 DEF Records
<1> HIDE DEF left
<1>8. ASSUME r.peer
      PROVE  \/ line[1].name = "status" /\ AllOwn(line) /\ ~ r.asked /\ left = << >> /\ r.wire = << >>
             \/ line[1].name = "header" /\ ~ r.asked /\ IsValue(left \o r.wire)
             \/ line[1].name = "eol" /\ r.sock = "none"
  <2>1. r.buf # << >>
    BY <1>1 DEF Ends
  <2>2. CASE ~ r.asked /\ r.buf \o r.wire \in Replies
    BY <1>1, <1>2, <2>2, ReadLine DEF left
  <2>3. CASE r.sock = "none" /\ IsEol(r.buf \o r.wire)
    BY <1>1, <1>2, <2>3, ReadEol
  <2> QED BY <1>4, <1>8, <2>1, <2>2, <2>3 DEF LineAwaited, Doomed
<1> HIDE DEF rest, line
<1>9. r.peer =>
        \/ line[1].name = "status" /\ AllOwn(line) /\ Clean(rest)
        \/ line[1].name = "header" /\ ~ rest.asked /\ IsValue(rest.buf \o rest.wire)
        \/ line[1].name = "eol" /\ r.sock = "none"
  BY <1>7, <1>8 DEF Clean
<1> QED BY <1>5, <1>7, <1>9 DEF r, line, rest

(* And what the value is. *)
LEMMA ValueTaken ==
  ASSUME ClientInv, HasValue
  PROVE  /\ Drop(2) \in Records /\ Drop(2).sock = AppConn.sock
         /\ AppConn.peer => AllOwn(SubSeq(Received, 1, 2)) /\ Clean(Drop(2))
<1> DEFINE r == AppConn
           left == SubSeq(r.buf, 3, Len(r.buf))
           rest == [r EXCEPT !.buf = left]
<1>1. app.pc = "value" /\ Len(r.buf) >= 2
  BY DEF HasValue, Received
<1>2. r \in Records /\ r.buf \in Seq(Parts) /\ r.wire \in Seq(Parts)
  BY <1>1, AppConnType DEF ClientInv, Types, AppHolds
<1>3. AppClean
  BY DEF ClientInv
<1>4. r.peer => ValueAwaited(r, app.recv)
  BY <1>1, <1>3 DEF AppClean
<1>5. Drop(2) = rest /\ Received = r.buf
  BY DEF Drop, Received
<1> HIDE DEF r
<1>6. left \in Seq(Parts)
  <2>1. 2 \in 0 .. Len(r.buf)
    BY <1>1, <1>2
  <2> QED BY <1>2, <2>1, DropIs
<1>7. /\ rest \in Records /\ rest.sock = r.sock
      /\ rest.asked = r.asked /\ rest.wire = r.wire /\ rest.buf = left
  <2> HIDE DEF left
  <2> QED BY <1>2, <1>6 DEF Records
<1> HIDE DEF left
<1>8. ASSUME r.peer
      PROVE  AllOwn(SubSeq(r.buf, 1, 2)) /\ ~ r.asked /\ left = << >> /\ r.wire = << >>
  <2>1. r.buf # << >>
    BY <1>1
  <2>2. CASE IsValue(r.buf \o r.wire)
    BY <1>1, <1>2, <1>4, <1>8, <2>2, ReadValue DEF left, ValueAwaited
  <2>3. CASE Len(r.buf) + Len(r.wire) <= 1
    <3>1. Len(r.buf) \in Nat /\ Len(r.wire) \in Nat
      BY <1>2
    <3> QED BY <1>1, <2>3, <3>1, SmallSums
  <2> QED BY <1>4, <1>8, <2>1, <2>2, <2>3 DEF ValueAwaited, Doomed
<1> HIDE DEF rest
<1>9. r.peer => AllOwn(SubSeq(r.buf, 1, 2)) /\ Clean(rest)
  BY <1>7, <1>8 DEF Clean
<1> QED BY <1>5, <1>7, <1>9 DEF r

(* A request that goes on over its connection. *)
LEMMA GoesOn ==
  ASSUME ClientInv, app.pc \in {"held", "connected", "line", "value"},
         UNCHANGED <<up, ring, addr, watcher, watching, table, result>>,
         app' \in AppRecords, app'.node = app.node, app'.conn = app.conn,
         app'.pc \in {"connected", "line", "value"}, app'.recv => app'.pc \in {"line", "value"},
         NEW cs \in Tables, Sets(cs),
         \A n \in Nodes, c \in Conns : cs[n][c] = conn[n][c] \/ (n = app.node /\ c = app.conn),
         NEW r, r = cs[app.node][app.conn],
         table[app.node] = app.conn => r.sock = "open",
         app'.pc = "connected" => Clean(r),
         app'.pc = "line" =>
           /\ app'.recv => Ends(r.buf) = {}
           /\ r.peer => LineAwaited(r, app'.recv),
         app'.pc = "value" =>
           /\ app'.recv => Len(r.buf) < 2
           /\ r.peer => ValueAwaited(r, app'.recv)
  PROVE  ClientInv'
<1>1. app.node \in Nodes /\ app.conn \in Conns /\ Requests
  BY DEF ClientInv, AppHolds, Requests
<1>2. /\ table' = table /\ watcher' = watcher
      /\ up' = up /\ ring' = ring /\ addr' = addr /\ watching' = watching /\ result' = result
  OBVIOUS
<1>3. app.conn # 0 /\ table[app.node] = app.conn =>
        /\ Fresh(r) /\ (Requests' => r.sock # "closed")
        /\ Clean(r) \/ (Reads' /\ app'.node = app.node /\ app'.conn = app.conn)
  BY DEF Fresh, Reads
<1>4. conn' \in Tables /\ OthersUnused' /\ TableClean' /\ WatcherHolds'
  BY <1>1, <1>2, <1>3, AppKeeps
<1>5. Types'
  BY <1>2, <1>4 DEF ClientInv, Types
<1>6. AppHolds'
  BY <1>1 DEF AppHolds
<1>7. AppConn' = r
  <2>1. PICK n \in Nodes, c \in Conns : n = app.node /\ c = app.conn
    BY <1>1
  <2>2. Refers(n, c)'
    BY <2>1 DEF Refers
  <2>3. conn'[n][c] = cs[n][c]
    BY <2>2 DEF Sets
  <2> QED BY <2>1, <2>3 DEF AppConn
<1>8. AppClean'
  BY <1>2, <1>7 DEF AppClean
<1> QED BY <1>4, <1>5, <1>6, <1>8 DEF ClientInv

LEMMA SetsAppConn ==
  ASSUME conn \in Tables, app.node \in Nodes, app.conn \in Conns, NEW r \in Records, SetAppConn(r)
  PROVE  \E cs \in Tables :
           /\ Sets(cs) /\ r = cs[app.node][app.conn]
           /\ \A n \in Nodes, c \in Conns :
                cs[n][c] = conn[n][c] \/ (n = app.node /\ c = app.conn)
<1> DEFINE cs == [conn EXCEPT ![app.node][app.conn] = r]
<1>1. /\ cs \in Tables /\ r = cs[app.node][app.conn]
      /\ \A n \in Nodes, c \in Conns : cs[n][c] = conn[n][c] \/ (n = app.node /\ c = app.conn)
  BY SetsOne
<1>2. SetConns(cs)
  BY DEF SetAppConn, SetConn
<1> HIDE DEF cs
<1>3. Sets(cs)
  BY <1>1, <1>2, SetsConns
<1> QED BY <1>1, <1>3

LEMMA KeepsAppConn ==
  ASSUME ClientInv, conn' = conn, table' = table, watcher' = watcher,
         app.conn # 0 => app'.node = app.node /\ app'.conn = app.conn
  PROVE  Sets(conn) /\ conn \in Tables
<1>1. conn \in Tables /\ OthersUnused
  BY DEF ClientInv, Types
<1>2. ASSUME NEW n \in Nodes, NEW c \in Conns, Refers(n, c) PROVE Refers(n, c)'
  BY <1>2, ConnsAre DEF Refers
<1> QED BY <1>1, <1>2, KeepsConns

-----------------------------------------------------------------------------
(* The steps of a request. *)

OnlyApp == UNCHANGED <<up, ring, addr, watcher, watching>>

LEMMA NoNodesKeeps == ASSUME ClientInv, OnlyApp, NoNodes PROVE ClientInv'
<1>1. /\ app.pc = "idle" /\ Return("error") /\ conn' = conn
      /\ UNCHANGED <<up, ring, addr, watcher, watching, table>>
  BY DEF NoNodes, OnlyApp
<1>2. app.conn = 0 /\ Requests
  BY <1>1 DEF ClientInv, AppHolds, Requests
<1>3. Sets(conn) /\ conn \in Tables
  BY <1>1, <1>2, KeepsAppConn
<1> QED BY <1>1, <1>2, <1>3, Returns

LEMMA RouteKeeps == ASSUME ClientInv, OnlyApp, NEW n \in Nodes, Route(n) PROVE ClientInv'
<1>1. /\ app.pc = "idle" /\ n \in ring
      /\ app' = [Idle EXCEPT !.pc = "routed", !.node = n]
      /\ result' = [node |-> None, is |-> "none"]
      /\ conn' = conn /\ table' = table /\ watcher' = watcher
      /\ up' = up /\ ring' = ring /\ addr' = addr /\ watching' = watching
  BY DEF Route, OnlyApp
<1>2. app.conn = 0 /\ Requests
  BY <1>1 DEF ClientInv, AppHolds, Requests
<1>3. app' \in AppRecords /\ app'.pc = "routed" /\ app'.node = n /\ app'.conn = 0 /\ app'.recv = FALSE
  BY <1>1, IdleIs DEF AppRecords, AppPcs
<1>4. Sets(conn) /\ conn \in Tables
  BY <1>1, <1>2, KeepsAppConn
<1>5. conn' \in Tables /\ OthersUnused' /\ TableClean' /\ WatcherHolds'
  BY <1>1, <1>2, <1>4, AppKeeps
<1>6. Types'
  BY <1>1, <1>3, <1>5 DEF ClientInv, Types
<1>7. AppHolds' /\ AppClean'
  BY <1>3 DEF AppHolds, AppClean
<1> QED BY <1>5, <1>6, <1>7 DEF ClientInv

LEMMA FindAddressKeeps == ASSUME ClientInv, OnlyApp, FindAddress PROVE ClientInv'
<1>1. app.pc = "routed" /\ UNCHANGED <<up, ring, addr, watcher, watching, table>>
  BY DEF FindAddress, OnlyApp
<1>2. app.conn = 0 /\ Requests /\ app.node \in Nodes /\ app.recv = FALSE /\ app \in AppRecords
  BY <1>1 DEF ClientInv, AppHolds, Requests, Types, AppRecords
<1>3. CASE Fail
  BY <1>1, <1>2, <1>3, Fails
<1>4. CASE AppGoes("found") /\ UNCHANGED <<conn, result>>
  <2>1. /\ app' \in AppRecords
        /\ app'.pc = "found" /\ app'.node = app.node /\ app'.conn = 0 /\ app'.recv = FALSE
    BY <1>2, <1>4, AppGoesIs DEF AppPcs
  <2>2. Sets(conn) /\ conn \in Tables
    BY <1>1, <1>2, <1>4, KeepsAppConn
  <2>3. conn' \in Tables /\ OthersUnused' /\ TableClean' /\ WatcherHolds'
    BY <1>1, <1>2, <2>2, AppKeeps
  <2>4. Types'
    BY <1>1, <1>4, <2>1, <2>3 DEF ClientInv, Types
  <2>5. AppHolds' /\ AppClean'
    BY <1>2, <2>1 DEF AppHolds, AppClean
  <2> QED BY <2>3, <2>4, <2>5 DEF ClientInv
<1> QED BY <1>3, <1>4 DEF FindAddress

LEMMA FindConnKeeps == ASSUME ClientInv, OnlyApp, FindConn PROVE ClientInv'
<1> DEFINE n == app.node
           free == CHOOSE d \in Conns : watcher.node = n => d # watcher.conn
           c == IF table[n] # 0 THEN table[n] ELSE free
<1>1. /\ app.pc = "found" /\ conn' = conn /\ result' = result
      /\ table' = [table EXCEPT ![n] = c]
      /\ app' = [app EXCEPT !.pc = "held", !.conn = c]
      /\ up' = up /\ ring' = ring /\ addr' = addr /\ watcher' = watcher /\ watching' = watching
  BY DEF FindConn, OnlyApp
<1>2. /\ app.conn = 0 /\ Requests /\ n \in Nodes /\ app.recv = FALSE /\ app \in AppRecords
      /\ conn \in Tables /\ table \in [Nodes -> {0} \union Conns]
  BY <1>1 DEF ClientInv, AppHolds, Requests, Types, AppRecords
<1>3. free \in Conns /\ (watcher.node = n => free # watcher.conn)
  <2>1. \E d \in Conns : watcher.node = n => d # watcher.conn
    BY ConnsAre
  <2> QED BY <2>1
<1> HIDE DEF free
<1>4. c \in Conns /\ c # 0
  BY <1>2, <1>3, ConnsAre
<1>5. Fresh(conn[n][c]) /\ conn[n][c].sock # "closed" /\ Clean(conn[n][c])
  <2>1. CASE table[n] # 0
    BY <1>1, <1>2, <2>1 DEF ClientInv, TableClean, Reads
  <2>2. CASE table[n] = 0
    <3>1. c = free /\ ~ Refers(n, c)
      BY <1>2, <1>3, <1>4, <2>2 DEF Refers
    <3>2. conn[n][c] = Unused
      BY <1>2, <1>4, <3>1 DEF ClientInv, OthersUnused
    <3> QED BY <3>2, UnusedType DEF Unused
  <2> QED BY <2>1, <2>2
<1>6. \A m \in Nodes : table'[m] = IF m = n THEN c ELSE table[m]
  BY <1>1, <1>2
<1>7. watcher.pc \in {"shut", "clear"} => watcher.node # n \/ c # watcher.conn
  <2>1. WatcherHolds
    BY DEF ClientInv
  <2> QED BY <1>3, <2>1 DEF WatcherHolds
<1> HIDE DEF c, n
<1>8. app' \in AppRecords /\ app'.pc = "held" /\ app'.node = n /\ app'.conn = c /\ app'.recv = FALSE
  BY <1>1, <1>2, <1>4 DEF AppRecords, AppPcs, n
<1>9. table' \in [Nodes -> {0} \union Conns]
  BY <1>1, <1>2, <1>4
<1>10. Types'
  BY <1>1, <1>8, <1>9 DEF ClientInv, Types
<1>11. AppHolds'
  BY <1>2, <1>4, <1>8 DEF AppHolds
<1>12. WatcherHolds'
  BY <1>1, <1>2, <1>6, <1>7 DEF ClientInv, WatcherHolds
<1>13. OthersUnused'
  <2>1. ASSUME NEW m \in Nodes, NEW d \in Conns, Refers(m, d) PROVE Refers(m, d)'
    <3>1. CASE table[m] = d
      <4>1. table[m] # 0
        BY <3>1, ConnsAre
      <4>2. table'[m] = d
        BY <1>6, <3>1, <4>1 DEF c
      <4> QED BY <4>2 DEF Refers
    <3>2. CASE watcher.node = m /\ watcher.conn = d
      BY <1>1, <3>2 DEF Refers
    <3> QED BY <1>2, <2>1, <3>1, <3>2, ConnsAre DEF Refers
  <2> QED BY <1>1, <2>1 DEF ClientInv, OthersUnused
<1>14. TableClean'
  <2>1. Requests' /\ Requests
    BY <1>2, <1>8 DEF Requests
  <2>2. ASSUME NEW m \in Nodes, table'[m] # 0
        PROVE  /\ Fresh(conn'[m][table'[m]])
               /\ conn'[m][table'[m]].sock # "closed"
               /\ Clean(conn'[m][table'[m]])
    <3>1. CASE m = n
      BY <1>1, <1>5, <1>6, <3>1
    <3>2. CASE m # n
      <4>1. table'[m] = table[m] /\ ~ Reads
        BY <1>1, <1>6, <3>2 DEF Reads
      <4> QED BY <1>1, <2>1, <2>2, <4>1 DEF ClientInv, TableClean
    <3> QED BY <3>1, <3>2
  <2> QED BY <2>2 DEF TableClean
<1>15. AppClean'
  BY <1>1, <1>5, <1>8 DEF AppClean, AppConn
<1> QED BY <1>10, <1>11, <1>12, <1>13, <1>14, <1>15 DEF ClientInv

(* A connection of the table works, or is to be opened, while the          *)
(* application makes requests.                                             *)
LEMMA TableConn ==
  ASSUME ClientInv, Requests, app.node \in Nodes, app.conn # 0, table[app.node] = app.conn
  PROVE  Fresh(AppConn) /\ AppConn.sock # "closed"
<1>1. TableClean
  BY DEF ClientInv
<1> QED BY <1>1 DEF TableClean, AppConn

(* What every step over a connection starts from. *)
LEMMA OnConn ==
  ASSUME ClientInv, OnlyApp, app.pc \in {"held", "connected", "line", "value"}
  PROVE  /\ Requests /\ app.node \in Nodes /\ app.conn \in Conns /\ app.conn # 0
         /\ conn \in Tables /\ app \in AppRecords /\ AppClean
         /\ AppConn \in Records /\ AppConn.buf \in Seq(Parts) /\ AppConn.wire \in Seq(Parts)
         /\ AppConn.asked \in BOOLEAN /\ AppConn.peer \in BOOLEAN
         /\ table' = table => UNCHANGED <<up, ring, addr, watcher, watching, table>>
<1>1. /\ Requests /\ app.node \in Nodes /\ app.conn \in Conns
      /\ conn \in Tables /\ app \in AppRecords /\ AppClean
  BY DEF ClientInv, AppHolds, Requests, Types
<1>2. app.conn # 0
  BY <1>1, ConnsAre
<1> QED BY <1>1, <1>2, AppConnType DEF OnlyApp

LEMMA ConnectKeeps == ASSUME ClientInv, OnlyApp, Connect PROVE ClientInv'
<1> DEFINE socket == [AppConn EXCEPT !.sock = "open", !.peer = TRUE, !.asked = FALSE, !.wire = << >>]
<1>1. app.pc = "held" /\ table' = table
  BY DEF Connect
<1>2. Clean(AppConn) /\ Fresh(AppConn) /\ app.recv = FALSE
  BY <1>1, OnConn DEF AppClean, ClientInv, AppHolds, Types, AppRecords
<1>3. table[app.node] = app.conn => Fresh(AppConn) /\ AppConn.sock # "closed"
  BY <1>1, OnConn, TableConn
<1>4. CASE AppConn.sock # "none" /\ AppGoes("connected") /\ UNCHANGED <<conn, result>>
  <2>1. /\ app' \in AppRecords
        /\ app'.pc = "connected" /\ app'.node = app.node /\ app'.conn = app.conn /\ app'.recv = FALSE
    BY <1>1, <1>2, <1>4, OnConn, AppGoesIs DEF AppPcs
  <2>2. Sets(conn) /\ conn \in Tables
    BY <1>1, <1>4, <2>1, KeepsAppConn DEF OnlyApp
  <2>3. table[app.node] = app.conn => AppConn.sock = "open"
    BY <1>3, <1>4, <1>1, OnConn DEF Records
  <2>4. /\ UNCHANGED <<up, ring, addr, watcher, watching, table, result>>
        /\ AppConn = conn[app.node][app.conn]
    BY <1>1, <1>4 DEF OnlyApp, AppConn
  <2> QED BY <1>1, <1>2, <2>1, <2>2, <2>3, <2>4, GoesOn
<1>5. CASE AppConn.sock = "none" /\ AppGoes("connected") /\ SetAppConn(socket) /\ UNCHANGED result
  <2>1. /\ app' \in AppRecords
        /\ app'.pc = "connected" /\ app'.node = app.node /\ app'.conn = app.conn /\ app'.recv = FALSE
    BY <1>1, <1>2, <1>5, OnConn, AppGoesIs DEF AppPcs
  <2>2. AppConn.buf = << >>
    BY <1>2, <1>5 DEF Fresh
  <2>3. socket \in Records /\ socket.sock = "open" /\ Clean(socket)
    BY <1>1, <2>2, OnConn, ReplyParts DEF Records, Clean
  <2> HIDE DEF socket
  <2>4. PICK cs \in Tables :
          /\ Sets(cs) /\ socket = cs[app.node][app.conn]
          /\ \A n \in Nodes, c \in Conns : cs[n][c] = conn[n][c] \/ (n = app.node /\ c = app.conn)
    BY <1>1, <1>5, <2>3, OnConn, SetsAppConn
  <2>5. UNCHANGED <<up, ring, addr, watcher, watching, table, result>>
    BY <1>1, <1>5 DEF OnlyApp
  <2> QED BY <1>1, <2>1, <2>3, <2>4, <2>5, GoesOn
<1>6. CASE Fail
  BY <1>1, <1>2, <1>6, OnConn, Fails
<1> QED BY <1>4, <1>5, <1>6 DEF Connect

LEMMA SendKeeps == ASSUME ClientInv, OnlyApp, Send PROVE ClientInv'
<1> DEFINE r == AppConn
           asking == [r EXCEPT !.asked = r.peer, !.wire = NotOwn(@), !.buf = NotOwn(@)]
<1>1. app.pc = "connected" /\ table' = table
  BY DEF Send
<1>2. Clean(r) /\ app.recv = FALSE
  BY <1>1, OnConn DEF AppClean, ClientInv, AppHolds, Types, AppRecords
<1>3. CASE r.sock = "open" /\ AppGoes("line") /\ SetAppConn(asking) /\ UNCHANGED result
  <2>1. /\ app' \in AppRecords
        /\ app'.pc = "line" /\ app'.node = app.node /\ app'.conn = app.conn /\ app'.recv = FALSE
    BY <1>1, <1>2, <1>3, OnConn, AppGoesIs DEF AppPcs
  <2>2. NotOwn(r.wire) \in Seq(Parts) /\ NotOwn(r.buf) \in Seq(Parts)
    BY <1>1, OnConn, NotOwnType
  <2>3. NotOwn(<< >>) = << >>
    BY DEF NotOwn
  <2>4. r \in Records /\ r.peer \in BOOLEAN
    BY <1>1, OnConn
  <2> HIDE DEF r
  <2>5. /\ asking \in Records /\ asking.sock = r.sock /\ asking.peer = r.peer /\ asking.asked = r.peer
        /\ asking.wire = NotOwn(r.wire) /\ asking.buf = NotOwn(r.buf)
    BY <2>2, <2>4 DEF Records
  <2> HIDE DEF asking
  <2>6. asking.peer => LineAwaited(asking, FALSE)
    BY <1>2, <1>3, <2>3, <2>5 DEF Clean, LineAwaited
  <2>7. PICK cs \in Tables :
          /\ Sets(cs) /\ asking = cs[app.node][app.conn]
          /\ \A n \in Nodes, c \in Conns : cs[n][c] = conn[n][c] \/ (n = app.node /\ c = app.conn)
    BY <1>1, <1>3, <2>5, OnConn, SetsAppConn
  <2>8. UNCHANGED <<up, ring, addr, watcher, watching, table, result>>
    BY <1>1, <1>3 DEF OnlyApp
  <2>9. asking.sock = "open" /\ (app'.recv => Ends(asking.buf) = {})
    BY <1>3, <2>1, <2>5
  <2> QED BY <1>1, <2>1, <2>6, <2>7, <2>8, <2>9, GoesOn
<1>4. CASE Fail
  BY <1>1, <1>2, <1>4, OnConn, Fails
<1> QED BY <1>3, <1>4 DEF Send

LEMMA EnterRecvKeeps == ASSUME ClientInv, OnlyApp, EnterRecv PROVE ClientInv'
<1>1. /\ app.pc \in {"line", "value"} /\ app.recv = FALSE /\ table' = table
      /\ ~ HasLine /\ ~ HasValue
  BY DEF EnterRecv, ClientInv, Types, AppRecords
<1>2. CASE AppConn.sock = "open" /\ app' = [app EXCEPT !.recv = TRUE] /\ UNCHANGED <<conn, result>>
  <2>1. /\ app' \in AppRecords
        /\ app'.pc = app.pc /\ app'.node = app.node /\ app'.conn = app.conn /\ app'.recv = TRUE
    BY <1>1, <1>2, OnConn DEF AppRecords
  <2>2. Sets(conn) /\ conn \in Tables
    BY <1>1, <1>2, <2>1, KeepsAppConn DEF OnlyApp
  <2>3. UNCHANGED <<up, ring, addr, watcher, watching, table, result>>
    BY <1>1, <1>2 DEF OnlyApp
  <2>4. app.pc = "line" => Ends(AppConn.buf) = {}
    BY <1>1 DEF HasLine, Received
  <2>5. app.pc = "value" => Len(AppConn.buf) < 2
    <3>1. Len(AppConn.buf) \in Nat
      BY <1>1, OnConn
    <3>2. app.pc = "value" => ~ (Len(AppConn.buf) >= 2)
      BY <1>1 DEF HasValue, Received
    <3> QED BY <3>1, <3>2
  <2>6. app.pc = "line" /\ AppConn.peer => LineAwaited(AppConn, TRUE)
    BY <1>1, <1>2, OnConn DEF AppClean, LineAwaited, Doomed
  <2>7. app.pc = "value" /\ AppConn.peer => ValueAwaited(AppConn, TRUE)
    BY <1>1, <1>2, OnConn DEF AppClean, ValueAwaited, Doomed
  <2>8. AppConn = conn[app.node][app.conn]
    BY DEF AppConn
  <2> QED BY <1>1, <1>2, <2>1, <2>2, <2>3, <2>4, <2>5, <2>6, <2>7, <2>8, GoesOn
<1>3. CASE AppConn.sock # "open" /\ Fail
  <2>1. Clean(AppConn)
    BY <1>3 DEF Clean
  <2> QED BY <1>1, <1>3, <2>1, OnConn, Fails
<1> QED BY <1>2, <1>3 DEF EnterRecv

LEMMA RecvEndKeeps == ASSUME ClientInv, OnlyApp, RecvEnd PROVE ClientInv'
<1>1. app.pc \in {"line", "value"}
  BY DEF RecvEnd, ClientInv, AppHolds
<1>2. Clean(AppConn) /\ Fail /\ table' = table
  BY DEF RecvEnd, Clean
<1> QED BY <1>1, <1>2, OnConn, Fails

LEMMA RecvSomeKeeps == ASSUME ClientInv, OnlyApp, RecvSome PROVE ClientInv'
<1> DEFINE r == AppConn
<1>1. app.recv /\ app.pc \in {"line", "value"} /\ table' = table
  BY DEF RecvSome, ClientInv, AppHolds
<1>2. PICK k \in DOMAIN r.wire :
        SetAppConn([r EXCEPT !.buf = @ \o SubSeq(r.wire, 1, k), !.wire = SubSeq(@, k + 1, Len(@))])
  BY DEF RecvSome
<1>3. /\ app' = [app EXCEPT !.recv = FALSE]
      /\ UNCHANGED <<up, ring, addr, watcher, watching, table, result>>
  BY DEF RecvSome, OnlyApp
<1>4. /\ app' \in AppRecords
      /\ app'.pc = app.pc /\ app'.node = app.node /\ app'.conn = app.conn /\ app'.recv = FALSE
  BY <1>1, <1>3, OnConn DEF AppRecords
<1>5. r \in Records /\ r.buf \in Seq(Parts) /\ r.wire \in Seq(Parts) /\ AppClean
  BY <1>1, OnConn
<1> DEFINE buf == r.buf \o SubSeq(r.wire, 1, k)
           wire == SubSeq(r.wire, k + 1, Len(r.wire))
           more == [r EXCEPT !.buf = buf, !.wire = wire]
<1>6. table[app.node] = app.conn => r.sock = "open"
  BY <1>1, <1>5 DEF AppClean
<1>7. r.peer => IF app.pc = "line" THEN LineAwaited(r, TRUE) ELSE ValueAwaited(r, TRUE)
  BY <1>1, <1>5 DEF AppClean
<1>8. SetAppConn(more)
  BY <1>2
<1> HIDE DEF r
<1>9. buf \in Seq(Parts) /\ wire \in Seq(Parts) /\ buf \o wire = r.buf \o r.wire
  BY <1>5, Moved
<1>10. Len(buf) + Len(wire) = Len(r.buf) + Len(r.wire)
  <2>1. r.buf \o r.wire \in Seq(Parts)
    BY <1>5
  <2> HIDE DEF buf, wire
  <2>2. Len(buf) + Len(wire) = Len(r.buf \o r.wire)
    <3>1. Len(buf) + Len(wire) = Len(buf \o wire)
      BY ONLY <1>9, ConcatProperties
    <3> QED BY <1>9, <3>1
  <2>3. Len(r.buf) + Len(r.wire) = Len(r.buf \o r.wire)
    BY ONLY <1>5, ConcatProperties
  <2> QED BY <2>2, <2>3
<1>11. r.wire # << >>
  <2>1. DOMAIN << >> = {}
    OBVIOUS
  <2> QED BY <2>1
<1> HIDE DEF buf, wire
<1>12. /\ more \in Records /\ more.sock = r.sock /\ more.peer = r.peer /\ more.asked = r.asked
       /\ more.buf = buf /\ more.wire = wire
  BY <1>5, <1>9 DEF Records
<1> HIDE DEF more
<1>13. app.pc = "line" /\ more.peer => LineAwaited(more, FALSE)
  BY <1>7, <1>9, <1>11, <1>12 DEF LineAwaited, Doomed
<1>14. app.pc = "value" /\ more.peer => ValueAwaited(more, FALSE)
  BY <1>7, <1>9, <1>10, <1>12 DEF ValueAwaited, Doomed
<1>15. PICK cs \in Tables :
         /\ Sets(cs) /\ more = cs[app.node][app.conn]
         /\ \A n \in Nodes, c \in Conns : cs[n][c] = conn[n][c] \/ (n = app.node /\ c = app.conn)
  BY <1>1, <1>8, <1>12, OnConn, SetsAppConn
<1>16. table[app.node] = app.conn => more.sock = "open"
  BY <1>6, <1>12
<1> QED BY <1>1, <1>3, <1>4, <1>13, <1>14, <1>15, <1>16, GoesOn

LEMMA TakeLineKeeps == ASSUME ClientInv, OnlyApp, TakeLine PROVE ClientInv'
<1> DEFINE line == FirstLine(Received)
           tag == line[1].name
           rest == Drop(Len(line))
<1>1. ~ app.recv /\ HasLine /\ app.pc = "line" /\ table' = table
  BY DEF TakeLine, HasLine
<1>2. /\ rest \in Records /\ rest.sock = AppConn.sock /\ rest.peer = AppConn.peer
      /\ AppConn.peer =>
           \/ tag = "status" /\ AllOwn(line) /\ Clean(rest)
           \/ tag = "header" /\ ~ rest.asked /\ IsValue(rest.buf \o rest.wire)
           \/ tag = "eol" /\ AppConn.sock = "none"
  BY <1>1, LineTaken
<1>3. table[app.node] = app.conn => AppConn.sock = "open"
  BY <1>1, OnConn DEF AppClean
<1>4. SetAppConn(rest) =>
        \E cs \in Tables :
          /\ Sets(cs) /\ rest = cs[app.node][app.conn]
          /\ \A n \in Nodes, c \in Conns : cs[n][c] = conn[n][c] \/ (n = app.node /\ c = app.conn)
  <2> HIDE DEF rest
  <2> QED BY <1>1, <1>2, OnConn, SetsAppConn
<1>5. CASE tag = "header" /\ AppGoes("value") /\ SetAppConn(rest) /\ UNCHANGED result
  <2>1. /\ app' \in AppRecords
        /\ app'.pc = "value" /\ app'.node = app.node /\ app'.conn = app.conn /\ app'.recv = FALSE
    <3>1. app.recv = FALSE
      BY <1>1 DEF ClientInv, Types, AppRecords
    <3> QED BY <1>1, <1>5, <3>1, OnConn, AppGoesIs DEF AppPcs
  <2>2. UNCHANGED <<up, ring, addr, watcher, watching, table, result>>
    BY <1>1, <1>5 DEF OnlyApp
  <2> HIDE DEF rest, tag
  <2>3. rest.peer => ValueAwaited(rest, FALSE)
    BY <1>2, <1>5 DEF ValueAwaited
  <2>4. PICK cs \in Tables :
          /\ Sets(cs) /\ rest = cs[app.node][app.conn]
          /\ \A n \in Nodes, c \in Conns : cs[n][c] = conn[n][c] \/ (n = app.node /\ c = app.conn)
    BY <1>4, <1>5
  <2>5. table[app.node] = app.conn => rest.sock = "open"
    BY <1>2, <1>3
  <2> QED BY <1>1, <2>1, <2>2, <2>3, <2>4, <2>5, GoesOn
<1>6. ASSUME NEW is \in {"own", "foreign", "error"}, Return(is), SetAppConn(rest), tag # "header"
      PROVE  ClientInv'
  <2> HIDE DEF rest, tag
  <2>1. PICK cs \in Tables :
          /\ Sets(cs) /\ rest = cs[app.node][app.conn]
          /\ \A n \in Nodes, c \in Conns : cs[n][c] = conn[n][c] \/ (n = app.node /\ c = app.conn)
    BY <1>4, <1>6
  <2>2. table[app.node] = app.conn => Fresh(rest) /\ Clean(rest) /\ rest.sock # "closed"
    BY <1>2, <1>3, <1>6 DEF Fresh, Clean
  <2>3. Requests /\ UNCHANGED <<up, ring, addr, watcher, watching, table>>
    BY <1>1, OnConn
  <2> QED BY <1>6, <2>1, <2>2, <2>3, Returns
<1>7. \/ tag = "header" /\ AppGoes("value") /\ SetAppConn(rest) /\ UNCHANGED result
      \/ /\ tag \in {"status", "value", "lines"}
         /\ Return(IF tag = "status" /\ AllOwn(line) THEN "own" ELSE "foreign")
         /\ SetAppConn(rest)
      \/ tag \in {"eol", "tail", "value", "lines"} /\ Return("error") /\ SetAppConn(rest)
  BY DEF TakeLine
<1> HIDE DEF rest, tag
<1>8. CASE tag \in {"status", "value", "lines"} /\ SetAppConn(rest)
           /\ Return(IF tag = "status" /\ AllOwn(line) THEN "own" ELSE "foreign")
  <2>1. CASE tag = "status" /\ AllOwn(line)
    BY <1>6, <1>8, <2>1
  <2>2. CASE ~ (tag = "status" /\ AllOwn(line))
    BY <1>6, <1>8, <2>2
  <2> QED BY <2>1, <2>2
<1>9. CASE tag \in {"eol", "tail", "value", "lines"} /\ Return("error") /\ SetAppConn(rest)
  BY <1>6, <1>9
<1> QED BY <1>5, <1>7, <1>8, <1>9

LEMMA TakeValueKeeps == ASSUME ClientInv, OnlyApp, TakeValue PROVE ClientInv'
<1> DEFINE rest == Drop(2)
           all == AllOwn(SubSeq(Received, 1, 2))
<1>1. /\ HasValue /\ app.pc = "value" /\ table' = table
      /\ Return(IF all THEN "own" ELSE "foreign") /\ SetAppConn(rest)
  BY DEF TakeValue, HasValue, ValueLength
<1>2. rest \in Records /\ rest.sock = AppConn.sock /\ (AppConn.peer => Clean(rest))
  BY <1>1, ValueTaken
<1>3. rest.peer = AppConn.peer
  BY <1>1, OnConn DEF Drop, Records
<1>4. table[app.node] = app.conn => AppConn.sock = "open"
  BY <1>1, OnConn DEF AppClean
<1> HIDE DEF rest, all
<1>5. PICK cs \in Tables :
        /\ Sets(cs) /\ rest = cs[app.node][app.conn]
        /\ \A n \in Nodes, c \in Conns : cs[n][c] = conn[n][c] \/ (n = app.node /\ c = app.conn)
  BY <1>1, <1>2, OnConn, SetsAppConn
<1>6. table[app.node] = app.conn => Fresh(rest) /\ Clean(rest) /\ rest.sock # "closed"
  BY <1>2, <1>3, <1>4 DEF Fresh, Clean
<1>7. Requests /\ UNCHANGED <<up, ring, addr, watcher, watching, table>>
  BY <1>1, OnConn
<1>8. CASE all
  BY <1>1, <1>5, <1>6, <1>7, <1>8, Returns
<1>9. CASE ~ all
  BY <1>1, <1>5, <1>6, <1>7, <1>9, Returns
<1> QED BY <1>8, <1>9

-----------------------------------------------------------------------------
(* The steps of close(). *)

OnlyClose == UNCHANGED <<up, ring, addr, watcher>>

LEMMA CloseGoes ==
  ASSUME ClientInv, ~ Reads, OnlyClose, table' = table, result' = result, watching' \in BOOLEAN,
         app' \in AppRecords, app'.pc \in {"raised", "stop", "closed", "shut", "clear", "next"},
         AppHolds', NEW cs \in Tables, Sets(cs),
         \A n \in Nodes, c \in Conns : cs[n][c] = conn[n][c] \/ (n = app.node /\ c = app.conn),
         app.conn # 0 /\ table[app.node] = app.conn =>
           Fresh(cs[app.node][app.conn]) /\ Clean(cs[app.node][app.conn])
  PROVE  ClientInv'
<1>1. ~ Requests'
  BY DEF Requests
<1>2. watcher' = watcher
  BY DEF OnlyClose
<1>3. conn' \in Tables /\ OthersUnused' /\ TableClean' /\ WatcherHolds'
  BY <1>1, <1>2, AppKeeps
<1>4. Types'
  BY <1>2, <1>3 DEF ClientInv, Types, OnlyClose
<1>5. AppClean'
  BY DEF AppClean
<1> QED BY <1>3, <1>4, <1>5 DEF ClientInv

(* Outside of a request the connections of the table are clean. *)
LEMMA TableRests ==
  ASSUME ClientInv, ~ Reads, NEW n \in Nodes, table[n] # 0
  PROVE  Fresh(conn[n][table[n]]) /\ Clean(conn[n][table[n]])
BY DEF ClientInv, TableClean

LEMMA IterateKeeps ==
  ASSUME ClientInv, OnlyClose, app.pc \in {"idle", "next"},
         NEW size \in 0 .. Cardinality(Nodes), NEW seen \in SUBSET Nodes, Iterate(size, seen)
  PROVE  ClientInv'
<1>1. /\ conn \in Tables /\ table \in [Nodes -> {0} \union Conns] /\ app \in AppRecords
      /\ app.conn # 0 => app.node \in Nodes
      /\ watching \in BOOLEAN /\ app.recv = FALSE
  BY DEF ClientInv, Types, AppHolds, AppRecords
<1>2. /\ ~ Reads /\ result' = result /\ watching' = watching /\ Sets(conn)
      /\ \A n \in InTable : n \in Nodes /\ table[n] # 0 /\ table[n] \in Conns
  <2>1. SetConns(conn) /\ result' = result /\ watching' = watching
    BY DEF Iterate
  <2>2. Sets(conn)
    BY <1>1, <2>1, SetsConns
  <2> QED BY <1>1, <2>1, <2>2 DEF InTable, Reads
<1>3. app.conn # 0 /\ table[app.node] = app.conn =>
        Fresh(conn[app.node][app.conn]) /\ Clean(conn[app.node][app.conn])
  BY <1>1, <1>2, TableRests
<1>4. CASE app' = [Idle EXCEPT !.pc = "raised"] /\ table' = table
  <2>1. /\ app' \in AppRecords
        /\ app'.pc = "raised" /\ app'.node = None /\ app'.conn = 0 /\ app'.recv = FALSE
    BY <1>4, IdleIs DEF AppRecords, AppPcs
  <2>2. AppHolds'
    BY <2>1 DEF AppHolds
  <2> QED BY <1>1, <1>2, <1>3, <1>4, <2>1, <2>2, CloseGoes
<1>5. ASSUME NEW n \in InTable, table' = table,
             app' = [app EXCEPT !.pc = IF HasSocket(n) THEN "shut" ELSE "next", !.node = n,
                                !.conn = table[n], !.seen = seen \union {n}, !.size = size]
      PROVE  ClientInv'
  <2> DEFINE pc == IF HasSocket(n) THEN "shut" ELSE "next"
  <2>1. pc \in {"shut", "next"} /\ pc \in AppPcs
    BY DEF AppPcs
  <2>2. n \in Nodes /\ table[n] \in Conns
    BY <1>2
  <2>3. app' = [app EXCEPT !.pc = pc, !.node = n, !.conn = table[n], !.seen = seen \union {n}, !.size = size]
    BY <1>5
  <2> HIDE DEF pc
  <2>4. /\ app' \in AppRecords
        /\ app'.pc = pc /\ app'.node = n /\ app'.conn = table[n] /\ app'.recv = FALSE
    BY <1>1, <2>1, <2>2, <2>3 DEF AppRecords
  <2>5. AppHolds'
    BY <2>1, <2>2, <2>4 DEF AppHolds
  <2> QED BY <1>1, <1>2, <1>3, <1>5, <2>1, <2>4, <2>5, CloseGoes
<1>6. CASE app' = [Idle EXCEPT !.pc = "stop"] /\ table' = [n \in Nodes |-> 0]
  <2>1. /\ app' \in AppRecords
        /\ app'.pc = "stop" /\ app'.node = None /\ app'.conn = 0 /\ app'.recv = FALSE
    BY <1>6, IdleIs DEF AppRecords, AppPcs
  <2>2. AppHolds' /\ AppClean'
    BY <2>1 DEF AppHolds, AppClean
  <2>3. TableClean' /\ WatcherHolds'
    BY <1>6, ConnsAre DEF TableClean, WatcherHolds, ClientInv, OnlyClose
  <2>4. conn' \in Tables /\ OthersUnused'
    BY <1>2 DEF Sets, OthersUnused
  <2>5. table' \in [Nodes -> {0} \union Conns]
    BY <1>6
  <2>6. Types'
    BY <1>2, <2>1, <2>4, <2>5 DEF ClientInv, Types, OnlyClose
  <2> QED BY <2>2, <2>3, <2>4, <2>6 DEF ClientInv
<1> QED BY <1>4, <1>5, <1>6 DEF Iterate

LEMMA CloseBeginKeeps == ASSUME ClientInv, OnlyClose, CloseBegin PROVE ClientInv'
<1>1. Cardinality(InTable) \in 0 .. Cardinality(Nodes)
  <2>1. InTable \in SUBSET Nodes
    BY DEF InTable
  <2>2. /\ Cardinality(InTable) \in Nat /\ Cardinality(Nodes) \in Nat
        /\ Cardinality(InTable) <= Cardinality(Nodes)
    BY <2>1, NodesAssumption, FS_Subset, FS_CardinalityType
  <2> QED BY <2>2
<1> QED BY <1>1, IterateKeeps DEF CloseBegin

LEMMA CloseNextKeeps == ASSUME ClientInv, OnlyClose, CloseNext PROVE ClientInv'
<1>1. app.size \in 0 .. Cardinality(Nodes) /\ app.seen \in SUBSET Nodes
  BY DEF ClientInv, Types, AppRecords
<1> QED BY <1>1, IterateKeeps DEF CloseNext

LEMMA ShutClears ==
  ASSUME NEW r \in Records
  PROVE  /\ Shut(r) \in Records /\ Cleared(r) \in Records
         /\ Clean(Shut(r)) /\ Clean(Cleared(r)) /\ Fresh(Cleared(r)) /\ (Fresh(r) => Fresh(Shut(r)))
         /\ Shut(r).sock # "open" /\ (Shut(r).sock = "none" <=> r.sock = "none")
         /\ Shut(r).buf = r.buf /\ Shut(r).wire = r.wire
         /\ Shut(r).asked = r.asked /\ Shut(r).peer = r.peer
         /\ Cleared(r).sock = "none" /\ Cleared(r).buf = << >> /\ Cleared(r).wire = r.wire
         /\ Cleared(r).asked = r.asked /\ Cleared(r).peer = r.peer
<1>1. /\ Shut(r) \in Records /\ Shut(r).sock = (IF r.sock = "open" THEN "closed" ELSE r.sock)
      /\ Shut(r).buf = r.buf /\ Shut(r).wire = r.wire
      /\ Shut(r).asked = r.asked /\ Shut(r).peer = r.peer
  BY DEF Shut, Records
<1>2. /\ Cleared(r) \in Records /\ Cleared(r).sock = "none" /\ Cleared(r).buf = << >>
      /\ Cleared(r).wire = r.wire /\ Cleared(r).asked = r.asked /\ Cleared(r).peer = r.peer
  BY ReplyParts DEF Cleared, Records
<1> QED BY <1>1, <1>2 DEF Clean, Fresh

LEMMA CloseOneKeeps == ASSUME ClientInv, OnlyClose, CloseOne PROVE ClientInv'
<1>1. app.pc \in {"shut", "clear"} /\ table' = table /\ watching' = watching /\ result' = result
  BY DEF CloseOne
<1>2. /\ app.node \in Nodes /\ app.conn \in Conns /\ app \in AppRecords /\ ~ Reads
      /\ watching \in BOOLEAN /\ conn \in Tables /\ app.recv = FALSE
  BY <1>1 DEF ClientInv, AppHolds, Types, Reads, AppRecords
<1>3. AppConn \in Records
  BY <1>2, AppConnType
<1>4. table[app.node] = app.conn => Fresh(AppConn)
  BY <1>2, ConnsAre, TableRests DEF AppConn
<1>5. ASSUME NEW pc \in {"clear", "next"}, AppGoes(pc), NEW r \in Records, SetAppConn(r), Clean(r),
             table[app.node] = app.conn => Fresh(r)
      PROVE  ClientInv'
  <2>1. pc \in AppPcs
    BY DEF AppPcs
  <2>2. /\ app' \in AppRecords
        /\ app'.pc = pc /\ app'.node = app.node /\ app'.conn = app.conn /\ app'.recv = FALSE
    BY <1>2, <1>5, <2>1, AppGoesIs
  <2>3. AppHolds'
    BY <1>2, <2>2 DEF AppHolds
  <2>4. PICK cs \in Tables :
          /\ Sets(cs) /\ r = cs[app.node][app.conn]
          /\ \A n \in Nodes, c \in Conns : cs[n][c] = conn[n][c] \/ (n = app.node /\ c = app.conn)
    BY <1>2, <1>5, SetsAppConn
  <2> QED BY <1>1, <1>2, <1>5, <2>2, <2>3, <2>4, CloseGoes
<1>6. CASE AppGoes("clear") /\ SetAppConn(Shut(AppConn))
  BY <1>3, <1>4, <1>5, <1>6, ShutClears
<1>7. CASE AppGoes("next") /\ SetAppConn(Cleared(AppConn))
  BY <1>3, <1>5, <1>7, ShutClears
<1> QED BY <1>6, <1>7 DEF CloseOne

LEMMA StopWatcherKeeps == ASSUME ClientInv, OnlyClose, StopWatcher PROVE ClientInv'
<1>1. /\ app.pc = "stop" /\ AppGoes("closed") /\ watching' = FALSE
      /\ conn' = conn /\ table' = table /\ result' = result /\ watcher' = watcher
  BY DEF StopWatcher, OnlyClose
<1>2. app.conn = 0 /\ app.node = None /\ app \in AppRecords /\ ~ Reads /\ app.recv = FALSE
  BY <1>1 DEF ClientInv, AppHolds, Types, Reads, AppRecords
<1>3. /\ app' \in AppRecords
      /\ app'.pc = "closed" /\ app'.node = None /\ app'.conn = 0 /\ app'.recv = FALSE
  BY <1>1, <1>2, AppGoesIs DEF AppPcs
<1>4. AppHolds'
  BY <1>3 DEF AppHolds
<1>5. Sets(conn) /\ conn \in Tables
  BY <1>1, <1>2, KeepsAppConn
<1> QED BY <1>1, <1>2, <1>3, <1>4, <1>5, CloseGoes

-----------------------------------------------------------------------------
(* The steps of the watcher. *)

(* A request can be read from when the watcher closes the connection under *)
(* it: the part of the answer that was received is lost, and what is left  *)
(* cannot be taken for an answer.                                          *)
LEMMA ClosedUnder ==
  ASSUME NEW r \in Records, NEW q \in {r, Shut(r), Cleared(r)}, NEW recv \in BOOLEAN
  PROVE  /\ Clean(r) => Clean(q)
         /\ Fresh(r) => Fresh(q)
         /\ q.peer = r.peer
         /\ Ends(r.buf) = {} => Ends(q.buf) = {}
         /\ Len(r.buf) < 2 => Len(q.buf) < 2
         /\ (recv => Ends(r.buf) = {}) /\ LineAwaited(r, recv) => LineAwaited(q, recv)
         /\ (recv => Len(r.buf) < 2) /\ ValueAwaited(r, recv) => ValueAwaited(q, recv)
<1>1. r.buf \in Seq(Parts) /\ r.wire \in Seq(Parts) /\ r.asked \in BOOLEAN
  BY DEF Records
<1>2. Len(<< >>) = 0 /\ Ends(<< >>) = {}
  BY DEF Ends
<1>3. CASE q = r
  BY <1>3
<1>4. CASE q = Shut(r)
  <2>1. /\ Clean(q) /\ (Fresh(r) => Fresh(q)) /\ (q.sock = "none" <=> r.sock = "none")
        /\ q.buf = r.buf /\ q.wire = r.wire /\ q.asked = r.asked /\ q.peer = r.peer
    BY <1>4, ShutClears
  <2> QED BY <2>1 DEF LineAwaited, ValueAwaited, Doomed
<1>5. CASE q = Cleared(r)
  <2>1. /\ Clean(q) /\ Fresh(q) /\ q.sock = "none" /\ q.buf = << >>
        /\ q.wire = r.wire /\ q.asked = r.asked /\ q.peer = r.peer
    BY <1>5, ShutClears
  <2>2. ASSUME recv => Ends(r.buf) = {}, LineAwaited(r, recv) PROVE LineAwaited(q, recv)
    <3>1. CASE ~ recv
      BY <2>1, <3>1 DEF LineAwaited, Doomed
    <3>2. CASE recv /\ r.asked /\ r.wire = << >>
      BY <2>1, <3>2 DEF LineAwaited
    <3>3. CASE recv /\ ~ r.asked /\ (r.buf \o r.wire \in Replies \/ IsEol(r.buf \o r.wire))
      <4>1. << >> \o r.wire \in Replies \/ IsEol(<< >> \o r.wire)
        BY <1>1, <2>2, <3>3, LineCleared
      <4> QED BY <2>1, <3>3, <4>1 DEF LineAwaited
    <3> QED BY <2>2, <3>1, <3>2, <3>3 DEF LineAwaited, Doomed
  <2>3. ASSUME recv => Len(r.buf) < 2, ValueAwaited(r, recv) PROVE ValueAwaited(q, recv)
    <3>1. CASE ~ recv
      BY <2>1, <2>3, <3>1 DEF ValueAwaited, Doomed
    <3>2. CASE recv
      <4>1. IsValue(r.buf \o r.wire) \/ Len(r.buf) + Len(r.wire) <= 1
        BY <2>3, <3>2 DEF ValueAwaited, Doomed
      <4>2. IsValue(<< >> \o r.wire) \/ Len(<< >>) + Len(r.wire) <= 1
        BY <1>1, <2>3, <3>2, <4>1, ValueCleared
      <4> QED BY <2>1, <2>3, <4>2 DEF ValueAwaited
    <3> QED BY <3>1, <3>2
  <2>4. Ends(q.buf) = {} /\ Len(q.buf) < 2
    BY <1>2, <2>1
  <2> QED BY <2>1, <2>2, <2>3, <2>4
<1> QED BY <1>3, <1>4, <1>5

LEMMA WatcherKeeps ==
  ASSUME ClientInv, UNCHANGED <<up, app, watching, result>>,
         ring' \subseteq Nodes, addr' \subseteq Nodes, watcher' \in WatcherRecords, WatcherHolds',
         table' \in [Nodes -> {0} \union Conns],
         \A n \in Nodes : table'[n] = table[n] \/ table'[n] = 0,
         NEW cs \in Tables, Sets(cs),
         \A n \in Nodes, c \in Conns :
           \/ cs[n][c] = conn[n][c]
           \/ table[n] # c /\ cs[n][c] \in {Shut(conn[n][c]), Cleared(conn[n][c])}
  PROVE  ClientInv'
<1>1. up' = up /\ app' = app /\ watching' = watching /\ result' = result
  OBVIOUS
<1>2. conn' \in Tables /\ OthersUnused'
  BY DEF Sets, OthersUnused
<1>3. Types'
  BY <1>1, <1>2 DEF ClientInv, Types
<1>4. AppHolds'
  BY <1>1 DEF ClientInv, AppHolds
<1>5. TableClean'
  <2> SUFFICES ASSUME NEW n \in Nodes, table'[n] # 0
               PROVE  /\ Fresh(conn'[n][table'[n]])
                      /\ Requests => conn'[n][table'[n]].sock # "closed"
                      /\ \/ Clean(conn'[n][table'[n]])
                         \/ Reads /\ app.node = n /\ app.conn = table'[n]
    BY <1>1 DEF TableClean, Requests, Reads
  <2>1. PICK c \in Conns : c = table[n] /\ table'[n] = c
    BY DEF ClientInv, Types
  <2>2. Refers(n, c)'
    BY <2>1 DEF Refers
  <2>3. conn'[n][c] = conn[n][c]
    BY <2>1, <2>2 DEF Sets
  <2>4. TableClean /\ table[n] # 0
    BY <2>1 DEF ClientInv
  <2> QED BY <2>1, <2>3, <2>4 DEF TableClean
<1>6. CASE app.pc \in {"held", "connected", "line", "value"}
  <2>1. PICK n \in Nodes, c \in Conns : n = app.node /\ c = app.conn
    BY <1>6 DEF ClientInv, AppHolds
  <2>2. Refers(n, c)'
    BY <1>1, <2>1 DEF Refers
  <2> DEFINE r == AppConn
             q == conn'[n][c]
  <2>3. r = conn[n][c] /\ r \in Records
    BY <2>1 DEF AppConn, ClientInv, Types, Tables
  <2>4. q \in {r, Shut(r), Cleared(r)} /\ (q = r \/ table[n] # c)
    BY <2>1, <2>2, <2>3 DEF Sets
  <2>5. AppConn' = q /\ AppClean /\ app.recv \in BOOLEAN
    BY <1>1, <2>1 DEF AppConn, ClientInv, Types, AppRecords
  <2>6. table'[app.node] = app.conn => table[app.node] = app.conn
    BY <2>1, ConnsAre
  <2> HIDE DEF q
  <2>7. PICK s : s = AppConn
    OBVIOUS
  <2>8. s \in Records /\ q \in {s, Shut(s), Cleared(s)}
    BY <2>3, <2>4, <2>7
  <2>9. /\ Clean(s) => Clean(q)
        /\ Fresh(s) => Fresh(q)
        /\ q.peer = s.peer
        /\ Ends(s.buf) = {} => Ends(q.buf) = {}
        /\ Len(s.buf) < 2 => Len(q.buf) < 2
        /\ (app.recv => Ends(s.buf) = {}) /\ LineAwaited(s, app.recv) => LineAwaited(q, app.recv)
        /\ (app.recv => Len(s.buf) < 2) /\ ValueAwaited(s, app.recv) => ValueAwaited(q, app.recv)
    BY <2>5, <2>8, ClosedUnder
  <2>10. app.pc \in {"connected", "line", "value"} /\ table'[app.node] = app.conn => q.sock = "open"
    BY <2>1, <2>4, <2>5, <2>6 DEF AppClean
  <2>11. app.pc \in {"held", "connected"} => Clean(q)
    BY <2>5, <2>7, <2>9 DEF AppClean
  <2>12. app.pc = "held" => Fresh(q)
    BY <2>5, <2>7, <2>9 DEF AppClean
  <2>13. app.pc = "line" =>
           /\ app.recv => Ends(q.buf) = {}
           /\ q.peer => LineAwaited(q, app.recv)
    BY <2>5, <2>7, <2>9 DEF AppClean
  <2>14. app.pc = "value" =>
           /\ app.recv => Len(q.buf) < 2
           /\ q.peer => ValueAwaited(q, app.recv)
    BY <2>5, <2>7, <2>9 DEF AppClean
  <2>15. AppClean'
    BY <1>1, <2>5, <2>10, <2>11, <2>12, <2>13, <2>14 DEF AppClean
  <2> QED BY <1>2, <1>3, <1>4, <1>5, <2>15 DEF ClientInv
<1>7. CASE app.pc \notin {"held", "connected", "line", "value"}
  <2>1. AppClean'
    BY <1>1, <1>7 DEF AppClean
  <2> QED BY <1>2, <1>3, <1>4, <1>5, <2>1 DEF ClientInv
<1> QED BY <1>6, <1>7

OnlyWatcher == UNCHANGED <<up, app, watching, result>>

(* The steps before the table: nothing is let go of. *)
LEMMA WatcherGoes ==
  ASSUME ClientInv, OnlyWatcher, conn' = conn, table' = table, watcher.conn = 0,
         ring' \subseteq Nodes, addr' \subseteq Nodes, watcher' \in WatcherRecords, WatcherHolds'
  PROVE  ClientInv'
<1>1. conn \in Tables /\ table' \in [Nodes -> {0} \union Conns] /\ OthersUnused
  BY DEF ClientInv, Types
<1>2. ASSUME NEW n \in Nodes, NEW c \in Conns, Refers(n, c) PROVE Refers(n, c)'
  BY <1>2, ConnsAre DEF Refers, OnlyWatcher
<1>3. Sets(conn)
  BY <1>1, <1>2, KeepsConns
<1>4. UNCHANGED <<up, app, watching, result>>
  BY DEF OnlyWatcher
<1> QED BY <1>1, <1>3, <1>4, WatcherKeeps

LEMMA RestIs ==
  AtRest \in WatcherRecords /\ AtRest.pc = "idle" /\ AtRest.node = None /\ AtRest.conn = 0
BY DEF AtRest, WatcherRecords

LEMMA WatcherStarts ==
  ASSUME NEW n \in Nodes, NEW pc \in {"ring", "addr"}, watcher' = [AtRest EXCEPT !.pc = pc, !.node = n]
  PROVE  watcher' \in WatcherRecords /\ WatcherHolds'
<1>1. watcher' \in WatcherRecords /\ watcher'.pc = pc /\ watcher'.node = n /\ watcher'.conn = 0
  BY RestIs DEF WatcherRecords
<1> QED BY <1>1 DEF WatcherHolds

LEMMA OnAddKeeps == ASSUME ClientInv, OnlyWatcher, NEW n \in Changing, OnAdd(n) PROVE ClientInv'
<1>1. n \in Nodes /\ watcher.conn = 0
  BY ClientBounds DEF OnAdd, ClientInv, WatcherHolds
<1>2. watcher' = [AtRest EXCEPT !.pc = "ring", !.node = n]
  BY DEF OnAdd
<1>3. watcher' \in WatcherRecords /\ WatcherHolds'
  BY <1>1, <1>2, WatcherStarts
<1>4. conn' = conn /\ table' = table /\ ring' \subseteq Nodes /\ addr' \subseteq Nodes
  BY <1>1 DEF OnAdd, ClientInv, Types
<1> QED BY <1>1, <1>3, <1>4, WatcherGoes

LEMMA OnRemoveKeeps ==
  ASSUME ClientInv, OnlyWatcher, NEW n \in Changing, OnRemove(n) PROVE ClientInv'
<1>1. n \in Nodes /\ watcher.conn = 0
  BY ClientBounds DEF OnRemove, ClientInv, WatcherHolds
<1>2. watcher' = [AtRest EXCEPT !.pc = "addr", !.node = n]
  BY DEF OnRemove
<1>3. watcher' \in WatcherRecords /\ WatcherHolds'
  BY <1>1, <1>2, WatcherStarts
<1>4. conn' = conn /\ table' = table /\ ring' \subseteq Nodes /\ addr' \subseteq Nodes
  BY <1>1 DEF OnRemove, ClientInv, Types
<1> QED BY <1>1, <1>3, <1>4, WatcherGoes

LEMMA AddToRingKeeps == ASSUME ClientInv, OnlyWatcher, AddToRing PROVE ClientInv'
<1>1. watcher.node \in Nodes /\ watcher.conn = 0 /\ watcher' = AtRest
  BY DEF AddToRing, ClientInv, WatcherHolds
<1>2. watcher' \in WatcherRecords /\ WatcherHolds'
  BY <1>1, RestIs DEF WatcherHolds
<1>3. conn' = conn /\ table' = table /\ ring' \subseteq Nodes /\ addr' \subseteq Nodes
  BY <1>1 DEF AddToRing, ClientInv, Types
<1> QED BY <1>1, <1>2, <1>3, WatcherGoes

LEMMA DropAddressKeeps == ASSUME ClientInv, OnlyWatcher, DropAddress PROVE ClientInv'
<1>1. /\ watcher.node \in Nodes /\ watcher.conn = 0 /\ watcher \in WatcherRecords
      /\ watcher' = [watcher EXCEPT !.pc = "pop"]
  BY DEF DropAddress, ClientInv, WatcherHolds, Types
<1>2. watcher' \in WatcherRecords /\ watcher'.pc = "pop" /\ watcher'.node = watcher.node /\ watcher'.conn = 0
  BY <1>1 DEF WatcherRecords
<1>3. WatcherHolds'
  BY <1>1, <1>2 DEF WatcherHolds
<1>4. conn' = conn /\ table' = table /\ ring' \subseteq Nodes /\ addr' \subseteq Nodes
  BY <1>1 DEF DropAddress, ClientInv, Types
<1> QED BY <1>1, <1>2, <1>3, <1>4, WatcherGoes

LEMMA PopConnKeeps == ASSUME ClientInv, OnlyWatcher, PopConn PROVE ClientInv'
<1> DEFINE n == watcher.node
<1>1. /\ watcher.pc = "pop" /\ n \in Nodes /\ watcher.conn = 0 /\ watcher \in WatcherRecords
      /\ conn \in Tables /\ table \in [Nodes -> {0} \union Conns]
  BY DEF PopConn, ClientInv, WatcherHolds, Types
<1>2. /\ watcher' = IF HasSocket(n) THEN [watcher EXCEPT !.pc = "shut", !.conn = table[n]] ELSE AtRest
      /\ table' = [table EXCEPT ![n] = 0]
      /\ SetConns(conn) /\ ring' = ring /\ addr' = addr
  BY DEF PopConn
<1>3. /\ table' \in [Nodes -> {0} \union Conns] /\ table'[n] = 0
      /\ \A m \in Nodes : table'[m] = table[m] \/ table'[m] = 0
  BY <1>1, <1>2
<1>4. watcher' \in WatcherRecords /\ WatcherHolds'
  <2>1. CASE HasSocket(n)
    <3>1. table[n] \in Conns /\ table[n] # 0
      BY <1>1, <2>1 DEF HasSocket
    <3>2. watcher' = [watcher EXCEPT !.pc = "shut", !.conn = table[n]]
      BY <1>2, <2>1
    <3>3. /\ watcher' \in WatcherRecords /\ watcher'.pc = "shut"
          /\ watcher'.node = n /\ watcher'.conn = table[n]
      BY <1>1, <3>1, <3>2 DEF WatcherRecords
    <3> QED BY <1>1, <1>3, <3>1, <3>3 DEF WatcherHolds
  <2>2. CASE ~ HasSocket(n)
    BY <1>2, <2>2, RestIs DEF WatcherHolds
  <2> QED BY <2>1, <2>2
<1>5. Sets(conn)
  BY <1>1, <1>2, SetsConns
<1>6. ring' \subseteq Nodes /\ addr' \subseteq Nodes
  BY <1>2 DEF ClientInv, Types
<1>7. UNCHANGED <<up, app, watching, result>>
  BY DEF OnlyWatcher
<1> QED BY <1>1, <1>3, <1>4, <1>5, <1>6, <1>7, WatcherKeeps

LEMMA CloseConnKeeps == ASSUME ClientInv, OnlyWatcher, CloseConn PROVE ClientInv'
<1> DEFINE n == watcher.node
           c == watcher.conn
           r == conn[n][c]
<1>1. /\ n \in Nodes /\ c \in Conns /\ table[n] # c /\ watcher \in WatcherRecords
      /\ conn \in Tables /\ table \in [Nodes -> {0} \union Conns]
  BY DEF CloseConn, ClientInv, WatcherHolds, Types
<1>2. ring' = ring /\ addr' = addr /\ table' = table
  BY DEF CloseConn
<1>3. \/ watcher' = [watcher EXCEPT !.pc = "clear"] /\ SetConn(n, c, Shut(r))
      \/ watcher' = AtRest /\ SetConn(n, c, Cleared(r))
  BY DEF CloseConn
<1>4. r \in Records /\ Shut(r) \in Records /\ Cleared(r) \in Records
  <2>1. r \in Records
    BY <1>1 DEF Tables
  <2> QED BY <2>1, ShutClears
<1>5. watcher' \in WatcherRecords /\ WatcherHolds'
  <2>1. CASE watcher' = AtRest
    BY <2>1, RestIs DEF WatcherHolds
  <2>2. CASE watcher' = [watcher EXCEPT !.pc = "clear"]
    <3>1. watcher' \in WatcherRecords /\ watcher'.pc = "clear" /\ watcher'.node = n /\ watcher'.conn = c
      BY <1>1, <2>2 DEF WatcherRecords
    <3> QED BY <1>1, <1>2, <3>1 DEF WatcherHolds
  <2> QED BY <1>3, <2>1, <2>2
<1>6. PICK q \in {Shut(r), Cleared(r)} : SetConn(n, c, q)
  BY <1>3
<1>7. q \in Records
  BY <1>4
<1> DEFINE cs == [conn EXCEPT ![n][c] = q]
<1>8. /\ cs \in Tables /\ cs[n][c] = q
      /\ \A m \in Nodes, d \in Conns : cs[m][d] = conn[m][d] \/ (m = n /\ d = c)
  BY <1>1, <1>7, SetsOne
<1>9. SetConns(cs)
  BY <1>6 DEF SetConn
<1> HIDE DEF cs
<1>10. Sets(cs)
  BY <1>8, <1>9, SetsConns
<1>11. ASSUME NEW m \in Nodes, NEW d \in Conns
       PROVE  \/ cs[m][d] = conn[m][d]
              \/ table[m] # d /\ cs[m][d] \in {Shut(conn[m][d]), Cleared(conn[m][d])}
  BY <1>1, <1>6, <1>8
<1>12. ring' \subseteq Nodes /\ addr' \subseteq Nodes /\ table' \in [Nodes -> {0} \union Conns]
  BY <1>1, <1>2 DEF ClientInv, Types
<1>13. \A m \in Nodes : table'[m] = table[m] \/ table'[m] = 0
  BY <1>2
<1>14. UNCHANGED <<up, app, watching, result>>
  BY DEF OnlyWatcher
<1> QED BY <1>5, <1>8, <1>10, <1>11, <1>12, <1>13, <1>14, WatcherKeeps

-----------------------------------------------------------------------------
(* The steps of the nodes. *)

Breaks(r, q) ==
  /\ q \in Records /\ q.sock = r.sock /\ q.buf = r.buf
  /\ ~ q.peer /\ ~ q.asked
  /\ r = Unused => q = Unused

Answers(r, q) ==
  /\ r.asked
  /\ q \in Records /\ q.sock = r.sock /\ q.buf = r.buf /\ q.peer = r.peer
  /\ ~ q.asked
  /\ \E reply \in Replies : q.wire = r.wire \o reply

LEMMA NodeChanges ==
  ASSUME NEW r \in Records, NEW q, q = r \/ Breaks(r, q) \/ Answers(r, q), NEW recv \in BOOLEAN
  PROVE  /\ r = Unused => q = Unused
         /\ Clean(r) => Clean(q)
         /\ Fresh(r) => Fresh(q)
         /\ q.sock = r.sock /\ q.buf = r.buf
         /\ (r.peer => LineAwaited(r, recv)) => (q.peer => LineAwaited(q, recv))
         /\ (r.peer => ValueAwaited(r, recv)) => (q.peer => ValueAwaited(q, recv))
<1>1. CASE q = r
  BY <1>1
<1>2. CASE Breaks(r, q)
  BY <1>2 DEF Breaks, Clean, Fresh
<1>3. CASE Answers(r, q)
  <2>1. r.asked /\ q.sock = r.sock /\ q.buf = r.buf /\ q.peer = r.peer /\ ~ q.asked
    BY <1>3 DEF Answers
  <2>2. ASSUME q.peer, LineAwaited(r, recv) PROVE LineAwaited(q, recv)
    <3>1. CASE r.wire = << >> /\ r.buf = << >>
      <4>1. PICK reply \in Replies : q.wire = r.wire \o reply
        BY <1>3 DEF Answers
      <4>2. reply \in Seq(Parts)
        BY ReplyParts
      <4>3. << >> \o reply = reply
        BY <4>2, ConcatEmptySeq
      <4>4. q.buf \o q.wire = reply
        BY <2>1, <3>1, <4>1, <4>3
      <4> QED BY <2>1, <4>4 DEF LineAwaited
    <3>2. CASE Doomed(r, recv)
      BY <2>1, <3>2 DEF LineAwaited, Doomed
    <3> QED BY <2>1, <2>2, <3>1, <3>2 DEF LineAwaited
  <2>3. ~ ValueAwaited(r, recv)
    BY <2>1 DEF ValueAwaited
  <2>4. r # Unused
    BY <2>1 DEF Unused
  <2> QED BY <2>1, <2>2, <2>3, <2>4 DEF Clean, Fresh
<1> QED BY <1>1, <1>2, <1>3

OnlyNodes == UNCHANGED <<ring, addr, table, app, watcher, watching, result>>

LEMMA NodesKeep ==
  ASSUME ClientInv, OnlyNodes, up' \in [Nodes -> BOOLEAN], conn' \in Tables,
         \A n \in Nodes, c \in Conns :
           \/ conn'[n][c] = conn[n][c]
           \/ Breaks(conn[n][c], conn'[n][c])
           \/ Answers(conn[n][c], conn'[n][c])
  PROVE  ClientInv'
<1>1. /\ ring' = ring /\ addr' = addr /\ table' = table /\ app' = app
      /\ watcher' = watcher /\ watching' = watching /\ result' = result
  BY DEF OnlyNodes
<1>2. ASSUME NEW n \in Nodes, NEW c \in Conns, NEW recv \in BOOLEAN
      PROVE  /\ conn[n][c] = Unused => conn'[n][c] = Unused
             /\ Clean(conn[n][c]) => Clean(conn'[n][c])
             /\ Fresh(conn[n][c]) => Fresh(conn'[n][c])
             /\ conn'[n][c].sock = conn[n][c].sock /\ conn'[n][c].buf = conn[n][c].buf
             /\ (conn[n][c].peer => LineAwaited(conn[n][c], recv))
                  => (conn'[n][c].peer => LineAwaited(conn'[n][c], recv))
             /\ (conn[n][c].peer => ValueAwaited(conn[n][c], recv))
                  => (conn'[n][c].peer => ValueAwaited(conn'[n][c], recv))
  <2>1. conn[n][c] \in Records
    BY DEF ClientInv, Types, Tables
  <2> QED BY <2>1, NodeChanges
<1>3. Types'
  BY <1>1 DEF ClientInv, Types
<1>4. AppHolds' /\ WatcherHolds'
  BY <1>1 DEF ClientInv, AppHolds, WatcherHolds
<1>5. OthersUnused'
  <2>1. ASSUME NEW n \in Nodes, NEW c \in Conns, ~ Refers(n, c)' PROVE conn'[n][c] = Unused
    <3>1. ~ Refers(n, c)
      BY <1>1, <2>1 DEF Refers
    <3>2. OthersUnused /\ FALSE \in BOOLEAN
      BY DEF ClientInv
    <3> QED BY <1>2, <3>1, <3>2 DEF OthersUnused
  <2> QED BY <2>1 DEF OthersUnused
<1>6. TableClean'
  <2> SUFFICES ASSUME NEW n \in Nodes, table[n] # 0
               PROVE  /\ Fresh(conn'[n][table[n]])
                      /\ Requests => conn'[n][table[n]].sock # "closed"
                      /\ \/ Clean(conn'[n][table[n]])
                         \/ Reads /\ app.node = n /\ app.conn = table[n]
    BY <1>1 DEF TableClean, Requests, Reads
  <2>1. PICK c \in Conns : c = table[n]
    BY DEF ClientInv, Types
  <2>2. TableClean /\ FALSE \in BOOLEAN
    BY DEF ClientInv
  <2>3. /\ Clean(conn[n][c]) => Clean(conn'[n][c])
        /\ Fresh(conn[n][c]) => Fresh(conn'[n][c])
        /\ conn'[n][c].sock = conn[n][c].sock
    BY <1>2, <2>2
  <2> QED BY <2>1, <2>2, <2>3 DEF TableClean
<1>7. CASE app.pc \in {"held", "connected", "line", "value"}
  <2>1. PICK n \in Nodes, c \in Conns : n = app.node /\ c = app.conn
    BY <1>7 DEF ClientInv, AppHolds
  <2>2. PICK r : r = AppConn
    OBVIOUS
  <2>3. PICK q : q = AppConn'
    OBVIOUS
  <2>4. r = conn[n][c] /\ q = conn'[n][c] /\ app.recv \in BOOLEAN /\ AppClean
    BY <1>1, <2>1, <2>2, <2>3 DEF AppConn, ClientInv, Types, AppRecords
  <2>5. /\ Clean(r) => Clean(q)
        /\ Fresh(r) => Fresh(q)
        /\ q.sock = r.sock /\ q.buf = r.buf
        /\ (r.peer => LineAwaited(r, app.recv)) => (q.peer => LineAwaited(q, app.recv))
        /\ (r.peer => ValueAwaited(r, app.recv)) => (q.peer => ValueAwaited(q, app.recv))
    BY <1>2, <2>4
  <2>6. app.pc \in {"held", "connected"} => Clean(q)
    BY <2>2, <2>4, <2>5 DEF AppClean
  <2>7. app.pc = "held" => Fresh(q)
    BY <2>2, <2>4, <2>5 DEF AppClean
  <2>8. app.pc \in {"connected", "line", "value"} /\ table[app.node] = app.conn => q.sock = "open"
    BY <2>2, <2>4, <2>5 DEF AppClean
  <2>9. app.pc = "line" =>
          /\ app.recv => Ends(q.buf) = {}
          /\ q.peer => LineAwaited(q, app.recv)
    BY <2>2, <2>4, <2>5 DEF AppClean
  <2>10. app.pc = "value" =>
           /\ app.recv => Len(q.buf) < 2
           /\ q.peer => ValueAwaited(q, app.recv)
    BY <2>2, <2>4, <2>5 DEF AppClean
  <2>11. AppClean'
    BY <1>1, <2>3, <2>6, <2>7, <2>8, <2>9, <2>10 DEF AppClean
  <2> QED BY <1>3, <1>4, <1>5, <1>6, <2>11 DEF ClientInv
<1>8. CASE app.pc \notin {"held", "connected", "line", "value"}
  <2>1. AppClean'
    BY <1>1, <1>8 DEF AppClean
  <2> QED BY <1>3, <1>4, <1>5, <1>6, <2>1 DEF ClientInv
<1> QED BY <1>7, <1>8

LEMMA BrokenIs ==
  ASSUME NEW r \in Records, NEW k \in Nat
  PROVE  Broken(r, k) \in Records /\ Breaks(r, Broken(r, k))
<1> DEFINE left == SubSeq(r.wire, 1, IF k < Len(r.wire) THEN k ELSE Len(r.wire))
<1>1. left \in Seq(Parts)
  <2>1. r.wire \in Seq(Parts)
    BY DEF Records
  <2> QED BY <2>1, PiecesType
<1>2. Broken(r, k) = [r EXCEPT !.peer = FALSE, !.asked = FALSE, !.wire = left]
  BY DEF Broken, Records
<1>3. r = Unused => left = << >>
  <2> SUFFICES ASSUME r.wire = << >> PROVE left = << >>
    BY DEF Unused
  <2>1. Len(r.wire) = 0
    OBVIOUS
  <2>2. (IF k < Len(r.wire) THEN k ELSE Len(r.wire)) = 0
    BY <2>1
  <2>3. left = SubSeq(r.wire, 1, 0)
    BY <2>2
  <2> QED BY <2>3, SubSeqEmpty
<1> HIDE DEF left
<1>4. /\ Broken(r, k) \in Records /\ Broken(r, k).sock = r.sock /\ Broken(r, k).buf = r.buf
      /\ ~ Broken(r, k).peer /\ ~ Broken(r, k).asked
  BY <1>1, <1>2 DEF Records
<1>5. r = Unused => Broken(r, k) = Unused
  <2> SUFFICES ASSUME r = Unused PROVE Broken(r, k) = Unused
    OBVIOUS
  <2>1. Broken(r, k) = [r EXCEPT !.peer = FALSE, !.asked = FALSE, !.wire = << >>]
    BY <1>2, <1>3
  <2>2. r.peer = FALSE /\ r.asked = FALSE /\ r.wire = << >>
    BY DEF Unused
  <2>3. [r EXCEPT !.peer = FALSE, !.asked = FALSE, !.wire = << >>] = r
    BY <2>2 DEF Records
  <2> QED BY <2>1, <2>3
<1> QED BY <1>4, <1>5 DEF Breaks

LEMMA AnswerKeeps ==
  ASSUME ClientInv, OnlyNodes, NEW n \in Nodes, NEW c \in Conns, Answer(n, c) PROVE ClientInv'
<1> DEFINE r == conn[n][c]
<1>1. up \in [Nodes -> BOOLEAN] /\ conn \in Tables /\ up' = up /\ r.asked
  BY DEF ClientInv, Types, Answer
<1>2. PICK reply \in Replies : conn' = [conn EXCEPT ![n][c].asked = FALSE, ![n][c].wire = @ \o reply]
  BY DEF Answer
<1> DEFINE q == [r EXCEPT !.asked = FALSE, !.wire = @ \o reply]
<1>3. r \in Records
  BY <1>1 DEF Tables
<1>4. r.wire \o reply \in Seq(Parts)
  <2>1. reply \in Seq(Parts) /\ r.wire \in Seq(Parts)
    BY <1>3, ReplyParts DEF Records
  <2> QED BY <2>1
<1>5. conn' = [conn EXCEPT ![n][c] = q]
  BY <1>1, <1>2, <1>3 DEF Tables, Records
<1>6. q \in Records /\ Answers(r, q)
  <2> HIDE DEF r
  <2>1. /\ q \in Records /\ q.sock = r.sock /\ q.buf = r.buf /\ q.peer = r.peer
        /\ q.asked = FALSE /\ q.wire = r.wire \o reply
    BY <1>3, <1>4 DEF Records
  <2> QED BY <1>1, <2>1 DEF Answers
<1> HIDE DEF q
<1>7. /\ conn' \in Tables /\ conn'[n][c] = q
      /\ \A m \in Nodes, d \in Conns : conn'[m][d] = conn[m][d] \/ (m = n /\ d = c)
  <2> DEFINE cs == [conn EXCEPT ![n][c] = q]
  <2>1. /\ cs \in Tables /\ cs[n][c] = q
        /\ \A m \in Nodes, d \in Conns : cs[m][d] = conn[m][d] \/ (m = n /\ d = c)
    BY <1>1, <1>6, SetsOne
  <2>2. conn' = cs
    BY <1>5
  <2> HIDE DEF cs
  <2> QED BY <2>1, <2>2
<1> QED BY <1>1, <1>6, <1>7, NodesKeep

LEMMA LoseConnKeeps ==
  ASSUME ClientInv, OnlyNodes, NEW n \in Nodes, NEW c \in Conns, LoseConn(n, c) PROVE ClientInv'
<1> DEFINE r == conn[n][c]
<1>1. up \in [Nodes -> BOOLEAN] /\ conn \in Tables /\ up' = up
  BY DEF ClientInv, Types, LoseConn
<1>2. r \in Records
  BY <1>1 DEF Tables
<1>3. PICK k \in Nat : conn' = [conn EXCEPT ![n][c] = Broken(@, k)]
  <2>1. PICK k \in 0 .. Len(r.wire) : conn' = [conn EXCEPT ![n][c] = Broken(@, k)]
    BY DEF LoseConn
  <2>2. Len(r.wire) \in Nat
    BY <1>2 DEF Records
  <2>3. k \in Nat
    BY <2>1, <2>2
  <2> QED BY <2>1, <2>3
<1>4. Broken(r, k) \in Records /\ Breaks(r, Broken(r, k))
  BY <1>2, BrokenIs
<1>5. conn' = [conn EXCEPT ![n][c] = Broken(r, k)]
  BY <1>1, <1>3 DEF Tables
<1>6. /\ conn' \in Tables /\ conn'[n][c] = Broken(r, k)
      /\ \A m \in Nodes, d \in Conns : conn'[m][d] = conn[m][d] \/ (m = n /\ d = c)
  <2> DEFINE cs == [conn EXCEPT ![n][c] = Broken(r, k)]
  <2>1. /\ cs \in Tables /\ cs[n][c] = Broken(r, k)
        /\ \A m \in Nodes, d \in Conns : cs[m][d] = conn[m][d] \/ (m = n /\ d = c)
    BY <1>1, <1>4, SetsOne
  <2>2. conn' = cs
    BY <1>5
  <2> HIDE DEF cs
  <2> QED BY <2>1, <2>2
<1> QED BY <1>1, <1>4, <1>6, NodesKeep

LEMMA StopKeeps == ASSUME ClientInv, OnlyNodes, NEW n \in Nodes, Stop(n) PROVE ClientInv'
<1>1. /\ up \in [Nodes -> BOOLEAN] /\ conn \in Tables /\ up' = [up EXCEPT ![n] = FALSE]
      /\ up' \in [Nodes -> BOOLEAN]
  BY DEF ClientInv, Types, Stop
<1>2. PICK k \in Nat : conn' = [conn EXCEPT ![n] = [c \in Conns |-> Broken(@[c], k)]]
  BY DEF Stop
<1>3. ASSUME NEW c \in Conns
      PROVE  Broken(conn[n][c], k) \in Records /\ Breaks(conn[n][c], Broken(conn[n][c], k))
  <2>1. conn[n][c] \in Records
    BY <1>1 DEF Tables
  <2> QED BY <2>1, BrokenIs
<1>4. conn' = [conn EXCEPT ![n] = [c \in Conns |-> Broken(conn[n][c], k)]]
  BY <1>1, <1>2 DEF Tables
<1>5. /\ conn' \in Tables
      /\ \A c \in Conns : conn'[n][c] = Broken(conn[n][c], k)
      /\ \A m \in Nodes : m # n => conn'[m] = conn[m]
  BY <1>1, <1>3, <1>4 DEF Tables
<1>6. ASSUME NEW m \in Nodes, NEW c \in Conns
      PROVE  conn'[m][c] = conn[m][c] \/ Breaks(conn[m][c], conn'[m][c])
  BY <1>3, <1>5
<1> QED BY <1>1, <1>5, <1>6, NodesKeep

LEMMA StartKeeps == ASSUME ClientInv, OnlyNodes, NEW n \in Nodes, Start(n) PROVE ClientInv'
<1>1. up' \in [Nodes -> BOOLEAN] /\ conn \in Tables /\ conn' = conn
  BY DEF ClientInv, Types, Start
<1> QED BY <1>1, NodesKeep

-----------------------------------------------------------------------------
(* The theorems. *)

LEMMA Starts == ASSUME Init PROVE ClientInv
<1>1. /\ up = [n \in Nodes |-> TRUE] /\ ring \in SUBSET Nodes /\ addr = ring
      /\ table = [n \in Nodes |-> 0]
      /\ conn = [n \in Nodes |-> [c \in Conns |-> Unused]]
      /\ app = Idle /\ watcher = AtRest /\ watching = TRUE
      /\ result = [node |-> None, is |-> "none"]
  BY DEF Init
<1>2. Types
  <2>1. up \in [Nodes -> BOOLEAN] /\ table \in [Nodes -> {0} \union Conns] /\ conn \in Tables
    BY <1>1, UnusedType DEF Tables
  <2>2. app \in AppRecords /\ watcher \in WatcherRecords
    BY <1>1, IdleIs, RestIs
  <2>3. /\ ring \subseteq Nodes /\ addr \subseteq Nodes /\ watching \in BOOLEAN
        /\ result \in [node : Nodes \union {None}, is : {"none", "own", "foreign", "error"}]
    BY <1>1
  <2> QED BY <2>1, <2>2, <2>3 DEF Types
<1>3. app.pc = "idle" /\ app.node = None /\ app.conn = 0 /\ app.recv = FALSE
  BY <1>1, IdleIs
<1>4. AppHolds /\ WatcherHolds /\ AppClean
  BY <1>1, <1>3, RestIs DEF AppHolds, WatcherHolds, AppClean
<1>5. OthersUnused /\ TableClean
  BY <1>1 DEF OthersUnused, TableClean
<1> QED BY <1>2, <1>4, <1>5 DEF ClientInv

(* The invariant is inductive: no step of the application, of the watcher, *)
(* of a node or of the network breaks what the two threads rely on.        *)
THEOREM Serving == Spec => []ClientInv
<1>1. Init => ClientInv
  BY Starts
<1>2. ClientInv /\ [Next]_vars => ClientInv'
  <2> SUFFICES ASSUME ClientInv, [Next]_vars PROVE ClientInv'
    OBVIOUS
  <2>1. ASSUME AppStep PROVE ClientInv'
    <3>1. OnlyClose
      BY <2>1 DEF AppStep, OnlyClose
    <3>2. ASSUME UNCHANGED watching, Calls \/ Request PROVE ClientInv'
      <4>1. OnlyApp
        BY <3>1, <3>2 DEF OnlyApp, OnlyClose
      <4>2. CASE Calls
        BY <4>1, <4>2, NoNodesKeeps, RouteKeeps DEF Calls
      <4>3. CASE Request
        BY <4>1, <4>3, FindAddressKeeps, FindConnKeeps, ConnectKeeps, SendKeeps, TakeLineKeeps,
           TakeValueKeeps, EnterRecvKeeps, RecvSomeKeeps, RecvEndKeeps DEF Request
      <4> QED BY <3>2, <4>2, <4>3
    <3>3. CASE CloseBegin \/ Closing
      BY <3>1, <3>3, CloseBeginKeeps, CloseNextKeeps, CloseOneKeeps, StopWatcherKeeps DEF Closing
    <3> QED BY <2>1, <3>2, <3>3 DEF AppStep
  <2>2. ASSUME WatcherStep PROVE ClientInv'
    <3>1. OnlyWatcher
      BY <2>2 DEF WatcherStep, OnlyWatcher
    <3>2. CASE WatcherGoesOn
      BY <3>1, <3>2, AddToRingKeeps, DropAddressKeeps, PopConnKeeps, CloseConnKeeps DEF WatcherGoesOn
    <3>3. ASSUME NEW n \in Changing, OnAdd(n) \/ OnRemove(n) PROVE ClientInv'
      BY <3>1, <3>3, OnAddKeeps, OnRemoveKeeps
    <3> QED BY <2>2, <3>2, <3>3 DEF WatcherStep
  <2>3. ASSUME NodeStep PROVE ClientInv'
    <3>1. OnlyNodes
      BY <2>3 DEF NodeStep, OnlyNodes
    <3>2. ASSUME NEW n \in Changing, Stop(n) \/ Start(n) \/ \E c \in Conns : LoseConn(n, c)
          PROVE  ClientInv'
      <4>1. n \in Nodes
        BY ClientBounds
      <4> QED BY <3>1, <3>2, <4>1, StopKeeps, StartKeeps, LoseConnKeeps
    <3>3. ASSUME NEW n \in Nodes, NEW c \in Conns, Answer(n, c) PROVE ClientInv'
      BY <3>1, <3>3, AnswerKeeps
    <3> QED BY <2>3, <3>2, <3>3 DEF NodeStep
  <2>4. CASE UNCHANGED vars
    <3>1. /\ OnlyNodes /\ up' = up /\ conn' = conn
      BY <2>4 DEF vars, OnlyNodes
    <3>2. up \in [Nodes -> BOOLEAN] /\ conn \in Tables
      BY DEF ClientInv, Types
    <3> QED BY <3>1, <3>2, NodesKeep
  <2> QED BY <2>1, <2>2, <2>3, <2>4 DEF Next
<1> QED BY <1>1, <1>2, PTL DEF Spec

(* The attributes of the client, the state of its threads and of the       *)
(* sockets have their types, and the watcher never closes the _Conn that   *)
(* the table holds for the node.                                           *)
THEOREM TypeCorrect == Spec => []TypeOK
<1>1. ClientInv => TypeOK
  <2> SUFFICES ASSUME ClientInv PROVE TypeOK
    OBVIOUS
  <2>1. \A n \in Nodes, c \in Conns : conn[n][c] \in Records
    BY DEF ClientInv, Types, Tables
  <2>2. watcher.conn # 0 => table[watcher.node] # watcher.conn
    <3>1. watcher.pc \in {"idle", "ring", "addr", "pop", "shut", "clear"}
      BY DEF ClientInv, Types, WatcherRecords
    <3> QED BY <3>1 DEF ClientInv, WatcherHolds
  <2> QED BY <2>1, <2>2 DEF ClientInv, Types, TypeOK, AppRecords, WatcherRecords
<1> QED BY <1>1, Serving, PTL

(* Between two requests a connection of the table that works holds neither *)
(* an unanswered request nor a part of an answer, at whatever point the    *)
(* watcher, a node or the network interfered with the earlier requests.    *)
THEOREM StaysInStep == Spec => []ConnectionsInStep
<1>1. ClientInv => ConnectionsInStep
  <2> SUFFICES ASSUME ClientInv, NEW n \in InTable,
                      conn[n][table[n]].sock = "open", conn[n][table[n]].peer,
                      <<app.node, app.conn>> # <<n, table[n]>>
               PROVE  /\ ~ conn[n][table[n]].asked /\ conn[n][table[n]].wire = << >>
                      /\ conn[n][table[n]].buf = << >>
    BY DEF ConnectionsInStep
  <2>1. n \in Nodes /\ table[n] # 0 /\ TableClean
    BY DEF InTable, ClientInv
  <2>2. ~ (app.node = n /\ app.conn = table[n])
    OBVIOUS
  <2> QED BY <2>1, <2>2 DEF TableClean, Clean
<1> QED BY <1>1, Serving, PTL

(* Over a connection that works a request returns the node's answer to     *)
(* that very request: set, get and delete never give the reply of another. *)
THEOREM AnswersOwn == Spec => RepliesAreOwn
<1> DEFINE Step == result' # result /\ result'.is = "foreign" => ~ AppConn.peer
<1>1. ASSUME ClientInv, [Next]_vars PROVE Step
  <2> SUFFICES ASSUME result' # result, result'.is = "foreign", AppConn.peer PROVE FALSE
    OBVIOUS
  <2>1. AppStep
    BY <1>1 DEF Next, WatcherStep, NodeStep, vars
  <2>2. ASSUME NEW is, Return(is) PROVE is = "foreign"
    BY <2>2 DEF Return
  <2>3. ~ Fail
    BY <2>2 DEF Fail
  <2>4. TakeLine \/ TakeValue
    <3>1. ~ NoNodes
      BY <2>2 DEF NoNodes
    <3>2. \A n \in Nodes : ~ Route(n)
      BY DEF Route
    <3>3. ~ FindAddress /\ ~ FindConn /\ ~ Connect /\ ~ Send /\ ~ EnterRecv /\ ~ RecvSome /\ ~ RecvEnd
      BY <2>3 DEF FindAddress, FindConn, Connect, Send, EnterRecv, RecvSome, RecvEnd
    <3>4. ~ CloseBegin /\ ~ Closing
      BY DEF CloseBegin, Closing, CloseNext, CloseOne, StopWatcher, Iterate
    <3> QED BY <2>1, <3>1, <3>2, <3>3, <3>4 DEF AppStep, Calls, Request
  <2>5. CASE TakeLine
    <3> DEFINE line == FirstLine(Received)
               tag == line[1].name
    <3>1. ~ app.recv /\ HasLine /\ app.pc = "line" /\ AppClean
      BY <1>1, <2>5 DEF TakeLine, HasLine, ClientInv
    <3>2. \/ tag = "status" /\ AllOwn(line)
          \/ tag = "header"
          \/ tag = "eol"
      BY <1>1, <3>1, LineTaken
    <3>3. \/ tag = "header" /\ UNCHANGED result
          \/ /\ tag \in {"status", "value", "lines"}
             /\ Return(IF tag = "status" /\ AllOwn(line) THEN "own" ELSE "foreign")
          \/ Return("error")
      BY <2>5 DEF TakeLine
    <3> HIDE DEF tag, line
    <3> QED BY <2>2, <3>2, <3>3
  <2>6. CASE TakeValue
    <3>1. HasValue /\ Return(IF AllOwn(SubSeq(Received, 1, 2)) THEN "own" ELSE "foreign")
      BY <2>6 DEF TakeValue
    <3>2. AllOwn(SubSeq(Received, 1, 2))
      BY <1>1, <3>1, ValueTaken
    <3> QED BY <2>2, <3>1, <3>2
  <2> QED BY <2>4, <2>5, <2>6
<1>2. Spec => [][Step]_vars
  BY <1>1, Serving, PTL DEF Spec
<1> QED BY <1>2 DEF RepliesAreOwn
=============================================================================
