------------------------- MODULE ReplicaFeedsProofs -------------------------
(***************************************************************************)
(* Theorems about ReplicaFeeds, for any set of connections, any high-water *)
(* mark and any number of batches.                                         *)
(***************************************************************************)
EXTENDS ReplicaFeeds, SequenceTheorems, TLAPS

USE FeedBounds

Offsets == 0 .. MaxOffset

-----------------------------------------------------------------------------
(* Type correctness. *)

LEMMA TypeInit == Init => TypeOK
BY DEF Init, TypeOK, Served

LEMMA MasterTypes ==
  ASSUME TypeOK, AppendBatch PROVE TypeOK'
<1>1. offset + 1 \in 1 .. MaxOffset
  BY DEF TypeOK, AppendBatch
<1>2. \A c \in Connections : Append(queue[c], offset + 1) \in Seq(1 .. MaxOffset)
  BY <1>1, AppendProperties DEF TypeOK
<1>3. queue' \in [Connections -> Seq(1 .. MaxOffset)]
  BY <1>2 DEF TypeOK, AppendBatch
<1> QED BY <1>1, <1>3 DEF TypeOK, AppendBatch, peerVars, Served

LEMMA WriteTypes ==
  ASSUME TypeOK, NEW c \in Connections, NEW msg \in Offsets, Write(c, msg)
  PROVE  transport' \in [Connections -> Seq(Offsets)]
<1>1. Append(transport[c], msg) \in Seq(Offsets)
  BY AppendProperties DEF TypeOK, Offsets
<1> QED BY <1>1 DEF TypeOK, Write, Offsets

LEMMA HandlerTypes ==
  ASSUME TypeOK, NEW c \in Connections, Handler(c) PROVE TypeOK'
<1>1. CASE Drained(c)
  BY <1>1 DEF Drained, TypeOK, peerVars, Served
<1>2. CASE SendBatch(c)
  <2>1. Head(queue[c]) \in 1 .. MaxOffset /\ Tail(queue[c]) \in Seq(1 .. MaxOffset)
    BY <1>2, HeadTailProperties DEF SendBatch, TypeOK
  <2>2. transport' \in [Connections -> Seq(Offsets)]
    BY <1>2, <2>1, WriteTypes DEF SendBatch, Offsets
  <2>3. queue' \in [Connections -> Seq(1 .. MaxOffset)]
    BY <1>2, <2>1 DEF SendBatch, TypeOK
  <2> QED BY <1>2, <2>2, <2>3 DEF SendBatch, TypeOK, peerVars, Served, Offsets
<1>3. CASE EndReplica(c)
  BY <1>3 DEF EndReplica, TypeOK, peerVars, Served
<1> QED BY <1>1, <1>2, <1>3 DEF Handler

LEMMA ReplicaTypes ==
  ASSUME TypeOK, NEW c \in Connections, Replica(c) \/ ConnectionLost(c) PROVE TypeOK'
<1>1. CASE HandleReplica(c)
  <2>1. transport' \in [Connections -> Seq(Offsets)]
    BY <1>1, WriteTypes DEF HandleReplica, TypeOK, Offsets
  <2> QED BY <1>1, <2>1 DEF HandleReplica, TypeOK, Served, Offsets
<1>2. CASE Take(c)
  <2>1. Head(transport[c]) \in Offsets /\ Tail(transport[c]) \in Seq(Offsets)
    BY <1>2, HeadTailProperties DEF Take, TypeOK, Offsets
  <2>2. Append(got[c], Head(transport[c])) \in Seq(Offsets)
    BY <2>1, AppendProperties DEF TypeOK, Offsets
  <2> QED BY <1>2, <2>1, <2>2 DEF Take, TypeOK, Served, Offsets
<1>3. CASE StallOrResume(c)
  BY <1>3 DEF StallOrResume, TypeOK, Served
<1>4. CASE Leave(c)
  BY <1>4 DEF Leave, TypeOK, Served
<1>5. CASE ConnectionLost(c)
  BY <1>5 DEF ConnectionLost, TypeOK, peerVars, Served
<1> QED BY <1>1, <1>2, <1>3, <1>4, <1>5 DEF Replica

(* The variables of a master and of its feeds stay what they are meant to  *)
(* be; in particular the registered queues are those of the handlers that  *)
(* run, no more and no fewer.                                              *)
THEOREM TypeCorrect == Spec => []TypeOK
<1>1. TypeOK /\ [Next]_vars => TypeOK'
  <2> SUFFICES ASSUME TypeOK, [Next]_vars PROVE TypeOK'
    OBVIOUS
  <2>1. CASE Next
    BY <2>1, MasterTypes, HandlerTypes, ReplicaTypes DEF Next
  <2>2. CASE UNCHANGED vars
    BY <2>2 DEF vars, TypeOK, Served
  <2> QED BY <2>1, <2>2
<1> QED BY TypeInit, <1>1, PTL DEF Spec

-----------------------------------------------------------------------------
(* The stream of a replica, from its snapshot on. *)

Consecutive(s) == \A i \in 1 .. Len(s) - 1 : s[i + 1] = s[i] + 1

(* What a connection that was not made yet starts from, and that there is  *)
(* always a message, the last of which StreamIsGapless compares.           *)
FeedsStartClean ==
  \A c \in Connections :
    /\ handler[c] = "none" =>
         /\ peer[c] = "none" /\ ~ lost[c]
         /\ got[c] = << >> /\ transport[c] = << >> /\ queue[c] = << >>
    /\ c \in Served /\ ~ lost[c] => Stream(c) # << >>

FeedInv == TypeOK /\ StreamIsGapless /\ FeedsStartClean

(* A feed in order, as FeedInv has it of one connection. *)
InOrder(c) ==
  /\ handler[c] = "none" =>
       /\ peer[c] = "none" /\ ~ lost[c]
       /\ got[c] = << >> /\ transport[c] = << >> /\ queue[c] = << >>
  /\ c \in Served /\ ~ lost[c] =>
       /\ Stream(c) # << >>
       /\ Consecutive(Stream(c))
       /\ Stream(c)[Len(Stream(c))] = offset

LEMMA InvByFeed == FeedInv <=> TypeOK /\ \A c \in Connections : InOrder(c)
BY DEF FeedInv, StreamIsGapless, FeedsStartClean, InOrder, Consecutive, Served

LEMMA StreamType ==
  ASSUME TypeOK, NEW c \in Connections PROVE Stream(c) \in Seq(Offsets)
<1>1. got[c] \in Seq(Offsets) /\ transport[c] \in Seq(Offsets)
  BY DEF TypeOK, Offsets
<1>2. queue[c] \in Seq(Offsets)
  <2>1. queue[c] \in Seq(1 .. MaxOffset) /\ 1 .. MaxOffset \subseteq Offsets
    BY DEF TypeOK, Offsets
  <2> QED BY <2>1, SeqMonotonic
<1> QED BY <1>1, <1>2, ConcatProperties DEF Stream

LEMMA ConsecutiveAppend ==
  ASSUME NEW s \in Seq(Nat), s # << >>, Consecutive(s)
  PROVE  Consecutive(Append(s, s[Len(s)] + 1))
<1> DEFINE t == Append(s, s[Len(s)] + 1)
<1>1. Len(s) \in Nat \ {0}
  BY EmptySeq
<1>2. s[Len(s)] + 1 \in Nat
  BY <1>1, ElementOfSeq
<1>3. /\ Len(t) = Len(s) + 1
      /\ \A i \in 1 .. Len(s) : t[i] = s[i]
      /\ t[Len(s) + 1] = s[Len(s)] + 1
  BY <1>2, AppendProperties
<1>4. ASSUME NEW i \in 1 .. Len(t) - 1 PROVE t[i + 1] = t[i] + 1
  <2>1. CASE i = Len(s)
    BY <2>1, <1>1, <1>3
  <2>2. CASE i # Len(s)
    <3>1. i \in 1 .. Len(s) - 1 /\ i + 1 \in 1 .. Len(s) /\ i \in 1 .. Len(s)
      BY <2>2, <1>1, <1>3
    <3> QED BY <3>1, <1>3 DEF Consecutive
  <2> QED BY <2>1, <2>2
<1> QED BY <1>4 DEF Consecutive

LEMMA AppendBehind ==
  ASSUME NEW a \in Seq(Nat), NEW b \in Seq(Nat), NEW x \in Nat
  PROVE  a \o Append(b, x) = Append(a \o b, x)
BY ConcatProperties, AppendProperties, SeqEqual

(* A batch that is appended to a registered queue. *)
LEMMA AppendKeepsOrder ==
  ASSUME FeedInv, AppendBatch, NEW c \in Connections PROVE InOrder(c)'
<1>1. TypeOK /\ InOrder(c)
  BY InvByFeed
<1>2. UNCHANGED <<handler, lost, peer, got, transport, slaves>> /\ (c \in Served)' = (c \in Served)
  BY DEF AppendBatch, peerVars, Served
<1>3. CASE c \in slaves /\ ~ lost[c]
  <2>1. c \in Served
    BY <1>1, <1>3 DEF TypeOK
  <2>2. queue'[c] = Append(queue[c], offset + 1) /\ offset' = offset + 1
    BY <1>1, <1>3 DEF AppendBatch, TypeOK
  <2>3. offset \in Nat /\ offset + 1 \in Offsets
    BY <1>1 DEF TypeOK, AppendBatch, Offsets
  <2> DEFINE sent == got[c] \o transport[c]
  <2>4. sent \in Seq(Nat) /\ queue[c] \in Seq(Nat)
    BY <1>1, ConcatProperties DEF TypeOK
  <2>5. Stream(c)' = Append(Stream(c), offset + 1)
    <3>1. offset + 1 \in Nat
      BY <2>3
    <3>2. sent \o Append(queue[c], offset + 1) = Append(sent \o queue[c], offset + 1)
      BY <2>4, <3>1, AppendBehind
    <3>3. Stream(c)' = sent \o Append(queue[c], offset + 1)
      BY <1>2, <2>2 DEF Stream
    <3> QED BY <3>2, <3>3 DEF Stream
  <2>6. Stream(c) \in Seq(Nat)
    BY <2>4, ConcatProperties DEF Stream
  <2>7. Consecutive(Stream(c)')
    BY <1>1, <1>3, <2>1, <2>5, <2>6, ConsecutiveAppend DEF InOrder
  <2>8. Stream(c)' # << >> /\ Stream(c)'[Len(Stream(c)')] = offset'
    BY <2>2, <2>3, <2>5, <2>6, AppendProperties
  <2>9. Consecutive(Stream(c))'
    BY <2>7 DEF Consecutive
  <2> QED BY <1>2, <2>1, <2>8, <2>9 DEF InOrder, Served
<1>4. CASE ~ (c \in slaves /\ ~ lost[c])
  <2>1. c \notin slaves => queue'[c] = queue[c]
    BY <1>1 DEF AppendBatch, TypeOK
  <2>2. c \notin Served \/ lost[c]
    BY <1>1, <1>4 DEF TypeOK
  <2>3. handler[c] = "none" => c \notin slaves
    BY <1>1 DEF TypeOK, Served
  <2> QED BY <1>1, <1>2, <2>1, <2>2, <2>3 DEF InOrder, Served
<1> QED BY <1>3, <1>4

(* A message that moves from the queue to the transport, or from there to  *)
(* the replica, leaves the stream as it is.                                *)
LEMMA MoveKeepsStream ==
  ASSUME NEW S, NEW a \in Seq(S), NEW b \in Seq(S), b # << >>
  PROVE  a \o b = Append(a, Head(b)) \o Tail(b)
BY HeadTailProperties, ConcatProperties, AppendProperties, SeqEqual

LEMMA SameStreamKeepsOrder ==
  ASSUME FeedInv, NEW c \in Connections,
         c \in Served, ~ lost[c] => Stream(c)' = Stream(c),
         UNCHANGED <<offset, lost>>, (c \in Served)'
  PROVE  InOrder(c)'
<1>1. InOrder(c)
  BY InvByFeed
<1>2. CASE ~ lost[c]
  <2>1. Stream(c) # << >> /\ Consecutive(Stream(c)) /\ Stream(c)[Len(Stream(c))] = offset
    BY <1>1, <1>2 DEF InOrder
  <2>2. Consecutive(Stream(c)')
    BY <1>2, <2>1
  <2>3. Consecutive(Stream(c))'
    BY <2>2 DEF Consecutive
  <2>4. Stream(c)' # << >> /\ Stream(c)'[Len(Stream(c)')] = offset'
    BY <1>2, <2>1
  <2> QED BY <2>3, <2>4 DEF InOrder, Served
<1>3. CASE lost[c]
  BY <1>3 DEF InOrder, Served
<1> QED BY <1>2, <1>3

LEMMA SendKeepsOrder ==
  ASSUME FeedInv, NEW c \in Connections, SendBatch(c) PROVE InOrder(c)'
<1>1. TypeOK
  BY DEF FeedInv
<1>2. c \in Served /\ (c \in Served)' /\ UNCHANGED <<offset, lost, got>>
  BY <1>1 DEF SendBatch, Served, TypeOK, peerVars
<1>3. ASSUME ~ lost[c] PROVE Stream(c)' = Stream(c)
  <2>1. got[c] \in Seq(Nat) /\ transport[c] \in Seq(Nat) /\ queue[c] \in Seq(Nat) /\ queue[c] # << >>
    BY <1>1 DEF TypeOK, SendBatch
  <2>2. transport'[c] = Append(transport[c], Head(queue[c])) /\ queue'[c] = Tail(queue[c])
    BY <1>1, <1>3 DEF SendBatch, Write, TypeOK
  <2>3. Head(queue[c]) \in Nat
    BY <2>1, HeadTailProperties
  <2>4. got[c] \o Append(transport[c], Head(queue[c])) = Append(got[c] \o transport[c], Head(queue[c]))
    BY <2>1, <2>3, AppendBehind
  <2>5. got[c] \o transport[c] \in Seq(Nat)
    BY <2>1, ConcatProperties
  <2>6. Stream(c)' = got[c] \o Append(transport[c], Head(queue[c])) \o Tail(queue[c])
    BY <1>2, <2>2 DEF Stream
  <2> QED BY <2>1, <2>4, <2>5, <2>6, MoveKeepsStream DEF Stream
<1> QED BY <1>2, <1>3, SameStreamKeepsOrder

LEMMA TakeKeepsOrder ==
  ASSUME FeedInv, NEW c \in Connections, Take(c) PROVE InOrder(c)'
<1>1. TypeOK /\ InOrder(c)
  BY InvByFeed
<1>2. UNCHANGED <<offset, handler, queue, lost, peer>>
  BY DEF Take
<1>3. CASE c \in Served
  <2>1. got[c] \in Seq(Nat) /\ transport[c] \in Seq(Nat) /\ transport[c] # << >>
    BY <1>1 DEF TypeOK, Take
  <2>2. got'[c] = Append(got[c], Head(transport[c])) /\ transport'[c] = Tail(transport[c])
    BY <1>1 DEF Take, TypeOK
  <2>3. Stream(c)' = Stream(c)
    <3>1. got[c] \o transport[c] = Append(got[c], Head(transport[c])) \o Tail(transport[c])
      BY <2>1, MoveKeepsStream
    <3> QED BY <1>2, <2>2, <3>1 DEF Stream
  <2> QED BY <1>2, <1>3, <2>3, SameStreamKeepsOrder DEF Served
<1>4. CASE c \notin Served
  BY <1>1, <1>2, <1>4 DEF InOrder, Served, Take
<1> QED BY <1>3, <1>4

(* The snapshot alone is in order. *)
LEMMA SnapshotInOrder ==
  ASSUME FeedInv, NEW c \in Connections, HandleReplica(c) PROVE InOrder(c)'
<1>1. TypeOK /\ InOrder(c)
  BY InvByFeed
<1>2. ~ lost[c] /\ got[c] = << >> /\ transport[c] = << >> /\ queue[c] = << >>
  BY <1>1 DEF InOrder, HandleReplica
<1>3. transport'[c] = << offset >> /\ handler'[c] = "draining"
  BY <1>1, <1>2 DEF HandleReplica, Write, TypeOK
<1>4. Stream(c)' = << offset >>
  BY <1>2, <1>3 DEF Stream, HandleReplica
<1>5. Stream(c)' # << >> /\ Consecutive(Stream(c)') /\ Stream(c)'[Len(Stream(c)')] = offset
  BY <1>4 DEF Consecutive
<1>6. Consecutive(Stream(c))'
  BY <1>5 DEF Consecutive
<1> QED BY <1>3, <1>5, <1>6 DEF InOrder, HandleReplica

(* A step of one connection leaves the others as they are. *)
Others(c) ==
  \A d \in Connections \ {c} :
    /\ handler'[d] = handler[d] /\ lost'[d] = lost[d] /\ peer'[d] = peer[d]
    /\ got'[d] = got[d] /\ transport'[d] = transport[d] /\ queue'[d] = queue[d]

LEMMA OthersUndisturbed ==
  ASSUME TypeOK, NEW c \in Connections, Handler(c) \/ Replica(c) \/ ConnectionLost(c)
  PROVE  Others(c) /\ offset' = offset
BY DEF TypeOK, Others, Handler, Drained, SendBatch, EndReplica, Replica, HandleReplica,
       Take, StallOrResume, Leave, ConnectionLost, Write, peerVars

LEMMA OthersKeepOrder ==
  ASSUME FeedInv, NEW c \in Connections, Others(c), offset' = offset,
         NEW d \in Connections \ {c}
  PROVE  InOrder(d)'
<1>1. InOrder(d)
  BY InvByFeed
<1>2. Stream(d)' = Stream(d) /\ (d \in Served)' = (d \in Served)
  <2>1. /\ handler'[d] = handler[d] /\ got'[d] = got[d]
        /\ transport'[d] = transport[d] /\ queue'[d] = queue[d]
    BY DEF Others
  <2> QED BY <2>1 DEF Stream, Served
<1> QED BY <1>1, <1>2 DEF InOrder, Others, Consecutive

LEMMA FeedKeepsOrder ==
  ASSUME FeedInv, NEW c \in Connections, Handler(c) \/ Replica(c) \/ ConnectionLost(c)
  PROVE  InOrder(c)'
<1>1. TypeOK /\ InOrder(c)
  BY InvByFeed
<1>2. CASE Drained(c)
  BY <1>1, <1>2 DEF InOrder, Drained, TypeOK, peerVars, Stream, Served, Consecutive
<1>3. CASE EndReplica(c)
  BY <1>1, <1>3 DEF InOrder, EndReplica, TypeOK, peerVars, Served
<1>4. CASE StallOrResume(c)
  BY <1>1, <1>4 DEF InOrder, StallOrResume, TypeOK, Stream, Served, Consecutive
<1>5. CASE Leave(c)
  BY <1>1, <1>5 DEF InOrder, Leave, TypeOK, Stream, Served, Consecutive
<1>6. CASE ConnectionLost(c)
  BY <1>1, <1>6 DEF InOrder, ConnectionLost, TypeOK, peerVars, Served
<1> QED
  BY <1>2, <1>3, <1>4, <1>5, <1>6, SendKeepsOrder, TakeKeepsOrder, SnapshotInOrder
  DEF Handler, Replica

(* StreamIsGapless: a replica that is served misses no batch and gets none *)
(* twice, whatever it and the others do.                                   *)
THEOREM NoGaps == Spec => []StreamIsGapless
<1>1. Init => FeedInv
  BY TypeInit DEF Init, FeedInv, StreamIsGapless, FeedsStartClean, Served
<1>2. FeedInv /\ [Next]_vars => FeedInv'
  <2> SUFFICES ASSUME FeedInv, [Next]_vars, NEW d \in Connections PROVE InOrder(d)'
    <3>1. TypeOK /\ [Next]_vars => TypeOK'
      BY MasterTypes, HandlerTypes, ReplicaTypes DEF Next, vars, TypeOK, Served
    <3>2. (TypeOK /\ \A c \in Connections : InOrder(c))' => FeedInv'
      BY InvByFeed, PTL
    <3> QED BY <3>1, <3>2 DEF FeedInv
  <2>1. CASE AppendBatch
    BY <2>1, AppendKeepsOrder
  <2>2. ASSUME NEW c \in Connections, Handler(c) \/ Replica(c) \/ ConnectionLost(c)
        PROVE  InOrder(d)'
    <3>1. CASE d = c
      BY <2>2, <3>1, FeedKeepsOrder
    <3>2. CASE d # c
      BY <2>2, <3>2, OthersUndisturbed, OthersKeepOrder DEF FeedInv
    <3> QED BY <3>1, <3>2
  <2>3. CASE UNCHANGED vars
    BY <2>3, InvByFeed DEF vars, peerVars, InOrder, Stream, Served, Consecutive
  <2> QED BY <2>1, <2>2, <2>3 DEF Next
<1>3. FeedInv => StreamIsGapless
  BY DEF FeedInv
<1> QED BY <1>1, <1>2, <1>3, PTL DEF Spec
=============================================================================
