-------------------------- MODULE ReplicationProofs --------------------------
(***************************************************************************)
(* Theorems about Replication, for every number of nodes, every topology   *)
(* and every value of the bounds; from the line that names Convergence on, *)
(* what a replica holds once it has received everything that is on its way *)
(* to it.                                                                  *)
(***************************************************************************)
EXTENDS Convergence, FiniteSetTheorems, SequenceTheorems, DataLemmas

USE PrimaryAssumption, UpstreamAssumption, SizeAssumption, TTLAssumption,
    TicksAssumption, BoundsAssumption

(* A deadline survives the trip over the wire as a deadline. *)
LEMMA MsType ==
  ASSUME NEW t \in Nat \union {Never} PROVE Ms(t) \in Nat
BY DEF Ms

LEMMA FromMsType ==
  ASSUME NEW ms \in Nat PROVE FromMs(ms) \in Nat \union {Never}
BY DEF FromMs

LEMMA ApplyType ==
  ASSUME NEW s \in Stores, NEW eff \in Effects PROVE Apply(s, eff) \in Stores
<1>1. CASE eff \in SetEffects
  BY <1>1, FromMsType DEF SetEffects, Apply, Stores, Entries
<1>2. CASE eff \in DelEffects
  BY <1>2 DEF DelEffects, Apply, Stores, Entries
<1>3. CASE eff \in ExpireEffects
  BY <1>3 DEF ExpireEffects, Apply, WithDeadline, Stores, Entries
<1> QED BY <1>1, <1>2, <1>3 DEF Effects

LEMMA ApplyAllType ==
  ASSUME NEW s \in Stores, NEW effs \in Batches PROVE ApplyAll(s, effs) \in Stores
<1>1. effs \in Seq(Effects) /\ Len(effs) \in {1, 2}
  BY DEF Batches
<1>2. \A i \in 1 .. Len(effs) : effs[i] \in Effects
  BY <1>1, ElementOfSeq
<1>3. Apply(s, effs[1]) \in Stores
  BY <1>1, <1>2, ApplyType
<1>4. CASE Len(effs) = 1
  BY <1>3, <1>4 DEF ApplyAll
<1>5. CASE Len(effs) = 2
  <2>1. effs[2] \in Effects
    BY <1>2, <1>5
  <2> QED BY <1>3, <1>5, <2>1, ApplyType DEF ApplyAll
<1> QED BY <1>1, <1>4, <1>5

LEMMA SnapshotType ==
  /\ \A s \in Stores : SnapshotItems(s) \in Items
  /\ \A items \in Items : Loaded(items) \in Stores
<1>1. ASSUME NEW s \in Stores PROVE SnapshotItems(s) \in Items
  <2>1. ASSUME NEW k \in Keys, s[k] # Absent
        PROVE s[k].value \in Values /\ Ms(s[k].expire_at) \in Nat
    BY <2>1, MsType DEF Stores, Entries
  <2> QED BY <2>1 DEF SnapshotItems, Items
<1>2. ASSUME NEW items \in Items PROVE Loaded(items) \in Stores
  <2>1. ASSUME NEW k \in Keys, items[k] # Absent
        PROVE items[k].value \in Values /\ FromMs(items[k].ms) \in Nat \union {Never}
    BY <2>1, FromMsType DEF Items
  <2> QED BY <2>1 DEF Loaded, Stores, Entries
<1> QED BY <1>1, <1>2

(* The three effects a master appends. *)
LEMMA SetType ==
  ASSUME NEW k \in Keys, NEW v \in Values, NEW t \in Nat \union {Never}
  PROVE  SetEffect(k, v, t) \in Effects
BY MsType DEF SetEffect, Effects, SetEffects

LEMMA DelType ==
  ASSUME NEW k \in Keys PROVE DelEffect(k) \in Effects
BY DEF DelEffect, Effects, DelEffects

LEMMA ExpireType ==
  ASSUME NEW k \in Keys, NEW t \in Nat PROVE ExpireEffect(k, t) \in Effects
BY MsType DEF ExpireEffect, Effects, ExpireEffects

LEMMA NumberedType ==
  ASSUME TypeOK, NEW n \in Nodes, NEW effs \in Seq(Batches)
  PROVE  /\ Numbered(n, effs) \in Seq(BatchMsgs)
         /\ Len(Numbered(n, effs)) = Len(effs)
<1>1. \A i \in 1 .. Len(effs) :
        [tag |-> "BATCH", off |-> offset[n] + i, effects |-> effs[i]] \in BatchMsgs
  BY SMTT(30) DEF TypeOK, BatchMsgs
<1>2. Numbered(n, effs) = [i \in 1 .. Len(effs) |->
        [tag |-> "BATCH", off |-> offset[n] + i, effects |-> effs[i]]]
  BY DEF Numbered
<1> QED BY <1>1, <1>2, LenProperties

LEMMA AppendBatchesType ==
  ASSUME TypeOK, NEW n \in Nodes, NEW effs \in Seq(Batches), AppendBatches(n, effs)
  PROVE  offset' \in [Nodes -> Nat] /\ queue' \in [Nodes -> Seq(BatchMsgs)]
<1>1. offset' \in [Nodes -> Nat]
  BY SMTT(30) DEF TypeOK, AppendBatches
<1>2. ASSUME NEW r \in Nodes
      PROVE queue[r] \in Seq(BatchMsgs) /\ queue[r] \o Numbered(n, effs) \in Seq(BatchMsgs)
  BY NumberedType, ConcatProperties DEF TypeOK
<1>3. queue' \in [Nodes -> Seq(BatchMsgs)]
  BY <1>2 DEF AppendBatches
<1> QED BY <1>1, <1>3

-----------------------------------------------------------------------------
(* Type correctness, action by action. *)

(* The batches of a step: what append_batch is called with. *)
LEMMA OneBatch ==
  ASSUME NEW e \in Effects
  PROVE  << <<e>> >> \in Seq(Batches) /\ \A f \in Effects : << <<e, f>> >> \in Seq(Batches)
<1>1. <<e>> \in Batches /\ \A f \in Effects : <<e, f>> \in Batches
  BY DEF Batches
<1>2. \A b \in Batches : <<b>> \in Seq(Batches)
  OBVIOUS
<1> QED BY <1>1, <1>2

LEMMA FunctionIsSeq ==
  ASSUME NEW S, NEW c \in Nat, NEW f \in [1 .. c -> S]
  PROVE  f \in Seq(S) /\ Len(f) = c
OBVIOUS

LEMMA StoreType ==
  ASSUME TypeOK, NEW n \in Nodes, NEW s \in Stores, store' = [store EXCEPT ![n] = s]
  PROVE  store' \in [Nodes -> Stores]
BY DEF TypeOK

LEMMA DeadlinesNowType ==
  ASSUME TypeOK PROVE DeadlinesNow \subseteq Nat
<1>1. clock \in Nat
  BY DEF TypeOK
<1>2. ASSUME NEW ttl \in TTLs PROVE clock + ttl \in Nat
  <2>1. ttl \in Nat
    BY TTLAssumption
  <2> QED BY <1>1, <2>1
<1> QED BY <1>2 DEF DeadlinesNow

(* Clients of a master, and its expiry. *)
LEMMA ClientTypes ==
  ASSUME TypeOK, NEW n \in Nodes, ClientStep(n) PROVE TypeOK'
<1>1. ASSUME NEW k \in Keys, ClientDel(n, k) PROVE TypeOK'
  <2>1. offset' \in [Nodes -> Nat] /\ queue' \in [Nodes -> Seq(BatchMsgs)]
    BY <1>1, DelType, OneBatch, AppendBatchesType DEF ClientDel
  <2>2. store' \in [Nodes -> Stores]
    BY <1>1 DEF ClientDel, TypeOK, Stores
  <2> QED BY <1>1, <2>1, <2>2 DEF ClientDel, replicaVars, TypeOK
<1>2. ASSUME NEW k \in Keys, ClientGetExpired(n, k) PROVE TypeOK'
  <2>1. store' \in [Nodes -> Stores]
    BY <1>2 DEF ClientGetExpired, TypeOK, Stores
  <2> QED BY <1>2, <2>1 DEF ClientGetExpired, upstreamVars, replicaVars, TypeOK
<1>3. ASSUME NEW k \in Keys, NEW t \in DeadlinesNow, ClientExpire(n, k, t) PROVE TypeOK'
  <2>1. t \in Nat
    BY DeadlinesNowType
  <2>2. offset' \in [Nodes -> Nat] /\ queue' \in [Nodes -> Seq(BatchMsgs)]
    BY <1>3, <2>1, ExpireType, OneBatch, AppendBatchesType DEF ClientExpire
  <2>3. store' \in [Nodes -> Stores]
    <3>1. WithDeadline(store[n][k], t) \in Entries
      BY <1>3, <2>1 DEF ClientExpire, TypeOK, Stores, Entries, WithDeadline
    <3>2. [store[n] EXCEPT ![k] = WithDeadline(store[n][k], t)] \in Stores
      BY <3>1 DEF TypeOK, Stores
    <3>3. store' = [store EXCEPT ![n] = [store[n] EXCEPT ![k] = WithDeadline(store[n][k], t)]]
      BY <1>3 DEF ClientExpire, TypeOK
    <3> QED BY <3>2, <3>3, StoreType
  <2> QED BY <1>3, <2>2, <2>3 DEF ClientExpire, replicaVars, TypeOK
<1>4. ASSUME NEW k \in Keys, NEW v \in Values, NEW t \in DeadlinesNow \union {Never},
             ClientSet(n, k, v, t)
      PROVE  TypeOK'
  <2>1. t \in Nat \union {Never}
    BY DeadlinesNowType
  <2>2. offset' \in [Nodes -> Nat] /\ queue' \in [Nodes -> Seq(BatchMsgs)]
    <3>1. CASE AppendBatches(n, << <<SetEffect(k, v, t)>> >>)
      BY <2>1, <3>1, SetType, OneBatch, AppendBatchesType
    <3>2. ASSUME NEW lru \in Evictable(n, k),
                 AppendBatches(n, << <<SetEffect(k, v, t), DelEffect(lru)>> >>)
          PROVE  offset' \in [Nodes -> Nat] /\ queue' \in [Nodes -> Seq(BatchMsgs)]
      <4>1. lru \in Keys
        BY DEF Evictable, Present
      <4>2. SetEffect(k, v, t) \in Effects /\ DelEffect(lru) \in Effects
        BY <2>1, <4>1, SetType, DelType
      <4> QED BY <3>2, <4>2, OneBatch, AppendBatchesType
    <3> QED BY <1>4, <3>1, <3>2 DEF ClientSet
  <2>3. store' \in [Nodes -> Stores]
    <3> DEFINE new == [value |-> v, expire_at |-> t]
    <3>1. new \in Entries
      BY <2>1 DEF Entries
    <3>2. store[n] \in Stores
      BY DEF TypeOK
    <3>3. [store[n] EXCEPT ![k] = new] \in Stores
      BY <3>1, <3>2 DEF Stores
    <3>4. \A lru \in Keys : [store[n] EXCEPT ![k] = new, ![lru] = Absent] \in Stores
      BY <3>1, <3>2 DEF Stores
    <3>5. \/ store' = [store EXCEPT ![n] = [store[n] EXCEPT ![k] = new]]
          \/ \E lru \in Keys :
               store' = [store EXCEPT ![n] = [store[n] EXCEPT ![k] = new, ![lru] = Absent]]
      BY <1>4 DEF ClientSet, Evictable, Present, TypeOK
    <3>6. \E s \in Stores : store' = [store EXCEPT ![n] = s]
      BY <3>3, <3>4, <3>5
    <3> QED BY <3>6, StoreType
  <2> QED BY <1>4, <2>2, <2>3 DEF ClientSet, replicaVars, TypeOK
<1> QED BY <1>1, <1>2, <1>3, <1>4 DEF ClientStep

LEMMA ExpiredBatches ==
  ASSUME TypeOK, NEW n \in Nodes, NEW drawn \in SUBSET Keys, ActiveExpire(n, drawn)
  PROVE  \E effs \in Seq(Batches) : AppendBatches(n, effs)
<1> DEFINE gone == drawn \intersect Expired(store[n])
           c == Cardinality(gone)
<1>1. c \in Nat /\ gone \subseteq Keys
  BY KeysAssumption, FS_Subset, FS_CardinalityType
<1>2. PICK removed \in [1 .. c -> gone] :
        AppendBatches(n, [i \in 1 .. c |-> <<DelEffect(removed[i])>>])
  BY DEF ActiveExpire
<1> DEFINE dels == [i \in 1 .. c |-> <<DelEffect(removed[i])>>]
<1>3. dels \in Seq(Batches)
  <2>1. ASSUME NEW i \in 1 .. c PROVE <<DelEffect(removed[i])>> \in Batches
    <3>1. DelEffect(removed[i]) \in Effects
      BY <1>1, DelType
    <3> QED BY <3>1 DEF Batches
  <2>2. dels \in [1 .. c -> Batches]
    BY <2>1
  <2> HIDE DEF dels, c
  <2> QED BY <1>1, <2>2, FunctionIsSeq
<1> QED BY <1>2, <1>3

LEMMA ExpireTypes ==
  ASSUME TypeOK, NEW n \in Nodes, NEW drawn \in SUBSET Keys, ActiveExpire(n, drawn)
  PROVE  TypeOK'
<1>1. offset' \in [Nodes -> Nat] /\ queue' \in [Nodes -> Seq(BatchMsgs)]
  BY ExpiredBatches, AppendBatchesType
<1>2. store' \in [Nodes -> Stores]
  <2> DEFINE gone == drawn \intersect Expired(store[n])
             left == [k \in Keys |-> IF k \in gone THEN Absent ELSE store[n][k]]
  <2>1. left \in Stores
    BY DEF TypeOK, Stores
  <2>2. store' = [store EXCEPT ![n] = left]
    BY DEF ActiveExpire
  <2> HIDE DEF left
  <2> QED BY <2>1, <2>2 DEF TypeOK
<1> QED BY <1>1, <1>2 DEF ActiveExpire, replicaVars, TypeOK

LEMMA EmptySeqs == \A S : << >> \in Seq(S)
OBVIOUS

(* What an upstream leaves of a connection when it goes. *)
LEMMA EndsKeep ==
  ASSUME TypeOK, NEW n \in Nodes, NEW end \in Ends(n)
  PROVE  /\ end.link \in {"severed", "torn"} /\ end.wire \in Seq(Messages)
         /\ \E i \in 0 .. Len(wire[n]) : end.wire = SubSeq(wire[n], 1, i)
<1>1. end.link \in {"severed", "torn"} /\ \E i \in 0 .. Len(wire[n]) : end.wire = SubSeq(wire[n], 1, i)
  BY DEF Ends
<1>2. \A i \in 0 .. Len(wire[n]) : SubSeq(wire[n], 1, i) \in Seq(Messages)
  BY SubSeqProperties, SMTT(30) DEF TypeOK
<1> QED BY <1>1, <1>2

LEMMA SeverKeeps ==
  ASSUME TypeOK, NEW n \in Nodes, Sever(n)
  PROVE  /\ link[n] = "open" /\ link'[n] \in {"severed", "torn"}
         /\ link' \in [Nodes -> Links] /\ wire' \in [Nodes -> Seq(Messages)]
         /\ \A r \in Nodes : r # n => link'[r] = link[r] /\ wire'[r] = wire[r]
         /\ \E i \in 0 .. Len(wire[n]) : wire'[n] = SubSeq(wire[n], 1, i)
<1>1. PICK end \in Ends(n) : /\ link' = [link EXCEPT ![n] = end.link]
                            /\ wire' = [wire EXCEPT ![n] = end.wire]
  BY DEF Sever
<1>2. /\ end.link \in {"severed", "torn"} /\ end.wire \in Seq(Messages)
      /\ \E i \in 0 .. Len(wire[n]) : end.wire = SubSeq(wire[n], 1, i)
  BY EndsKeep
<1>3. link[n] = "open"
  BY DEF Sever
<1> QED BY <1>1, <1>2, <1>3 DEF TypeOK, Links

LEMMA RestartKeeps ==
  ASSUME TypeOK, NEW m \in Nodes, Restart(m)
  PROVE  /\ link' \in [Nodes -> Links] /\ wire' \in [Nodes -> Seq(Messages)]
         /\ link'[m] = "down" /\ wire'[m] = << >>
         /\ \A n \in Nodes : n # m /\ Upstream[n] # m => link'[n] = link[n] /\ wire'[n] = wire[n]
         /\ \A n \in Nodes : n # m /\ Upstream[n] = m =>
              /\ link'[n] = CASE link[n] = "open" -> IF link'[n] = "torn" THEN "torn" ELSE "severed"
                              [] link[n] = "requested" -> "severed"
                              [] OTHER -> link[n]
              /\ \E i \in 0 .. Len(wire[n]) : wire'[n] = SubSeq(wire[n], 1, i)
<1> DEFINE fed == {r \in Nodes \ {m} : Upstream[r] = m /\ link[r] = "open"}
           asking == {r \in Nodes \ {m} : Upstream[r] = m /\ link[r] = "requested"}
<1>1. PICK end \in [fed -> UNION {Ends(r) : r \in fed}] :
        /\ \A r \in fed : end[r] \in Ends(r)
        /\ link' = [r \in Nodes |-> IF r = m THEN "down"
                                    ELSE IF r \in asking THEN "severed"
                                    ELSE IF r \in fed THEN end[r].link ELSE link[r]]
        /\ wire' = [r \in Nodes |-> IF r = m THEN << >>
                                    ELSE IF r \in fed THEN end[r].wire ELSE wire[r]]
  BY DEF Restart
<1>2. \A r \in fed : /\ end[r].link \in {"severed", "torn"} /\ end[r].wire \in Seq(Messages)
                     /\ \E i \in 0 .. Len(wire[r]) : end[r].wire = SubSeq(wire[r], 1, i)
  BY <1>1, EndsKeep
<1>3. link' \in [Nodes -> Links]
  BY <1>1, <1>2 DEF TypeOK, Links
<1>4. wire' \in [Nodes -> Seq(Messages)]
  BY <1>1, <1>2, EmptySeqs DEF TypeOK
<1>5. link'[m] = "down" /\ wire'[m] = << >>
  BY <1>1
<1>6. ASSUME NEW n \in Nodes, n # m, Upstream[n] # m
      PROVE  link'[n] = link[n] /\ wire'[n] = wire[n]
  BY <1>1, <1>6
<1>7. ASSUME NEW n \in Nodes, n # m, Upstream[n] = m
      PROVE  /\ link'[n] = CASE link[n] = "open" -> IF link'[n] = "torn" THEN "torn" ELSE "severed"
                             [] link[n] = "requested" -> "severed"
                             [] OTHER -> link[n]
             /\ \E i \in 0 .. Len(wire[n]) : wire'[n] = SubSeq(wire[n], 1, i)
  <2>1. CASE link[n] = "open"
    <3>1. n \in fed /\ n \notin asking
      BY <1>7, <2>1
    <3>2. link'[n] = end[n].link /\ wire'[n] = end[n].wire
      BY <1>1, <1>7, <3>1
    <3> QED BY <1>2, <2>1, <3>1, <3>2
  <2>2. CASE link[n] # "open"
    <3>1. /\ link'[n] = IF link[n] = "requested" THEN "severed" ELSE link[n]
          /\ wire'[n] = wire[n]
      BY <1>1, <1>7, <2>2
    <3>2. Len(wire[n]) \in 0 .. Len(wire[n]) /\ SubSeq(wire[n], 1, Len(wire[n])) = wire[n]
      BY DEF TypeOK
    <3>3. \E i \in 0 .. Len(wire[n]) : wire'[n] = SubSeq(wire[n], 1, i)
      BY <3>1, <3>2
    <3> QED BY <2>2, <3>1, <3>3
  <2> QED BY <2>1, <2>2
<1> QED BY <1>3, <1>4, <1>5, <1>6, <1>7

(* The two ends of a connection. *)
LEMMA LinkTypes ==
  ASSUME TypeOK, NEW n \in Slaves, LinkStep(n) \/ Sever(n) PROVE TypeOK'
<1>0. n \in Nodes /\ BatchMsgs \subseteq Messages
  BY DEF Slaves, Messages
<1>1. CASE Connect(n)
  BY <1>0, <1>1 DEF Connect, upstreamVars, TypeOK, Links
<1>2. CASE HandleSync(n)
  <2> DEFINE m == Upstream[n]
             msg == [tag |-> "SNAPSHOT", off |-> offset[m], items |-> SnapshotItems(store[m])]
  <2>1. m \in Nodes
    BY <1>0
  <2>2. msg \in Messages
    BY <2>1, SnapshotType DEF TypeOK, Messages, SnapshotMsgs
  <2>3. wire' \in [Nodes -> Seq(Messages)]
    <3>1. <<msg>> \in Seq(Messages)
      BY <2>2
    <3>2. wire' = [wire EXCEPT ![n] = <<msg>>]
      BY <1>2 DEF HandleSync
    <3> HIDE DEF msg
    <3> QED BY <3>1, <3>2 DEF TypeOK
  <2>4. queue' \in [Nodes -> Seq(BatchMsgs)]
    BY <1>2, EmptySeqs DEF HandleSync, TypeOK
  <2>5. link' \in [Nodes -> Links]
    BY <1>2 DEF HandleSync, TypeOK, Links
  <2> QED BY <1>2, <2>3, <2>4, <2>5 DEF HandleSync, TypeOK
<1>3. CASE StreamBatch(n)
  <2>1. queue[n] \in Seq(BatchMsgs) /\ queue[n] # << >> /\ wire[n] \in Seq(Messages)
    BY <1>0, <1>3 DEF StreamBatch, TypeOK
  <2>2. Head(queue[n]) \in Messages /\ Tail(queue[n]) \in Seq(BatchMsgs)
    BY <1>0, <2>1, HeadTailProperties
  <2>3. Append(wire[n], Head(queue[n])) \in Seq(Messages)
    BY <2>1, <2>2, AppendProperties
  <2>4. wire' \in [Nodes -> Seq(Messages)] /\ queue' \in [Nodes -> Seq(BatchMsgs)]
    BY <1>3, <2>2, <2>3 DEF StreamBatch, TypeOK
  <2> QED BY <1>3, <2>4 DEF StreamBatch, TypeOK
<1>4. CASE ReadHeader(n)
  <2>1. wire[n] \in Seq(Messages) /\ wire[n] # << >>
    BY <1>0, <1>4 DEF ReadHeader, TypeOK
  <2>2. Head(wire[n]) \in Messages /\ Tail(wire[n]) \in Seq(Messages)
    BY <2>1, HeadTailProperties
  <2>3. Head(wire[n]).off \in Nat
    BY <2>2 DEF Messages, SnapshotMsgs, BatchMsgs
  <2>4. wire' \in [Nodes -> Seq(Messages)] /\ reading' \in [Nodes -> Seq(Messages)]
    <3>1. <<Head(wire[n])>> \in Seq(Messages)
      BY <2>2
    <3> QED BY <1>4, <2>2, <3>1 DEF ReadHeader, TypeOK
  <2>5. seen' \in [Nodes -> Nat]
    BY <1>0, <1>4, <2>3 DEF ReadHeader, TypeOK
  <2> QED BY <1>4, <2>4, <2>5 DEF ReadHeader, upstreamVars, TypeOK
<1>5. CASE LoadSnapshot(n)
  <2>1. reading[n] \in Seq(Messages) /\ reading[n] # << >>
    BY <1>0, <1>5 DEF LoadSnapshot, TypeOK
  <2>2. reading[n][1] \in Messages /\ reading[n][1].tag = "SNAPSHOT"
    BY <1>5, <2>1 DEF LoadSnapshot
  <2>3. reading[n][1].off \in Nat /\ reading[n][1].items \in Items
    BY <2>2 DEF Messages, SnapshotMsgs, BatchMsgs
  <2>4. store' \in [Nodes -> Stores]
    BY <1>0, <1>5, <2>3, SnapshotType, StoreType DEF LoadSnapshot
  <2>5. /\ applied' \in [Nodes -> Nat] /\ seen' \in [Nodes -> Nat]
        /\ synced' \in [Nodes -> BOOLEAN] /\ reading' \in [Nodes -> Seq(Messages)]
    BY <1>0, <1>5, <2>3, SMTT(30) DEF LoadSnapshot, TypeOK
  <2> QED BY <1>5, <2>4, <2>5 DEF LoadSnapshot, upstreamVars, TypeOK
<1>6. CASE ApplyBatch(n)
  <2>1. reading[n] \in Seq(Messages) /\ reading[n] # << >>
    BY <1>0, <1>6 DEF ApplyBatch, TypeOK
  <2>2. reading[n][1] \in Messages /\ reading[n][1].tag = "BATCH"
    BY <1>6, <2>1 DEF ApplyBatch
  <2>3. reading[n][1].off \in Nat /\ reading[n][1].effects \in Batches
    BY <2>2 DEF Messages, SnapshotMsgs, BatchMsgs
  <2>4. ApplyAll(store[n], reading[n][1].effects) \in Stores
    BY <1>0, <2>3, ApplyAllType DEF TypeOK
  <2>5. store' \in [Nodes -> Stores]
    BY <1>0, <1>6, <2>4 DEF ApplyBatch, TypeOK
  <2>6. applied' \in [Nodes -> Nat] /\ reading' \in [Nodes -> Seq(Messages)]
    BY <1>6, <2>3, EmptySeqs DEF ApplyBatch, TypeOK
  <2> QED BY <1>6, <2>5, <2>6 DEF ApplyBatch, upstreamVars, TypeOK
<1>7. CASE Sever(n)
  <2>1. link' \in [Nodes -> Links] /\ wire' \in [Nodes -> Seq(Messages)]
    BY <1>0, <1>7, SeverKeeps
  <2>2. queue' \in [Nodes -> Seq(BatchMsgs)]
    BY <1>7, EmptySeqs DEF Sever, TypeOK
  <2>3. faults' \in 0 .. MaxFaults
    BY <1>7 DEF Sever, TypeOK
  <2> QED BY <1>7, <2>1, <2>2, <2>3 DEF Sever, TypeOK
<1> QED BY <1>1, <1>2, <1>3, <1>4, <1>5, <1>6, <1>7 DEF LinkStep

(* Ends of connections and changes of role. *)
LEMMA HangUpType ==
  ASSUME TypeOK, NEW n \in Nodes, HangUp(n)
  PROVE  /\ link' \in [Nodes -> Links] /\ queue' \in [Nodes -> Seq(BatchMsgs)]
         /\ wire' \in [Nodes -> Seq(Messages)] /\ reading' \in [Nodes -> Seq(Messages)]
BY DEF TypeOK, HangUp, Links

LEMMA FaultTypes ==
  ASSUME TypeOK, NEW n \in Nodes,
         Disconnect(n) \/ ReadTornLine(n) \/ Promote(n) \/ StopClient(n) \/ Restart(n)
  PROVE  TypeOK'
<1>1. CASE Disconnect(n)
  <2>1. faults' \in 0 .. MaxFaults
    BY <1>1, SMTT(30) DEF Disconnect, TypeOK
  <2>2. synced' \in [Nodes -> BOOLEAN]
    BY <1>1 DEF Disconnect, TypeOK
  <2> QED BY <1>1, <2>1, <2>2, HangUpType DEF Disconnect, TypeOK
<1>2. CASE Promote(n)
  BY <1>2 DEF Promote, upstreamVars, replicaVars, TypeOK
<1>3. CASE StopClient(n)
  BY <1>3, HangUpType DEF StopClient, TypeOK
<1>4. CASE Restart(n)
  <2>1. store' \in [Nodes -> Stores]
    BY <1>4 DEF Restart, TypeOK, Stores
  <2>2. /\ role' \in [Nodes -> {"master", "slave"}] /\ offset' \in [Nodes -> Nat]
        /\ client' \in [Nodes -> BOOLEAN] /\ faults' \in 0 .. MaxFaults
    <3>1. /\ role' = [role EXCEPT ![n] = IF n = Primary THEN "master" ELSE "slave"]
          /\ offset' = [offset EXCEPT ![n] = 0]
          /\ client' = [client EXCEPT ![n] = n # Primary]
          /\ faults < MaxFaults /\ faults' = faults + 1
      BY <1>4 DEF Restart
    <3> QED BY <3>1, BoundsAssumption DEF TypeOK
  <2>3. /\ queue' \in [Nodes -> Seq(BatchMsgs)] /\ reading' \in [Nodes -> Seq(Messages)]
        /\ applied' \in [Nodes -> Nat] /\ seen' \in [Nodes -> Nat]
        /\ synced' \in [Nodes -> BOOLEAN]
    BY <1>4, EmptySeqs DEF Restart, TypeOK
  <2>4. link' \in [Nodes -> Links] /\ wire' \in [Nodes -> Seq(Messages)]
    BY <1>4, RestartKeeps
  <2> QED BY <1>4, <2>1, <2>2, <2>3, <2>4 DEF Restart, TypeOK
<1>5. CASE ReadTornLine(n)
  BY <1>5, EmptySeqs DEF ReadTornLine, TypeOK
<1> QED BY <1>1, <1>2, <1>3, <1>4, <1>5

(* Every variable keeps its type: stores hold entries, queues hold batches *)
(* of one or two effects, offsets are natural numbers.                     *)
THEOREM TypeCorrect == Spec => []TypeOK
<1>1. Init => TypeOK
  BY DEF Init, TypeOK, Stores, Links
<1>2. TypeOK /\ [Next]_vars => TypeOK'
  <2> SUFFICES ASSUME TypeOK, [Next]_vars PROVE TypeOK'
    OBVIOUS
  <2>1. CASE UNCHANGED vars
    BY <2>1 DEF vars, TypeOK
  <2>2. CASE Tick
    BY <2>2 DEF Tick, upstreamVars, replicaVars, TypeOK
  <2>3. ASSUME NEW n \in Nodes, ClientStep(n) \/ ExpireStep(n) \/ Restart(n) PROVE TypeOK'
    BY <2>3, ClientTypes, ExpireTypes, FaultTypes DEF ExpireStep
  <2>4. ASSUME NEW n \in Slaves,
               \/ LinkStep(n) \/ Sever(n) \/ Disconnect(n) \/ ReadTornLine(n)
               \/ Promote(n) \/ StopClient(n)
        PROVE  TypeOK'
    BY <2>4, LinkTypes, FaultTypes DEF Slaves
  <2> QED BY <2>1, <2>2, <2>3, <2>4 DEF Next
<1> QED BY <1>1, <1>2, PTL DEF Spec

-----------------------------------------------------------------------------
(* The splice of snapshot and stream. *)

(* s is the pending messages r, w, q of a replica, index by index. *)
IsJoin(s, r, w, q) ==
  /\ s \in Seq(Messages)
  /\ Len(r) \in Nat /\ Len(w) \in Nat /\ Len(q) \in Nat
  /\ Len(s) = Len(r) + Len(w) + Len(q)
  /\ \A i \in 1 .. Len(s) :
       s[i] = IF i <= Len(r) THEN r[i]
              ELSE IF i <= Len(r) + Len(w) THEN w[i - Len(r)]
              ELSE q[i - Len(r) - Len(w)]

LEMMA Joined ==
  ASSUME NEW r \in Seq(Messages), NEW w \in Seq(Messages), NEW q \in Seq(Messages)
  PROVE  IsJoin(r \o w \o q, r, w, q)
<1> DEFINE rw == r \o w
           s == rw \o q
<1>1. /\ rw \in Seq(Messages) /\ Len(rw) = Len(r) + Len(w)
      /\ \A i \in 1 .. Len(r) + Len(w) :
           rw[i] = IF i <= Len(r) THEN r[i] ELSE w[i - Len(r)]
  BY ConcatProperties
<1>2. /\ s \in Seq(Messages) /\ Len(s) = Len(rw) + Len(q)
      /\ \A i \in 1 .. Len(rw) + Len(q) :
           s[i] = IF i <= Len(rw) THEN rw[i] ELSE q[i - Len(rw)]
  BY <1>1, ConcatProperties
<1>3. Len(r) \in Nat /\ Len(w) \in Nat /\ Len(q) \in Nat
  BY LenProperties
<1> HIDE DEF rw, s
<1>4. IsJoin(s, r, w, q)
  BY <1>1, <1>2, <1>3 DEF IsJoin
<1> QED BY <1>4 DEF s, rw

LEMMA NoCells == << >> \in Seq(Messages) /\ Len(<< >>) = 0
OBVIOUS

(* Reading a header, or writing a batch, moves a message along its way. *)
LEMMA HeaderMoves ==
  ASSUME NEW w \in Seq(Messages), NEW q \in Seq(Messages), w # << >>
  PROVE  <<Head(w)>> \o Tail(w) \o q = << >> \o w \o q
<1> DEFINE h == <<Head(w)>>
           t == Tail(w)
           before == << >> \o w \o q
           after == h \o t \o q
<1>1. /\ h \in Seq(Messages) /\ Len(h) = 1 /\ h[1] = w[1]
      /\ t \in Seq(Messages) /\ Len(t) = Len(w) - 1
      /\ \A i \in 1 .. Len(w) - 1 : t[i] = w[i + 1]
      /\ Len(w) \in Nat /\ Len(w) > 0
  BY HeadTailProperties
<1>2. IsJoin(before, << >>, w, q) /\ IsJoin(after, h, t, q)
  BY <1>1, NoCells, Joined
<1> HIDE DEF h, t, before, after
<1>3. Len(before) = Len(after) /\ Len(before) \in Nat
  BY <1>1, <1>2, NoCells DEF IsJoin
<1>4. ASSUME NEW i \in 1 .. Len(before) PROVE before[i] = after[i]
  <2>1. before[i] = IF i <= Len(w) THEN w[i] ELSE q[i - Len(w)]
    BY <1>1, <1>2, NoCells DEF IsJoin
  <2>2. after[i] = IF i <= 1 THEN h[i] ELSE IF i <= Len(w) THEN t[i - 1] ELSE q[i - Len(w)]
    BY <1>1, <1>2, <1>3 DEF IsJoin
  <2> QED BY <1>1, <1>3, <2>1, <2>2
<1>5. before = after
  BY <1>2, <1>3, <1>4, SeqEqual DEF IsJoin
<1> QED BY <1>5 DEF before, after, h, t

LEMMA BatchMoves ==
  ASSUME NEW r \in Seq(Messages), NEW w \in Seq(Messages), NEW q \in Seq(Messages),
         q # << >>
  PROVE  r \o Append(w, Head(q)) \o Tail(q) = r \o w \o q
<1> DEFINE w1 == Append(w, Head(q))
           t == Tail(q)
           before == r \o w \o q
           after == r \o w1 \o t
<1>1. /\ t \in Seq(Messages) /\ Len(t) = Len(q) - 1
      /\ \A i \in 1 .. Len(q) - 1 : t[i] = q[i + 1]
      /\ Head(q) = q[1] /\ Head(q) \in Messages /\ Len(q) \in Nat /\ Len(q) > 0
  BY HeadTailProperties
<1>2. /\ w1 \in Seq(Messages) /\ Len(w1) = Len(w) + 1
      /\ \A i \in 1 .. Len(w) : w1[i] = w[i]
      /\ w1[Len(w) + 1] = q[1]
  BY <1>1, AppendProperties
<1>3. IsJoin(before, r, w, q) /\ IsJoin(after, r, w1, t)
  BY <1>1, <1>2, Joined
<1> HIDE DEF w1, t, before, after
<1>4. Len(before) = Len(after) /\ Len(before) \in Nat
  BY <1>1, <1>2, <1>3 DEF IsJoin
<1>5. ASSUME NEW i \in 1 .. Len(before) PROVE before[i] = after[i]
  <2>1. before[i] = IF i <= Len(r) THEN r[i]
                    ELSE IF i <= Len(r) + Len(w) THEN w[i - Len(r)]
                    ELSE q[i - Len(r) - Len(w)]
    BY <1>3 DEF IsJoin
  <2>2. after[i] = IF i <= Len(r) THEN r[i]
                   ELSE IF i <= Len(r) + Len(w1) THEN w1[i - Len(r)]
                   ELSE t[i - Len(r) - Len(w1)]
    BY <1>3, <1>4 DEF IsJoin
  <2>3. Len(r) \in Nat /\ Len(w) \in Nat /\ Len(before) = Len(r) + Len(w) + Len(q)
    BY <1>3 DEF IsJoin
  <2>4. CASE i <= Len(r) + Len(w)
    BY <1>2, <2>1, <2>2, <2>3, <2>4, SMTT(30)
  <2>5. CASE i = Len(r) + Len(w) + 1
    <3>1. before[i] = q[1]
      BY <2>1, <2>3, <2>5
    <3>2. after[i] = w1[Len(w) + 1]
      BY <1>2, <2>2, <2>3, <2>5
    <3> QED BY <1>2, <3>1, <3>2
  <2>6. CASE i > Len(r) + Len(w) + 1
    <3> DEFINE j == i - Len(r) - Len(w) - 1
    <3>1. j \in 1 .. Len(q) - 1
      BY <2>3, <2>6, <1>1
    <3>2. before[i] = q[j + 1]
      BY <2>1, <2>3, <2>6
    <3>3. after[i] = t[j]
      BY <1>2, <2>2, <2>3, <2>6
    <3> HIDE DEF j
    <3>4. t[j] = q[j + 1]
      BY <1>1, <3>1
    <3> QED BY <3>2, <3>3, <3>4
  <2>7. i \in Int /\ Len(r) + Len(w) \in Int
    BY <1>4, <2>3
  <2>8. \A a, b \in Int : a <= b \/ a = b + 1 \/ a > b + 1
    OBVIOUS
  <2>9. i <= Len(r) + Len(w) \/ i = Len(r) + Len(w) + 1 \/ i > Len(r) + Len(w) + 1
    BY ONLY <2>7, <2>8, Zenon
  <2> QED BY ONLY <2>4, <2>5, <2>6, <2>9, Zenon
<1>6. before = after
  BY <1>3, <1>4, <1>5, SeqEqual DEF IsJoin
<1> QED BY <1>6 DEF before, after, w1, t

(* New batches, numbered on from last, lead on to the new last. *)
LEMMA LeadsOn ==
  ASSUME NEW r \in Seq(Messages), NEW w \in Seq(Messages), NEW q \in Seq(BatchMsgs),
         NEW b \in Seq(BatchMsgs), NEW last \in Nat, NEW loaded \in BOOLEAN, NEW at \in Nat,
         Leads(r \o w \o q, last, loaded, at),
         \A i \in 1 .. Len(b) : b[i].off = last + i
  PROVE  Leads(r \o w \o (q \o b), last + Len(b), loaded, at)
<1> DEFINE qb == q \o b
           before == r \o w \o q
           after == r \o w \o qb
<1>1. BatchMsgs \subseteq Messages
  BY DEF Messages
<1>2. q \in Seq(Messages)
  BY <1>1
<1>3. /\ Len(q) \in Nat /\ Len(b) \in Nat
      /\ \A i \in 1 .. Len(b) : b[i].tag # "SNAPSHOT"
  <2>1. \A i \in 1 .. Len(b) : b[i] \in BatchMsgs
    BY ElementOfSeq
  <2> QED BY <2>1, LenProperties DEF BatchMsgs
<1>4. /\ qb \in Seq(BatchMsgs) /\ Len(qb) = Len(q) + Len(b)
      /\ \A i \in 1 .. Len(q) + Len(b) : qb[i] = IF i <= Len(q) THEN q[i] ELSE b[i - Len(q)]
  BY ConcatProperties
<1>5. qb \in Seq(Messages)
  BY <1>1, <1>4
<1>6. IsJoin(before, r, w, q) /\ IsJoin(after, r, w, qb)
  BY <1>2, <1>5, Joined
<1>7. Leads(before, last, loaded, at)
  OBVIOUS
<1> HIDE DEF qb, before, after
<1>8. Len(after) = Len(before) + Len(b) /\ Len(before) \in Nat
  BY <1>3, <1>4, <1>6 DEF IsJoin
<1>10. /\ Len(r) \in Nat /\ Len(w) \in Nat
       /\ Len(before) = Len(r) + Len(w) + Len(q)
  BY <1>6 DEF IsJoin
<1>9. ASSUME NEW i \in 1 .. Len(after)
      PROVE  /\ after[i].off = last + Len(b) - (Len(after) - i)
             /\ after[i].tag = "SNAPSHOT" <=> (i = 1 /\ ~ loaded)
  <2>1. CASE i <= Len(before)
    <3>1. after[i] = before[i]
      <4>1. before[i] = IF i <= Len(r) THEN r[i]
                        ELSE IF i <= Len(r) + Len(w) THEN w[i - Len(r)]
                        ELSE q[i - Len(r) - Len(w)]
        BY <1>6, <1>8, <2>1 DEF IsJoin
      <4>2. after[i] = IF i <= Len(r) THEN r[i]
                       ELSE IF i <= Len(r) + Len(w) THEN w[i - Len(r)]
                       ELSE qb[i - Len(r) - Len(w)]
        BY <1>6 DEF IsJoin
      <4>3. CASE i <= Len(r) + Len(w)
        BY <1>10, <4>1, <4>2, <4>3
      <4>4. CASE i > Len(r) + Len(w)
        <5> DEFINE j == i - Len(r) - Len(w)
        <5>1. j \in 1 .. Len(q)
          BY <1>3, <1>10, <2>1, <4>4
        <5>2. after[i] = qb[j] /\ before[i] = q[j]
          BY <1>10, <4>1, <4>2, <4>4
        <5> HIDE DEF j
        <5>3. qb[j] = q[j]
          BY <1>3, <1>4, <5>1
        <5> QED BY <5>2, <5>3
      <4> QED BY <1>10, <4>3, <4>4
    <3> QED BY <1>3, <1>7, <1>8, <2>1, <3>1 DEF Leads
  <2>2. CASE i > Len(before)
    <3>1. after[i] = b[i - Len(before)] /\ i - Len(before) \in 1 .. Len(b)
      <4> DEFINE j == i - Len(r) - Len(w)
      <4>1. after[i] = qb[j]
        BY <1>3, <1>6, <1>10, <2>2 DEF IsJoin
      <4>2. /\ j \in 1 .. Len(q) + Len(b) /\ j > Len(q)
            /\ j - Len(q) = i - Len(before) /\ i - Len(before) \in 1 .. Len(b)
        BY <1>3, <1>8, <1>10, <2>2
      <4> HIDE DEF j
      <4>3. qb[j] = b[j - Len(q)]
        BY <1>3, <1>4, <4>2
      <4> QED BY <4>1, <4>2, <4>3
    <3>2. i # 1 \/ loaded
      BY <1>7, <1>8, <2>2 DEF Leads
    <3> QED BY <1>3, <1>8, <2>2, <3>1, <3>2
  <2> QED BY <1>8, <2>1, <2>2
<1>11. /\ loaded => at = last + Len(b) - Len(after)
       /\ loaded \/ Len(after) > 0
  <2>1. /\ loaded => at = last - Len(before)
        /\ loaded \/ Len(before) > 0
    BY <1>7 DEF Leads
  <2>2. ASSUME loaded PROVE at = last + Len(b) - Len(after)
    <3>1. at = last - Len(before)
      BY ONLY <2>1, <2>2, Zenon
    <3>2. last - Len(before) = last + Len(b) - Len(after)
      BY <1>3, <1>8
    <3> QED BY ONLY <3>1, <3>2, Zenon
  <2>3. CASE ~ loaded
    BY <1>3, <1>8, <2>1, <2>3
  <2> QED BY <2>2, <2>3
<1>12. Leads(after, last + Len(b), loaded, at)
  BY <1>9, <1>11 DEF Leads
<1> QED BY <1>12 DEF after, qb

(* msg is what a replica may receive next: the snapshot it has not loaded  *)
(* yet, or the batch after the one it stands at.                           *)
Continues(msg, loaded, at) ==
  /\ loaded => msg.off = at + 1
  /\ msg.tag = "SNAPSHOT" <=> ~ loaded

(* Once the first pending message is applied, the replica stands at its    *)
(* offset and the rest leads on from there.                                *)
LEMMA LeadsAfterFirst ==
  ASSUME NEW r \in Seq(Messages), NEW w \in Seq(Messages), NEW q \in Seq(Messages),
         NEW last \in Nat, NEW loaded \in BOOLEAN, NEW at \in Nat,
         Len(r) = 1, Leads(r \o w \o q, last, loaded, at)
  PROVE  /\ Leads(<< >> \o w \o q, last, TRUE, r[1].off)
         /\ r[1].off <= last
         /\ Continues(r[1], loaded, at)
<1> DEFINE before == r \o w \o q
           after == << >> \o w \o q
<1>1. IsJoin(before, r, w, q) /\ IsJoin(after, << >>, w, q)
  BY NoCells, Joined
<1>2. Leads(before, last, loaded, at)
  OBVIOUS
<1> HIDE DEF before, after
<1>3. /\ Len(before) = Len(after) + 1 /\ Len(after) = Len(w) + Len(q)
      /\ Len(w) \in Nat /\ Len(q) \in Nat
      /\ before[1] = r[1]
  BY <1>1, NoCells DEF IsJoin
<1>7. ASSUME NEW i \in 1 .. Len(after) PROVE after[i] = before[i + 1]
  <2>1. i + 1 \in 1 .. Len(before)
    BY <1>3
  <2>2. after[i] = IF i <= Len(w) THEN w[i] ELSE q[i - Len(w)]
    BY <1>1, NoCells DEF IsJoin
  <2>3. before[i + 1] = IF i + 1 <= 1 THEN r[i + 1]
                        ELSE IF i + 1 <= 1 + Len(w) THEN w[i + 1 - 1]
                        ELSE q[i + 1 - 1 - Len(w)]
    BY <1>1, <2>1 DEF IsJoin
  <2> QED BY <1>3, <2>2, <2>3
<1>4. r[1].off = last - Len(after)
  <2>1. 1 \in 1 .. Len(before)
    BY <1>3
  <2>2. before[1].off = last - (Len(before) - 1)
    BY <1>2, <2>1 DEF Leads
  <2>3. last - (Len(before) - 1) = last - Len(after)
    BY <1>3
  <2> QED BY ONLY <1>3, <2>2, <2>3, Zenon
<1>5. Leads(after, last, TRUE, r[1].off)
  BY <1>2, <1>3, <1>4, <1>7 DEF Leads
<1>6. (loaded => r[1].off = at + 1) /\ (r[1].tag = "SNAPSHOT" <=> ~ loaded)
  BY <1>2, <1>3, <1>4 DEF Leads
<1>8. r[1].off <= last
  BY <1>3, <1>4
<1> QED BY <1>5, <1>6, <1>8 DEF after, Continues

LEMMA EmptyParts ==
  ASSUME NEW r \in Seq(Messages), NEW w \in Seq(Messages), NEW q \in Seq(Messages)
  PROVE  (r \o w \o q = << >>) <=> (r = << >> /\ w = << >> /\ q = << >>)
<1>1. IsJoin(r \o w \o q, r, w, q)
  BY Joined
<1>2. ASSUME r \o w \o q = << >> PROVE r = << >> /\ w = << >> /\ q = << >>
  <2>1. Len(r) = 0 /\ Len(w) = 0 /\ Len(q) = 0
    BY <1>1, <1>2, NoCells DEF IsJoin
  <2> QED BY <2>1, NoCells, SeqEqual
<1>3. ASSUME r = << >>, w = << >>, q = << >> PROVE r \o w \o q = << >>
  BY <1>3
<1> QED BY <1>2, <1>3

(* What the two invariants say of one replica. *)
Spliced(n) ==
  link[n] = "open" => Leads(Pending(n), offset[Upstream[n]], synced[n], applied[n])
Clean(n) ==
  /\ Len(reading[n]) <= 1
  /\ link[n] \in {"down", "requested"} =>
       Pending(n) = << >> /\ (client[n] => ~ synced[n])
  /\ client[n] \/ link[n] = "down" \/ (link[n] = "torn" /\ Pending(n) = << >>)

SpliceInv == TypeOK /\ StreamSpliced /\ ConnectionsStartClean

LEMMA OneByOne ==
  (StreamSpliced /\ ConnectionsStartClean) <=> (\A n \in Slaves : Spliced(n) /\ Clean(n))
BY DEF StreamSpliced, ConnectionsStartClean, Spliced, Clean

(* The queues of a replica, as sequences of messages. *)
LEMMA PendingType ==
  ASSUME TypeOK, NEW n \in Nodes
  PROVE  /\ reading[n] \in Seq(Messages) /\ wire[n] \in Seq(Messages)
         /\ queue[n] \in Seq(BatchMsgs) /\ queue[n] \in Seq(Messages)
         /\ applied[n] \in Nat /\ synced[n] \in BOOLEAN
         /\ Upstream[n] \in Nodes /\ offset[Upstream[n]] \in Nat
<1>1. BatchMsgs \subseteq Messages
  BY DEF Messages
<1> QED BY <1>1 DEF TypeOK

(* A step that leaves the replica, its connection and its upstream's offset alone. *)
LEMMA Untouched ==
  ASSUME NEW n \in Slaves, Spliced(n), Clean(n),
         link'[n] = link[n], reading'[n] = reading[n], wire'[n] = wire[n],
         queue'[n] = queue[n], synced'[n] = synced[n], applied'[n] = applied[n],
         client'[n] = client[n],
         offset'[Upstream[n]] = offset[Upstream[n]]
  PROVE  Spliced(n)' /\ Clean(n)'
BY DEF Spliced, Clean, Pending

(* append_batch, for a replica of the node that appends and for any other. *)
LEMMA AppendSpliced ==
  ASSUME TypeOK, NEW m \in Nodes, NEW effs \in Seq(Batches), AppendBatches(m, effs),
         UNCHANGED <<replicaVars, client>>, NEW n \in Slaves, Spliced(n), Clean(n)
  PROVE  Spliced(n)' /\ Clean(n)'
<1>0. n \in Nodes
  BY DEF Slaves
<1>1. /\ link' = link /\ reading' = reading /\ wire' = wire
      /\ synced' = synced /\ applied' = applied /\ client' = client
  BY DEF replicaVars
<1>2. CASE Upstream[n] # m
  <2>1. queue'[n] = queue[n] /\ offset'[Upstream[n]] = offset[Upstream[n]]
    BY <1>0, <1>2 DEF AppendBatches, TypeOK
  <2> QED BY <1>1, <2>1, Untouched
<1>3. CASE link[n] # "open"
  <2>1. queue'[n] = queue[n]
    BY <1>0, <1>3 DEF AppendBatches
  <2> QED BY <1>1, <1>3, <2>1 DEF Spliced, Clean, Pending
<1>4. CASE Upstream[n] = m /\ link[n] = "open"
  <2> DEFINE b == Numbered(m, effs)
  <2>1. queue'[n] = queue[n] \o b /\ offset'[m] = offset[m] + Len(b)
    BY <1>0, <1>4, NumberedType DEF AppendBatches, TypeOK
  <2>2. b \in Seq(BatchMsgs) /\ \A i \in 1 .. Len(b) : b[i].off = offset[m] + i
    BY NumberedType DEF Numbered
  <2>3. Leads(reading[n] \o wire[n] \o queue[n], offset[m], synced[n], applied[n])
    BY <1>4 DEF Spliced, Pending
  <2> HIDE DEF b
  <2>4. /\ reading[n] \in Seq(Messages) /\ wire[n] \in Seq(Messages)
        /\ queue[n] \in Seq(BatchMsgs) /\ offset[m] \in Nat
        /\ synced[n] \in BOOLEAN /\ applied[n] \in Nat
    BY <1>0, PendingType DEF TypeOK
  <2>5. Leads(reading[n] \o wire[n] \o (queue[n] \o b), offset[m] + Len(b),
              synced[n], applied[n])
    BY ONLY <2>2, <2>3, <2>4, LeadsOn, ZenonT(60)
  <2> QED BY <1>1, <1>4, <2>1, <2>5 DEF Spliced, Clean, Pending
<1> QED BY <1>2, <1>3, <1>4

(* The message a replica reads is what it may receive next. *)
LEMMA FirstPending ==
  ASSUME TypeOK, NEW n \in Slaves, Spliced(n), Clean(n), reading[n] # << >>
  PROVE  /\ link[n] \notin {"down", "requested"}
         /\ link[n] = "open" =>
              /\ Leads(<< >> \o wire[n] \o queue[n], offset[Upstream[n]], TRUE, reading[n][1].off)
              /\ reading[n][1].off <= offset[Upstream[n]]
              /\ Continues(reading[n][1], synced[n], applied[n])
<1> DEFINE r == reading[n]
           w == wire[n]
           q == queue[n]
           last == offset[Upstream[n]]
<1>1. /\ r \in Seq(Messages) /\ w \in Seq(Messages) /\ q \in Seq(Messages)
      /\ applied[n] \in Nat /\ synced[n] \in BOOLEAN /\ last \in Nat
  BY PendingType DEF Slaves
<1>2. Len(r) = 1
  <2>1. Len(r) <= 1 /\ Len(r) \in Nat
    BY <1>1, LenProperties DEF Clean
  <2>2. Len(r) # 0
    BY <1>1, NoCells, SeqEqual
  <2>3. \A c \in Nat : c <= 1 /\ c # 0 => c = 1
    OBVIOUS
  <2> QED BY ONLY <2>1, <2>2, <2>3, Zenon
<1>3. link[n] \notin {"down", "requested"}
  BY <1>1, EmptyParts DEF Clean, Pending
<1>4. ASSUME link[n] = "open"
      PROVE  /\ Leads(<< >> \o w \o q, last, TRUE, r[1].off)
             /\ r[1].off <= last
             /\ Continues(r[1], synced[n], applied[n])
  <2>1. Leads(r \o w \o q, last, synced[n], applied[n])
    BY <1>4 DEF Spliced, Pending
  <2> HIDE DEF r, w, q, last
  <2> QED BY ONLY <1>1, <1>2, <2>1, LeadsAfterFirst, ZenonT(60)
<1> QED BY <1>3, <1>4

(* The steps of the connection of n, seen from n. *)
LEMMA LinkSpliced ==
  ASSUME TypeOK, NEW n \in Slaves, Spliced(n), Clean(n), LinkStep(n) \/ Sever(n)
  PROVE  Spliced(n)' /\ Clean(n)'
<1>0. n \in Nodes
  BY DEF Slaves
<1> DEFINE r == reading[n]
           w == wire[n]
           q == queue[n]
           last == offset[Upstream[n]]
<1>a. /\ r \in Seq(Messages) /\ w \in Seq(Messages) /\ q \in Seq(Messages)
      /\ applied[n] \in Nat /\ synced[n] \in BOOLEAN /\ last \in Nat
  BY <1>0, PendingType
<1>b. client' = client
  BY DEF LinkStep, Connect, HandleSync, StreamBatch, ReadHeader, LoadSnapshot, ApplyBatch,
         Sever
<1>c. LoadSnapshot(n) \/ ApplyBatch(n) => client[n]
  BY DEF LoadSnapshot, ApplyBatch
<1>1. CASE Connect(n)
  BY <1>0, <1>b, <1>1 DEF Connect, upstreamVars, Spliced, Clean, Pending, TypeOK
<1>2. CASE HandleSync(n)
  <2> DEFINE msg == [tag |-> "SNAPSHOT", off |-> last, items |-> SnapshotItems(store[Upstream[n]])]
  <2>1. r = << >> /\ ~ synced[n] /\ client[n]
    BY <1>2, <1>a, EmptyParts DEF HandleSync, Clean, Pending
  <2>2. link'[n] = "open" /\ wire'[n] = <<msg>> /\ queue'[n] = << >>
    BY <1>0, <1>2 DEF HandleSync, TypeOK
  <2>3. reading' = reading /\ synced' = synced /\ applied' = applied /\ offset' = offset
    BY <1>2 DEF HandleSync
  <2>4. Pending(n)' = <<msg>>
    <3>1. \A x : << >> \o <<x>> \o << >> = <<x>>
      OBVIOUS
    <3>2. Pending(n)' = << >> \o <<msg>> \o << >>
      BY <2>1, <2>2, <2>3 DEF Pending
    <3> QED BY ONLY <3>1, <3>2, Zenon
  <2>5. Leads(<<msg>>, last, FALSE, applied[n])
    BY <1>a DEF Leads
  <2>6. ~ synced'[n]
    BY <2>1, <2>3
  <2>7. Leads(<<msg>>, last, synced[n], applied[n])
    BY <1>a, <2>1 DEF Leads
  <2>8. Len(reading'[n]) <= 1
    BY <2>1, <2>3
  <2> HIDE DEF msg
  <2> QED BY <1>b, <2>1, <2>2, <2>3, <2>4, <2>7, <2>8 DEF Spliced, Clean
<1>3. CASE StreamBatch(n)
  <2>1. q # << >> /\ wire'[n] = Append(w, Head(q)) /\ queue'[n] = Tail(q)
    BY <1>0, <1>3 DEF StreamBatch, TypeOK
  <2>2. UNCHANGED <<link, reading, synced, applied, offset>>
    BY <1>3 DEF StreamBatch
  <2>3. r \o Append(w, Head(q)) \o Tail(q) = r \o w \o q
    BY <1>a, <2>1, BatchMoves, ZenonT(60)
  <2>4. Pending(n)' = Pending(n)
    BY <2>1, <2>2, <2>3 DEF Pending
  <2> QED BY <1>b, <2>2, <2>4 DEF Spliced, Clean
<1>4. CASE ReadHeader(n)
  <2>1. /\ r = << >> /\ w # << >>
        /\ reading'[n] = <<Head(w)>> /\ wire'[n] = Tail(w)
    BY <1>0, <1>4 DEF ReadHeader, TypeOK
  <2>2. UNCHANGED <<link, queue, synced, applied, offset>>
    BY <1>4 DEF ReadHeader, upstreamVars
  <2>3. <<Head(w)>> \o Tail(w) \o q = << >> \o w \o q
    BY <1>a, <2>1, HeaderMoves
  <2>4. Pending(n)' = Pending(n)
    BY <2>1, <2>2, <2>3 DEF Pending
  <2>5. Len(reading'[n]) <= 1
    BY <2>1
  <2> QED BY <1>b, <2>2, <2>4, <2>5 DEF Spliced, Clean
<1>5. CASE LoadSnapshot(n) \/ ApplyBatch(n)
  <2>1. /\ r # << >> /\ reading'[n] = << >> /\ applied'[n] = r[1].off
        /\ UNCHANGED <<link, wire, queue, offset>>
    BY <1>0, <1>5 DEF LoadSnapshot, ApplyBatch, upstreamVars, TypeOK
  <2>2. link[n] \notin {"down", "requested"}
    BY <2>1, FirstPending
  <2>3. CASE link[n] # "open"
    <3>1. client'[n] /\ Len(reading'[n]) <= 1
      BY <1>b, <1>c, <1>5, <2>1, NoCells
    <3> QED BY <2>1, <2>2, <2>3, <3>1 DEF Spliced, Clean
  <2>4. CASE link[n] = "open"
    <3>2. /\ Leads(<< >> \o w \o q, last, TRUE, r[1].off)
          /\ Continues(r[1], synced[n], applied[n])
      BY <2>1, <2>4, FirstPending
    <3>3. synced'[n] = TRUE
      <4>1. CASE LoadSnapshot(n)
        BY <1>0, <4>1 DEF LoadSnapshot, TypeOK
      <4>2. CASE ApplyBatch(n)
        BY <1>a, <3>2, <4>2 DEF ApplyBatch, Continues
      <4> QED BY <1>5, <4>1, <4>2
    <3>4. Pending(n)' = << >> \o w \o q
      BY <2>1 DEF Pending
    <3>5. Spliced(n)'
      BY <2>1, <3>2, <3>3, <3>4 DEF Spliced
    <3> QED BY <1>b, <1>c, <2>1, <2>4, <3>5, NoCells DEF Clean
  <2> QED BY <2>3, <2>4
<1>6. CASE Sever(n)
  <2>1. link[n] = "open" /\ link'[n] \in {"severed", "torn"} /\ reading'[n] = reading[n]
    BY <1>0, <1>6, SeverKeeps DEF Sever
  <2> QED BY <1>b, <2>1 DEF Spliced, Clean
<1> QED BY <1>1, <1>2, <1>3, <1>4, <1>5, <1>6 DEF LinkStep

(* The connection of n ends, or its reader does; nothing of it is left. *)
LEMMA HangUpClears ==
  ASSUME TypeOK, NEW n \in Slaves, Disconnect(n) \/ ReadTornLine(n) \/ StopClient(n)
  PROVE  /\ queue'[n] = << >> /\ wire'[n] = << >> /\ reading'[n] = << >>
         /\ \/ link'[n] = "down" /\ (client'[n] => ~ synced'[n])
            \/ link[n] = "torn" /\ link'[n] = "torn"
<1>1. CASE Disconnect(n) \/ StopClient(n)
  BY <1>1 DEF Disconnect, StopClient, HangUp, Slaves, TypeOK
<1>2. CASE ReadTornLine(n)
  BY <1>2 DEF ReadTornLine, AtTear, Slaves, TypeOK
<1> QED BY <1>1, <1>2

LEMMA HangUpSpliced ==
  ASSUME TypeOK, NEW n \in Slaves, Disconnect(n) \/ ReadTornLine(n) \/ StopClient(n)
  PROVE  Spliced(n)' /\ Clean(n)'
<1>1. Pending(n)' = << >> /\ Len(reading'[n]) <= 1
  BY HangUpClears, NoCells DEF Pending
<1> QED BY <1>1, HangUpClears DEF Spliced, Clean

(* No connection of another replica takes part. *)
LEMMA OthersLinks ==
  ASSUME TypeOK, NEW m \in Slaves, LinkStep(m) \/ Sever(m), NEW n \in Slaves, n # m
  PROVE  /\ link'[n] = link[n] /\ reading'[n] = reading[n] /\ wire'[n] = wire[n]
         /\ queue'[n] = queue[n] /\ synced'[n] = synced[n] /\ applied'[n] = applied[n]
         /\ offset' = offset /\ client' = client
<1>1. CASE Connect(m)
  BY <1>1 DEF Slaves, TypeOK, Connect, upstreamVars
<1>2. CASE HandleSync(m)
  BY <1>2 DEF Slaves, TypeOK, HandleSync, upstreamVars
<1>3. CASE StreamBatch(m)
  BY <1>3 DEF Slaves, TypeOK, StreamBatch, upstreamVars
<1>4. CASE ReadHeader(m)
  BY <1>4 DEF Slaves, TypeOK, ReadHeader, upstreamVars
<1>5. CASE LoadSnapshot(m)
  BY <1>5 DEF Slaves, TypeOK, LoadSnapshot, upstreamVars
<1>6. CASE ApplyBatch(m)
  BY <1>6 DEF Slaves, TypeOK, ApplyBatch, upstreamVars
<1>7. CASE Sever(m)
  <2>1. link'[n] = link[n] /\ wire'[n] = wire[n]
    BY <1>7, SeverKeeps DEF Slaves
  <2> QED BY <1>7, <2>1 DEF Slaves, TypeOK, Sever
<1> QED BY <1>1, <1>2, <1>3, <1>4, <1>5, <1>6, <1>7 DEF LinkStep

LEMMA OthersHangUp ==
  ASSUME TypeOK, NEW m \in Slaves, Disconnect(m) \/ ReadTornLine(m) \/ StopClient(m),
         NEW n \in Slaves, n # m
  PROVE  /\ link'[n] = link[n] /\ reading'[n] = reading[n] /\ wire'[n] = wire[n]
         /\ queue'[n] = queue[n] /\ synced'[n] = synced[n] /\ applied'[n] = applied[n]
         /\ offset' = offset /\ client'[n] = client[n]
<1>1. CASE Disconnect(m)
  BY <1>1 DEF Slaves, TypeOK, Disconnect, HangUp
<1>2. CASE StopClient(m)
  BY <1>2 DEF Slaves, TypeOK, StopClient, HangUp
<1>3. CASE ReadTornLine(m)
  BY <1>3 DEF Slaves, TypeOK, ReadTornLine
<1> QED BY <1>1, <1>2, <1>3

(* A process restarts: n itself, its upstream, or another one. *)
LEMMA RestartSpliced ==
  ASSUME TypeOK, NEW m \in Nodes, Restart(m), NEW n \in Slaves, Spliced(n), Clean(n)
  PROVE  Spliced(n)' /\ Clean(n)'
<1>0. n \in Nodes
  BY DEF Slaves
<1>1. CASE n = m
  <2>1. /\ queue'[n] = << >> /\ reading'[n] = << >> /\ synced'[n] = FALSE
        /\ link'[n] = "down" /\ wire'[n] = << >>
    BY <1>0, <1>1, RestartKeeps DEF Restart, TypeOK
  <2> QED BY <2>1, NoCells DEF Spliced, Clean, Pending
<1>2. CASE n # m
  <2>1. /\ reading'[n] = reading[n] /\ synced'[n] = synced[n]
        /\ applied'[n] = applied[n] /\ client'[n] = client[n]
    BY <1>0, <1>2 DEF Restart, TypeOK
  <2>2. CASE Upstream[n] # m
    <3>1. /\ queue'[n] = queue[n] /\ offset'[Upstream[n]] = offset[Upstream[n]]
          /\ link'[n] = link[n] /\ wire'[n] = wire[n]
      BY <1>0, <1>2, <2>2, RestartKeeps DEF Restart, TypeOK
    <3> QED BY <2>1, <3>1, Untouched
  <2>3. CASE Upstream[n] = m
    <3>1. queue'[n] = << >>
      BY <1>0, <1>2, <2>3 DEF Restart, TypeOK
    <3>2. /\ link'[n] = CASE link[n] = "open" -> IF link'[n] = "torn" THEN "torn" ELSE "severed"
                          [] link[n] = "requested" -> "severed"
                          [] OTHER -> link[n]
          /\ \E i \in 0 .. Len(wire[n]) : wire'[n] = SubSeq(wire[n], 1, i)
      BY <1>0, <1>2, <2>3, RestartKeeps
    <3>3. Pending(n) = << >> => Pending(n)' = << >>
      <4> SUFFICES ASSUME Pending(n) = << >> PROVE Pending(n)' = << >>
        OBVIOUS
      <4>1. reading[n] = << >> /\ wire[n] = << >>
        BY <1>0, PendingType, EmptyParts DEF Pending
      <4>2. wire'[n] = << >>
        BY <3>2, <4>1, NoCells
      <4> QED BY <2>1, <3>1, <4>1, <4>2 DEF Pending
    <3>4. CASE link[n] \in {"open", "requested"}
      <4>1. client[n] /\ link'[n] \in {"severed", "torn"}
        BY <3>2, <3>4 DEF Clean
      <4> QED BY <2>1, <4>1 DEF Spliced, Clean
    <3>5. CASE link[n] \notin {"open", "requested"}
      <4>1. link'[n] = link[n]
        BY <3>2, <3>5
      <4> QED BY <2>1, <3>3, <3>5, <4>1 DEF Spliced, Clean
    <3> QED BY <3>4, <3>5
  <2> QED BY <2>2, <2>3
<1> QED BY <1>1, <1>2

(* Every batch a step of the master's clients, or of its expiry, appends. *)
LEMMA ClientAppends ==
  ASSUME TypeOK, NEW m \in Nodes, ClientStep(m) \/ ExpireStep(m)
  PROVE  /\ UNCHANGED <<replicaVars, client>>
         /\ \/ UNCHANGED upstreamVars
            \/ \E effs \in Seq(Batches) : AppendBatches(m, effs)
<1>1. ASSUME NEW k \in Keys, ClientDel(m, k)
      PROVE  UNCHANGED <<replicaVars, client>> /\ \E effs \in Seq(Batches) : AppendBatches(m, effs)
  BY <1>1, DelType, OneBatch DEF ClientDel
<1>2. ASSUME NEW k \in Keys, ClientGetExpired(m, k)
      PROVE  UNCHANGED <<replicaVars, client>> /\ UNCHANGED upstreamVars
  BY <1>2 DEF ClientGetExpired
<1>3. ASSUME NEW k \in Keys, NEW t \in DeadlinesNow, ClientExpire(m, k, t)
      PROVE  UNCHANGED <<replicaVars, client>> /\ \E effs \in Seq(Batches) : AppendBatches(m, effs)
  <2>1. t \in Nat
    BY DeadlinesNowType
  <2> QED BY <1>3, <2>1, ExpireType, OneBatch DEF ClientExpire
<1>4. ASSUME NEW k \in Keys, NEW v \in Values, NEW t \in DeadlinesNow \union {Never},
             ClientSet(m, k, v, t)
      PROVE  UNCHANGED <<replicaVars, client>> /\ \E effs \in Seq(Batches) : AppendBatches(m, effs)
  <2>1. SetEffect(k, v, t) \in Effects /\ \A lru \in Evictable(m, k) : DelEffect(lru) \in Effects
    BY DeadlinesNowType, SetType, DelType DEF Evictable, Present
  <2> QED BY <1>4, <2>1, OneBatch DEF ClientSet
<1>5. ASSUME NEW drawn \in SUBSET Keys, ActiveExpire(m, drawn)
      PROVE  UNCHANGED <<replicaVars, client>> /\ \E effs \in Seq(Batches) : AppendBatches(m, effs)
  BY <1>5, ExpiredBatches DEF ActiveExpire
<1> QED BY <1>1, <1>2, <1>3, <1>4, <1>5 DEF ClientStep, ExpireStep

(* The invariant of the stream is inductive together with the types. *)
THEOREM Splicing == Spec => []SpliceInv
<1>1. Init => SpliceInv
  <2> SUFFICES ASSUME Init PROVE SpliceInv
    OBVIOUS
  <2>1. \A n \in Slaves : Spliced(n) /\ Clean(n)
    BY NoCells DEF Init, Slaves, Spliced, Clean, Pending
  <2>2. TypeOK
    BY DEF Init, TypeOK, Stores, Links
  <2> QED BY <2>1, <2>2, OneByOne DEF SpliceInv
<1>2. SpliceInv /\ TypeOK' /\ [Next]_vars => SpliceInv'
  <2> SUFFICES ASSUME SpliceInv, TypeOK', [Next]_vars, NEW n \in Slaves
               PROVE  Spliced(n)' /\ Clean(n)'
    BY OneByOne DEF SpliceInv, StreamSpliced, ConnectionsStartClean, Spliced, Clean
  <2>1. TypeOK /\ Spliced(n) /\ Clean(n) /\ n \in Nodes /\ Upstream[n] \in Nodes
    BY OneByOne DEF SpliceInv, Slaves
  <2>2. CASE UNCHANGED <<upstreamVars, replicaVars, client>>
    BY <2>1, <2>2, Untouched DEF upstreamVars, replicaVars
  <2>3. ASSUME NEW m \in Nodes, ClientStep(m) \/ ExpireStep(m)
        PROVE  Spliced(n)' /\ Clean(n)'
    BY <2>1, <2>2, <2>3, ClientAppends, AppendSpliced
  <2>4. ASSUME NEW m \in Nodes, Restart(m) PROVE Spliced(n)' /\ Clean(n)'
    BY <2>1, <2>4, RestartSpliced
  <2>5. ASSUME NEW m \in Slaves, LinkStep(m) \/ Sever(m) PROVE Spliced(n)' /\ Clean(n)'
    BY <2>1, <2>5, LinkSpliced, OthersLinks, Untouched
  <2>6. ASSUME NEW m \in Slaves, Disconnect(m) \/ ReadTornLine(m) \/ StopClient(m)
        PROVE  Spliced(n)' /\ Clean(n)'
    BY <2>1, <2>6, HangUpSpliced, OthersHangUp, Untouched
  <2>7. ASSUME NEW m \in Slaves, Promote(m) PROVE UNCHANGED <<upstreamVars, replicaVars, client>>
    BY <2>7 DEF Promote
  <2>8. CASE Tick
    BY <2>2, <2>8 DEF Tick
  <2>9. CASE UNCHANGED vars
    BY <2>2, <2>9 DEF vars, upstreamVars, replicaVars
  <2> QED BY <2>2, <2>3, <2>4, <2>5, <2>6, <2>7, <2>8, <2>9 DEF Next
<1> QED BY <1>1, <1>2, TypeCorrect, PTL DEF Spec

(* A batch appended while a snapshot is sent or read is neither lost nor   *)
(* sent twice: what is pending always leads from the replica to its        *)
(* upstream's offset.                                                      *)
THEOREM NothingLostOrTwice == Spec => []StreamSpliced
<1>1. SpliceInv => StreamSpliced
  BY DEF SpliceInv
<1> QED BY <1>1, Splicing, PTL

(* No message, whole or half read, outlives its connection. *)
THEOREM CleanStarts == Spec => []ConnectionsStartClean
<1>1. SpliceInv => ConnectionsStartClean
  BY DEF SpliceInv
<1> QED BY <1>1, Splicing, PTL

-----------------------------------------------------------------------------
(* One batch at a time, also over what is left of a severed connection. *)

(* The messages msgs continue a replica that stands at the offset at: the  *)
(* batches after it, or a snapshot and the batches after that.             *)
Follows(msgs, loaded, at) ==
  \A i \in 1 .. Len(msgs) :
    /\ msgs[i].tag = "SNAPSHOT" <=> (i = 1 /\ ~ loaded)
    /\ msgs[i].off = IF loaded THEN at + i ELSE msgs[1].off + (i - 1)

LEMMA LeadsFollows ==
  ASSUME NEW msgs \in Seq(Messages), NEW last \in Nat, NEW loaded \in BOOLEAN, NEW at \in Nat,
         Leads(msgs, last, loaded, at)
  PROVE  Follows(msgs, loaded, at)
<1> DEFINE n == Len(msgs)
<1>1. n \in Nat
  OBVIOUS
<1>2. /\ \A i \in 1 .. n : /\ msgs[i].off = last - (n - i)
                           /\ msgs[i].tag = "SNAPSHOT" <=> (i = 1 /\ ~ loaded)
      /\ loaded => at = last - n
  BY DEF Leads
<1> HIDE DEF n
<1>3. ASSUME NEW i \in 1 .. n
      PROVE msgs[i].off = IF loaded THEN at + i ELSE msgs[1].off + (i - 1)
  <2>1. 1 \in 1 .. n
    BY <1>1
  <2>2. msgs[i].off = last - (n - i) /\ msgs[1].off = last - (n - 1)
    BY <1>2, <2>1
  <2>3. CASE loaded
    BY <1>1, <1>2, <2>2, <2>3
  <2>4. CASE ~ loaded
    BY <1>1, <2>2, <2>4
  <2> QED BY <2>3, <2>4
<1> QED BY <1>2, <1>3 DEF Follows, n

(* What a connection loses when it breaks is lost from the end. *)
LEMMA FollowsPart ==
  ASSUME NEW r \in Seq(Messages), NEW w \in Seq(Messages), NEW q \in Seq(Messages),
         NEW i \in 0 .. Len(w), NEW loaded, NEW at, Follows(r \o w \o q, loaded, at)
  PROVE  Follows(r \o SubSeq(w, 1, i) \o << >>, loaded, at)
<1> DEFINE before == r \o w \o q
           part == SubSeq(w, 1, i)
           after == r \o part \o << >>
<1>1. /\ part \in Seq(Messages) /\ Len(part) = i /\ i \in Nat
      /\ \A j \in 1 .. i : part[j] = w[j]
  OBVIOUS
<1> HIDE DEF part
<1>2. IsJoin(before, r, w, q) /\ IsJoin(after, r, part, << >>)
  BY <1>1, NoCells, Joined
<1>3. Follows(before, loaded, at)
  OBVIOUS
<1> HIDE DEF before, after
<1>4. /\ Len(after) = Len(r) + i /\ Len(before) >= Len(after) /\ Len(before) \in Nat
      /\ Len(r) \in Nat /\ Len(w) \in Nat /\ Len(q) \in Nat
  BY <1>1, <1>2, NoCells DEF IsJoin
<1>5. ASSUME NEW j \in 1 .. Len(after) PROVE after[j] = before[j] /\ j \in 1 .. Len(before)
  <2>1. j \in 1 .. Len(before)
    BY <1>4
  <2>2. after[j] = IF j <= Len(r) THEN r[j] ELSE part[j - Len(r)]
    BY <1>1, <1>2, <1>4 DEF IsJoin
  <2>3. before[j] = IF j <= Len(r) THEN r[j] ELSE w[j - Len(r)]
    BY <1>2, <1>4, <2>1 DEF IsJoin
  <2> QED BY <1>1, <1>4, <2>1, <2>2, <2>3
<1>6. ASSUME NEW j \in 1 .. Len(after) PROVE after[1] = before[1]
  <2>1. 1 \in 1 .. Len(after)
    BY <1>4
  <2> QED BY <1>5, <2>1
<1> QED BY <1>3, <1>5, <1>6 DEF Follows, after, part

LEMMA FollowsAfterFirst ==
  ASSUME NEW r \in Seq(Messages), NEW w \in Seq(Messages), NEW q \in Seq(Messages),
         NEW loaded \in BOOLEAN, NEW at \in Nat,
         Len(r) = 1, Follows(r \o w \o q, loaded, at)
  PROVE  /\ Follows(<< >> \o w \o q, TRUE, r[1].off)
         /\ Continues(r[1], loaded, at)
<1> DEFINE before == r \o w \o q
           after == << >> \o w \o q
<1>1. IsJoin(before, r, w, q) /\ IsJoin(after, << >>, w, q)
  BY NoCells, Joined
<1>2. Follows(before, loaded, at)
  OBVIOUS
<1> HIDE DEF before, after
<1>3. /\ Len(before) = Len(after) + 1 /\ Len(after) = Len(w) + Len(q)
      /\ Len(w) \in Nat /\ Len(q) \in Nat
      /\ before[1] = r[1] /\ r[1].off \in Nat
  <2>1. r[1] \in Messages
    <3>1. 1 \in 1 .. Len(r)
      OBVIOUS
    <3> QED BY <3>1, ElementOfSeq
  <2> QED BY <1>1, <2>1, NoCells DEF IsJoin, Messages, SnapshotMsgs, BatchMsgs
<1>4. ASSUME NEW i \in 1 .. Len(after) PROVE after[i] = before[i + 1]
  <2>1. i + 1 \in 1 .. Len(before)
    BY <1>3
  <2>2. after[i] = IF i <= Len(w) THEN w[i] ELSE q[i - Len(w)]
    BY <1>1, NoCells DEF IsJoin
  <2>3. before[i + 1] = IF i + 1 <= 1 THEN r[i + 1]
                        ELSE IF i + 1 <= 1 + Len(w) THEN w[i + 1 - 1]
                        ELSE q[i + 1 - 1 - Len(w)]
    BY <1>1, <2>1 DEF IsJoin
  <2> QED BY <1>3, <2>2, <2>3
<1>5. Continues(r[1], loaded, at)
  <2>1. 1 \in 1 .. Len(before)
    BY <1>3
  <2> QED BY <1>2, <1>3, <2>1 DEF Follows, Continues
<1>6. Follows(after, TRUE, r[1].off)
  <2>1. ASSUME NEW i \in 1 .. Len(after)
        PROVE after[i].tag # "SNAPSHOT" /\ after[i].off = r[1].off + i
    <3>1. i + 1 \in 1 .. Len(before) /\ i + 1 # 1
      BY <1>3
    <3>2. /\ before[i + 1].tag # "SNAPSHOT"
          /\ before[i + 1].off = IF loaded THEN at + (i + 1) ELSE r[1].off + i
      BY <1>2, <1>3, <3>1 DEF Follows
    <3>3. loaded => at + (i + 1) = r[1].off + i
      <4>1. at + (i + 1) = (at + 1) + i
        BY <1>3
      <4>2. loaded => r[1].off = at + 1
        BY <1>5 DEF Continues
      <4> QED BY ONLY <4>1, <4>2, Zenon
    <3> QED BY <1>4, <3>2, <3>3
  <2> QED BY <2>1 DEF Follows
<1> QED BY <1>5, <1>6 DEF after

LEMMA NothingFollows ==
  ASSUME NEW loaded, NEW at PROVE Follows(<< >>, loaded, at)
BY NoCells DEF Follows

(* What is left of a connection whose upstream's end is gone. *)
Aligned(n) == link[n] \in {"severed", "torn"} => Follows(Pending(n), synced[n], applied[n])

SeveredAligned == \A n \in Slaves : Aligned(n)
TurnInv == SpliceInv /\ SeveredAligned

LEMMA OpenFollows ==
  ASSUME TypeOK, NEW n \in Slaves, Spliced(n), Aligned(n), link[n] \in {"open", "severed", "torn"}
  PROVE  Follows(Pending(n), synced[n], applied[n])
<1>1. CASE link[n] \in {"severed", "torn"}
  BY <1>1 DEF Aligned
<1>2. CASE link[n] = "open"
  <2>1. Pending(n) \in Seq(Messages)
    BY PendingType DEF Pending, Slaves
  <2>2. /\ offset[Upstream[n]] \in Nat /\ applied[n] \in Nat /\ synced[n] \in BOOLEAN
        /\ Leads(Pending(n), offset[Upstream[n]], synced[n], applied[n])
    BY <1>2, PendingType DEF Slaves, Spliced
  <2> QED BY <2>1, <2>2, LeadsFollows
<1> QED BY <1>1, <1>2

(* The message a replica has read, on any connection. *)
LEMMA ReadInTurn ==
  ASSUME TypeOK, NEW n \in Slaves, Spliced(n), Clean(n), Aligned(n), reading[n] # << >>
  PROVE  /\ Follows(<< >> \o wire[n] \o queue[n], TRUE, reading[n][1].off)
         /\ Continues(reading[n][1], synced[n], applied[n])
<1> DEFINE r == reading[n]
           w == wire[n]
           q == queue[n]
<1>1. /\ r \in Seq(Messages) /\ w \in Seq(Messages) /\ q \in Seq(Messages)
      /\ applied[n] \in Nat /\ synced[n] \in BOOLEAN
  BY PendingType DEF Slaves
<1>2. Len(r) = 1
  <2>1. Len(r) <= 1 /\ Len(r) \in Nat
    BY <1>1, LenProperties DEF Clean
  <2>2. Len(r) # 0
    BY <1>1, NoCells, SeqEqual
  <2>3. \A c \in Nat : c <= 1 /\ c # 0 => c = 1
    OBVIOUS
  <2> QED BY ONLY <2>1, <2>2, <2>3, Zenon
<1>3. link[n] \in {"open", "severed", "torn"}
  BY FirstPending DEF TypeOK, Links, Slaves
<1>4. Follows(r \o w \o q, synced[n], applied[n])
  BY <1>3, OpenFollows DEF Pending
<1> HIDE DEF r, w, q
<1>5. Follows(<< >> \o w \o q, TRUE, r[1].off) /\ Continues(r[1], synced[n], applied[n])
  BY ONLY <1>1, <1>2, <1>4, FollowsAfterFirst, ZenonT(60)
<1> QED BY <1>5 DEF r, w, q

(* The first message on the wire, when none is half read. *)
LEMMA ArrivesInTurn ==
  ASSUME TypeOK, NEW n \in Slaves, Spliced(n), Clean(n), Aligned(n),
         reading[n] = << >>, wire[n] # << >>
  PROVE  Continues(Head(wire[n]), synced[n], applied[n])
<1> DEFINE w == wire[n]
           q == queue[n]
<1>1. /\ w \in Seq(Messages) /\ q \in Seq(Messages) /\ << >> \in Seq(Messages)
      /\ applied[n] \in Nat /\ synced[n] \in BOOLEAN
  BY PendingType, NoCells DEF Slaves
<1>2. link[n] \in {"open", "severed", "torn"}
  <2>1. Pending(n) # << >>
    BY <1>1, EmptyParts DEF Pending
  <2> QED BY <2>1 DEF Clean, TypeOK, Links, Slaves
<1>3. Follows(<< >> \o w \o q, synced[n], applied[n])
  BY <1>2, OpenFollows DEF Pending
<1>4. Follows(<<Head(w)>> \o Tail(w) \o q, synced[n], applied[n])
  BY <1>1, <1>3, HeaderMoves
<1>5. /\ <<Head(w)>> \in Seq(Messages) /\ Len(<<Head(w)>>) = 1 /\ <<Head(w)>>[1] = Head(w)
      /\ Tail(w) \in Seq(Messages)
  BY <1>1, HeadTailProperties
<1> HIDE DEF w, q
<1>6. Continues(<<Head(w)>>[1], synced[n], applied[n])
  BY ONLY <1>1, <1>4, <1>5, FollowsAfterFirst, ZenonT(60)
<1> QED BY <1>5, <1>6 DEF w

LEMMA LinkAligned ==
  ASSUME TypeOK, NEW n \in Slaves, Spliced(n), Clean(n), Aligned(n), LinkStep(n) \/ Sever(n)
  PROVE  Aligned(n)'
<1>0. n \in Nodes
  BY DEF Slaves
<1> DEFINE r == reading[n]
           w == wire[n]
           q == queue[n]
<1>a. /\ r \in Seq(Messages) /\ w \in Seq(Messages) /\ q \in Seq(Messages)
      /\ applied[n] \in Nat /\ synced[n] \in BOOLEAN
  BY <1>0, PendingType
<1>1. CASE Connect(n) \/ HandleSync(n) \/ StreamBatch(n)
  BY <1>0, <1>1 DEF Connect, HandleSync, StreamBatch, Aligned, TypeOK
<1>2. CASE ReadHeader(n)
  <2>1. /\ r = << >> /\ w # << >>
        /\ reading'[n] = <<Head(w)>> /\ wire'[n] = Tail(w)
    BY <1>0, <1>2 DEF ReadHeader, TypeOK
  <2>2. UNCHANGED <<link, queue, synced, applied>>
    BY <1>2 DEF ReadHeader, upstreamVars
  <2>3. <<Head(w)>> \o Tail(w) \o q = << >> \o w \o q
    BY <1>a, <2>1, HeaderMoves
  <2>4. Pending(n)' = Pending(n)
    BY <2>1, <2>2, <2>3 DEF Pending
  <2> QED BY <2>2, <2>4 DEF Aligned
<1>3. CASE LoadSnapshot(n) \/ ApplyBatch(n)
  <2>1. /\ r # << >> /\ reading'[n] = << >> /\ applied'[n] = r[1].off
        /\ UNCHANGED <<link, wire, queue>>
    BY <1>0, <1>3 DEF LoadSnapshot, ApplyBatch, upstreamVars, TypeOK
  <2>2. Follows(<< >> \o w \o q, TRUE, r[1].off) /\ Continues(r[1], synced[n], applied[n])
    BY <2>1, ReadInTurn
  <2>3. synced'[n] = TRUE
    <3>1. CASE LoadSnapshot(n)
      BY <1>0, <3>1 DEF LoadSnapshot, TypeOK
    <3>2. CASE ApplyBatch(n)
      BY <1>a, <2>2, <3>2 DEF ApplyBatch, Continues
    <3> QED BY <1>3, <3>1, <3>2
  <2>4. Pending(n)' = << >> \o w \o q
    BY <2>1 DEF Pending
  <2> QED BY <2>1, <2>2, <2>3, <2>4 DEF Aligned
<1>4. CASE Sever(n)
  <2>1. PICK i \in 0 .. Len(w) : wire'[n] = SubSeq(w, 1, i)
    BY <1>0, <1>4, SeverKeeps
  <2>2. queue'[n] = << >> /\ UNCHANGED <<reading, synced, applied>> /\ link[n] = "open"
    BY <1>0, <1>4 DEF Sever, TypeOK
  <2>3. Follows(r \o w \o q, synced[n], applied[n])
    BY <2>2, OpenFollows DEF Pending
  <2>4. Follows(r \o SubSeq(w, 1, i) \o << >>, synced[n], applied[n])
    <3> HIDE DEF r, w, q
    <3> QED BY ONLY <1>a, <2>3, i \in 0 .. Len(w), FollowsPart, ZenonT(60)
  <2> QED BY <2>1, <2>2, <2>4 DEF Aligned, Pending
<1> QED BY <1>1, <1>2, <1>3, <1>4 DEF LinkStep

LEMMA RestartAligned ==
  ASSUME TypeOK, NEW m \in Nodes, Restart(m), NEW n \in Slaves, Spliced(n), Clean(n), Aligned(n)
  PROVE  Aligned(n)'
<1>0. n \in Nodes
  BY DEF Slaves
<1>1. CASE n = m
  <2>1. link'[n] = "down"
    BY <1>0, <1>1, RestartKeeps
  <2> QED BY <2>1 DEF Aligned
<1>2. CASE n # m
  <2>1. reading'[n] = reading[n] /\ synced'[n] = synced[n] /\ applied'[n] = applied[n]
    BY <1>0, <1>2 DEF Restart, TypeOK
  <2>2. CASE Upstream[n] # m
    <3>1. link'[n] = link[n] /\ queue'[n] = queue[n] /\ wire'[n] = wire[n]
      BY <1>0, <1>2, <2>2, RestartKeeps DEF Restart, TypeOK
    <3> QED BY <2>1, <3>1 DEF Aligned, Pending
  <2>3. CASE Upstream[n] = m
    <3> DEFINE r == reading[n]
               w == wire[n]
               q == queue[n]
    <3>1. queue'[n] = << >>
      BY <1>0, <1>2, <2>3 DEF Restart, TypeOK
    <3>2. PICK i \in 0 .. Len(w) : wire'[n] = SubSeq(w, 1, i)
      BY <1>0, <1>2, <2>3, RestartKeeps
    <3>3. r \in Seq(Messages) /\ w \in Seq(Messages) /\ q \in Seq(Messages)
      BY <1>0, PendingType
    <3>4. Pending(n)' = r \o SubSeq(w, 1, i) \o << >>
      BY <2>1, <3>1, <3>2 DEF Pending
    <3>5. CASE link[n] \in {"open", "severed", "torn"}
      <4>1. Follows(r \o w \o q, synced[n], applied[n])
        BY <3>5, OpenFollows DEF Pending
      <4>2. Follows(r \o SubSeq(w, 1, i) \o << >>, synced[n], applied[n])
        <5> HIDE DEF r, w, q
        <5> QED BY ONLY <3>3, <4>1, i \in 0 .. Len(w), FollowsPart, ZenonT(60)
      <4> QED BY <2>1, <3>4, <4>2 DEF Aligned
    <3>6. CASE link[n] \in {"down", "requested"}
      <4>1. r = << >> /\ w = << >>
        BY <3>3, <3>6, EmptyParts DEF Clean, Pending
      <4>2. Pending(n)' = << >>
        BY <3>2, <3>4, <4>1, NoCells
      <4> QED BY <4>2, NothingFollows DEF Aligned
    <3> QED BY <1>0, <3>5, <3>6 DEF TypeOK, Links
  <2> QED BY <2>2, <2>3
<1> QED BY <1>1, <1>2

(* Also what is left of a severed connection goes on where the replica     *)
(* stands: the invariant of AppliesBatchesInTurn.                          *)
THEOREM TurnsKept == Spec => []TurnInv
<1>1. Init => SeveredAligned
  BY DEF Init, Slaves, Aligned, SeveredAligned
<1>2. TurnInv /\ [Next]_vars => SeveredAligned'
  <2> SUFFICES ASSUME TurnInv, [Next]_vars, NEW n \in Slaves PROVE Aligned(n)'
    BY DEF SeveredAligned
  <2>1. TypeOK /\ Spliced(n) /\ Clean(n) /\ Aligned(n) /\ n \in Nodes
    BY OneByOne DEF TurnInv, SpliceInv, SeveredAligned, Slaves
  <2>2. ASSUME link'[n] = link[n], reading'[n] = reading[n], wire'[n] = wire[n],
               queue'[n] = queue[n], synced'[n] = synced[n], applied'[n] = applied[n]
        PROVE  Aligned(n)'
    BY <2>1, <2>2 DEF Aligned, Pending
  <2>3. ASSUME NEW m \in Nodes, ClientStep(m) \/ ExpireStep(m) PROVE Aligned(n)'
    <3>1. /\ UNCHANGED replicaVars
          /\ UNCHANGED upstreamVars \/ \E effs \in Seq(Batches) : AppendBatches(m, effs)
      BY <2>1, <2>3, ClientAppends
    <3>2. link[n] \in {"severed", "torn"} => queue'[n] = queue[n]
      BY <2>1, <3>1 DEF AppendBatches, upstreamVars
    <3> QED BY <2>1, <3>1, <3>2 DEF replicaVars, Aligned, Pending
  <2>4. ASSUME NEW m \in Nodes, Restart(m) PROVE Aligned(n)'
    BY <2>1, <2>4, RestartAligned
  <2>5. ASSUME NEW m \in Slaves, LinkStep(m) \/ Sever(m) PROVE Aligned(n)'
    BY <2>1, <2>2, <2>5, LinkAligned, OthersLinks
  <2>6. ASSUME NEW m \in Slaves, Disconnect(m) \/ ReadTornLine(m) \/ StopClient(m)
        PROVE  Aligned(n)'
    <3>1. CASE m = n
      <4>1. Pending(n)' = << >>
        BY <2>1, <2>6, <3>1, HangUpClears, NoCells DEF Pending
      <4> QED BY <4>1, NothingFollows DEF Aligned
    <3>2. CASE m # n
      BY <2>1, <2>2, <2>6, <3>2, OthersHangUp
    <3> QED BY <3>1, <3>2
  <2>7. CASE UNCHANGED <<upstreamVars, replicaVars>>
    BY <2>2, <2>7 DEF upstreamVars, replicaVars
  <2>8. ASSUME NEW m \in Slaves, Promote(m) PROVE UNCHANGED <<upstreamVars, replicaVars>>
    BY <2>8 DEF Promote
  <2>9. CASE Tick \/ UNCHANGED vars
    BY <2>7, <2>9 DEF Tick, vars, upstreamVars, replicaVars
  <2> QED BY <2>3, <2>4, <2>5, <2>6, <2>7, <2>8, <2>9 DEF Next
<1> QED BY <1>1, <1>2, Splicing, PTL DEF Spec, TurnInv

(* A replica applies one batch after the other, also what is left of a     *)
(* connection that broke, or whose upstream is another process by now:     *)
(* what is pending continues it, wherever the connection broke.            *)
THEOREM BatchesInTurn == Spec => AppliesBatchesInTurn
<1> DEFINE InTurn == \A n \in Slaves : synced[n] /\ synced'[n] /\ applied'[n] # applied[n]
                                         => applied'[n] = applied[n] + 1
<1>1. TurnInv /\ [Next]_vars => [InTurn]_vars
  <2> SUFFICES ASSUME TurnInv, Next, NEW n \in Slaves,
                      synced[n], synced'[n], applied'[n] # applied[n]
               PROVE  applied'[n] = applied[n] + 1
    BY DEF vars
  <2>1. TypeOK /\ Spliced(n) /\ Clean(n) /\ Aligned(n) /\ n \in Nodes
    BY OneByOne DEF TurnInv, SpliceInv, SeveredAligned, Slaves
  <2>2. ASSUME NEW m \in Nodes, ClientStep(m) \/ ExpireStep(m) PROVE FALSE
    BY <2>1, <2>2, ClientAppends DEF replicaVars
  <2>3. ASSUME NEW m \in Nodes, Restart(m) PROVE FALSE
    BY <2>1, <2>3 DEF Restart, TypeOK
  <2>4. ASSUME NEW m \in Slaves, LinkStep(m) \/ Sever(m) PROVE applied'[n] = applied[n] + 1
    <3>1. m = n
      BY <2>1, <2>4, OthersLinks
    <3>2. LoadSnapshot(n) \/ ApplyBatch(n)
      BY <2>4, <3>1 DEF LinkStep, Connect, HandleSync, StreamBatch, ReadHeader, Sever
    <3>3. reading[n] # << >> /\ applied'[n] = reading[n][1].off
      BY <2>1, <3>2 DEF LoadSnapshot, ApplyBatch, TypeOK
    <3>4. Continues(reading[n][1], synced[n], applied[n])
      BY <2>1, <3>3, ReadInTurn
    <3> QED BY <3>3, <3>4 DEF Continues
  <2>5. ASSUME NEW m \in Slaves, Disconnect(m) \/ ReadTornLine(m) \/ StopClient(m) PROVE FALSE
    BY <2>5 DEF Disconnect, ReadTornLine, StopClient
  <2>6. ASSUME NEW m \in Slaves, Promote(m) PROVE FALSE
    BY <2>6 DEF Promote, replicaVars
  <2>7. CASE Tick
    BY <2>7 DEF Tick, replicaVars
  <2> QED BY <2>2, <2>3, <2>4, <2>5, <2>6, <2>7 DEF Next
<1> QED BY <1>1, TurnsKept, PTL DEF Spec, AppliesBatchesInTurn

-----------------------------------------------------------------------------
(* The lag of a replica. *)

(* Without faults no connection is severed or torn, and a replica that has *)
(* not loaded a snapshot has seen no batch.                                *)
LagOf(n) ==
  faults = 0 =>
    /\ link[n] \notin {"severed", "torn"}
    /\ role[n] = "slave" => seen[n] = IF synced[n] THEN applied[n] + Len(reading[n]) ELSE 0
Lags == \A n \in Slaves : LagOf(n)

LEMMA LinkLag ==
  ASSUME TypeOK, NEW n \in Slaves, Spliced(n), Clean(n), Aligned(n), LagOf(n),
         LinkStep(n) \/ Sever(n)
  PROVE  LagOf(n)'
<1>0. /\ n \in Nodes /\ applied[n] \in Nat /\ synced[n] \in BOOLEAN /\ seen[n] \in Nat
      /\ wire[n] \in Seq(Messages) /\ reading[n] \in Seq(Messages) /\ faults \in Nat
  BY BoundsAssumption DEF Slaves, TypeOK
<1>1. CASE Connect(n) \/ HandleSync(n) \/ StreamBatch(n)
  BY <1>0, <1>1 DEF Connect, HandleSync, StreamBatch, LagOf, TypeOK
<1>2. CASE Sever(n)
  BY <1>0, <1>2 DEF Sever, LagOf
<1>3. CASE ReadHeader(n)
  <2> DEFINE msg == Head(wire[n])
  <2>1. /\ reading[n] = << >> /\ wire[n] # << >> /\ reading'[n] = <<msg>>
        /\ seen'[n] = IF msg.tag = "BATCH" /\ msg.off > seen[n] THEN msg.off ELSE seen[n]
    BY <1>0, <1>3 DEF ReadHeader, TypeOK
  <2>2. UNCHANGED <<link, role, synced, applied, faults>>
    BY <1>3 DEF ReadHeader
  <2>3. Continues(msg, synced[n], applied[n])
    BY <2>1, ArrivesInTurn
  <2>4. msg.tag \in {"SNAPSHOT", "BATCH"}
    <3>1. msg \in Messages
      BY <1>0, <2>1, HeadTailProperties
    <3> QED BY <3>1 DEF Messages, SnapshotMsgs, BatchMsgs
  <2>5. Len(reading[n]) = 0 /\ Len(reading'[n]) = 1
    BY <2>1
  <2> HIDE DEF msg
  <2>6. CASE synced[n]
    BY <1>0, <2>1, <2>2, <2>3, <2>4, <2>5, <2>6 DEF LagOf, Continues
  <2>7. CASE ~ synced[n]
    BY <2>1, <2>2, <2>3, <2>7 DEF LagOf, Continues
  <2> QED BY <2>6, <2>7
<1>4. CASE LoadSnapshot(n) \/ ApplyBatch(n)
  <2> DEFINE msg == reading[n][1]
  <2>1. reading[n] # << >> /\ applied'[n] = msg.off /\ reading'[n] = << >>
    BY <1>0, <1>4 DEF LoadSnapshot, ApplyBatch, TypeOK
  <2>2. UNCHANGED <<link, role, faults>>
    BY <1>4 DEF LoadSnapshot, ApplyBatch
  <2>3. Continues(msg, synced[n], applied[n])
    BY <2>1, ReadInTurn
  <2>4. Len(reading[n]) = 1 /\ msg.off \in Nat
    <3>1. Len(reading[n]) # 0
      BY <1>0, <2>1, NoCells, SeqEqual
    <3>2. Len(reading[n]) = 1
      <4>1. Len(reading[n]) <= 1 /\ Len(reading[n]) \in Nat
        BY <1>0, LenProperties DEF Clean
      <4>2. \A c \in Nat : c <= 1 /\ c # 0 => c = 1
        OBVIOUS
      <4> QED BY ONLY <3>1, <4>1, <4>2, Zenon
    <3>3. msg \in Messages
      <4>1. 1 \in 1 .. Len(reading[n])
        BY <3>2
      <4> QED BY <1>0, <4>1, ElementOfSeq
    <3> QED BY <3>2, <3>3 DEF Messages, SnapshotMsgs, BatchMsgs
  <2>5. Len(reading'[n]) = 0
    BY <2>1
  <2> HIDE DEF msg
  <2>6. CASE LoadSnapshot(n)
    <3>1. msg.tag = "SNAPSHOT" /\ synced'[n] = TRUE
          /\ seen'[n] = IF msg.off > seen[n] THEN msg.off ELSE seen[n]
      BY <1>0, <2>6 DEF LoadSnapshot, TypeOK, msg
    <3>2. ~ synced[n]
      BY <2>3, <3>1 DEF Continues
    <3> QED BY <2>1, <2>2, <2>4, <2>5, <3>1, <3>2 DEF LagOf
  <2>7. CASE ApplyBatch(n)
    <3>1. msg.tag = "BATCH" /\ synced' = synced /\ seen' = seen
      BY <2>7 DEF ApplyBatch, msg
    <3>2. synced[n] /\ msg.off = applied[n] + 1
      BY <2>3, <3>1 DEF Continues
    <3> QED BY <1>0, <2>1, <2>2, <2>4, <2>5, <3>1, <3>2 DEF LagOf
  <2> QED BY <1>4, <2>6, <2>7
<1> QED BY <1>1, <1>2, <1>3, <1>4 DEF LinkStep

(* The lag a replica exports is the batch it has read the header of, and   *)
(* nothing else, as long as no connection and no process was lost.         *)
THEOREM LagCountsBacklog == Spec => []LagIsBacklog
<1>1. Init => Lags
  BY DEF Init, Slaves, Lags, LagOf
<1>2. TurnInv /\ Lags /\ [Next]_vars => Lags'
  <2> SUFFICES ASSUME TurnInv, Lags, [Next]_vars, NEW n \in Slaves PROVE LagOf(n)'
    BY DEF Lags
  <2>1. TypeOK /\ Spliced(n) /\ Clean(n) /\ Aligned(n) /\ LagOf(n) /\ n \in Nodes
    BY OneByOne DEF TurnInv, SpliceInv, SeveredAligned, Lags, Slaves
  <2>2. faults \in Nat
    BY <2>1, BoundsAssumption DEF TypeOK
  <2>3. ASSUME link'[n] = link[n], role'[n] = role[n], seen'[n] = seen[n],
               synced'[n] = synced[n], applied'[n] = applied[n], reading'[n] = reading[n],
               faults' = faults
        PROVE  LagOf(n)'
    BY <2>1, <2>3 DEF LagOf
  <2>4. ASSUME faults' # 0 PROVE LagOf(n)'
    BY <2>4 DEF LagOf
  <2>5. ASSUME NEW m \in Nodes, ClientStep(m) \/ ExpireStep(m) PROVE LagOf(n)'
    <3>1. UNCHANGED <<role, replicaVars, faults>>
      BY <2>5 DEF ClientStep, ClientDel, ClientGetExpired, ClientExpire, ClientSet,
                  ExpireStep, ActiveExpire
    <3> QED BY <2>3, <3>1 DEF replicaVars
  <2>6. ASSUME NEW m \in Nodes, Restart(m) PROVE LagOf(n)'
    BY <2>2, <2>4, <2>6 DEF Restart
  <2>7. ASSUME NEW m \in Slaves, LinkStep(m) \/ Sever(m) PROVE LagOf(n)'
    <3>1. CASE m = n
      BY <2>1, <2>7, <3>1, LinkLag
    <3>2. CASE m # n /\ Sever(m)
      BY <2>2, <2>4, <3>2 DEF Sever
    <3>3. CASE m # n /\ LinkStep(m)
      <4>1. /\ link'[n] = link[n] /\ reading'[n] = reading[n]
            /\ synced'[n] = synced[n] /\ applied'[n] = applied[n]
        BY <2>1, <3>3, OthersLinks
      <4>2. role' = role /\ faults' = faults /\ seen'[n] = seen[n]
        BY <2>1, <3>3 DEF LinkStep, Connect, HandleSync, StreamBatch, ReadHeader,
                          LoadSnapshot, ApplyBatch, TypeOK
      <4> QED BY <2>3, <4>1, <4>2
    <3> QED BY <2>7, <3>1, <3>2, <3>3
  <2>8. ASSUME NEW m \in Slaves, Disconnect(m) PROVE LagOf(n)'
    <3>1. link[m] \in {"severed", "torn"} => faults # 0
      BY DEF Lags, LagOf
    <3>2. faults' # 0
      BY <2>2, <2>8, <3>1 DEF Disconnect
    <3> QED BY <2>4, <3>2
  <2>12. ASSUME NEW m \in Slaves, ReadTornLine(m) PROVE LagOf(n)'
    <3>1. faults # 0 /\ faults' = faults
      BY <2>12 DEF ReadTornLine, AtTear, Lags, LagOf
    <3> QED BY <2>4, <3>1
  <2>9. ASSUME NEW m \in Slaves, StopClient(m) PROVE LagOf(n)'
    <3>1. UNCHANGED <<role, applied, seen, synced, faults>> /\ role[m] = "master"
      BY <2>9 DEF StopClient
    <3>2. CASE m = n
      <4>1. link'[n] = "down"
        BY <2>1, <2>9, <3>2 DEF StopClient, HangUp, TypeOK
      <4> QED BY <3>1, <3>2, <4>1 DEF LagOf
    <3>3. CASE m # n
      BY <2>1, <2>3, <2>9, <3>1, <3>3, OthersHangUp
    <3> QED BY <3>2, <3>3
  <2>10. ASSUME NEW m \in Slaves, Promote(m) PROVE LagOf(n)'
    <3>1. UNCHANGED <<replicaVars, faults>> /\ (role'[n] = "slave" => role[n] = "slave")
      BY <2>1, <2>10 DEF Promote, TypeOK
    <3> QED BY <2>1, <3>1 DEF replicaVars, LagOf
  <2>11. CASE Tick \/ UNCHANGED vars
    BY <2>3, <2>11 DEF Tick, vars, replicaVars
  <2> QED BY <2>5, <2>6, <2>7, <2>8, <2>9, <2>10, <2>11, <2>12 DEF Next
<1>3. Lags => LagIsBacklog
  BY DEF Lags, LagOf, LagIsBacklog
<1> QED BY <1>1, <1>2, <1>3, TurnsKept, PTL DEF Spec

-----------------------------------------------------------------------------
(* The refinement of LogShipping. *)

Positions == [n \in Followers |-> Position(n)]

(* One replica moves and the upstream's offset stands: the abstract steps  *)
(* of a replica.                                                           *)
LEMMA ReplicaMoves ==
  ASSUME NEW n \in Followers, offset' = offset,
         \A r \in Followers : r # n => Position(r)' = Position(r),
         \/ Position(n)' = Position(n)
         \/ Position(n)' = -1
         \/ Position(n) = -1 /\ Position(n)' \in 0 .. offset[Primary]
         \/ /\ Position(n) # -1 /\ Position(n) < offset[Primary]
            /\ Position(n)' = Position(n) + 1
  PROVE  [Log!Next]_(Log!vars)
<1>1. Positions' = [Positions EXCEPT ![n] = Position(n)']
  BY DEF Positions
<1>2. CASE Position(n)' = Position(n)
  <2>1. Positions' = Positions
    BY <1>2 DEF Positions
  <2> QED BY <2>1 DEF Log!vars, Positions
<1>3. CASE Position(n)' = -1
  <2>1. Log!Detach(n)
    BY <1>1, <1>3 DEF Log!Detach, Positions
  <2> QED BY <2>1 DEF Log!Next
<1>4. CASE Position(n) = -1 /\ Position(n)' \in 0 .. offset[Primary]
  <2>1. Log!Attach(n)
    BY <1>1, <1>4 DEF Log!Attach, Positions
  <2> QED BY <2>1 DEF Log!Next
<1>5. CASE /\ Position(n) # -1 /\ Position(n) < offset[Primary]
           /\ Position(n)' = Position(n) + 1
  <2>1. Log!Advance(n)
    BY <1>1, <1>5 DEF Log!Advance, Positions
  <2> QED BY <2>1 DEF Log!Next
<1> QED BY <1>2, <1>3, <1>4, <1>5

(* The position of n itself, in the steps of its connection. *)
LEMMA PositionMoves ==
  ASSUME SpliceInv, NEW n \in Followers,
         LinkStep(n) \/ Sever(n) \/ Disconnect(n) \/ ReadTornLine(n) \/ StopClient(n)
  PROVE  \/ Position(n)' = Position(n)
         \/ Position(n)' = -1
         \/ Position(n) = -1 /\ Position(n)' \in 0 .. offset[Primary]
         \/ /\ Position(n) # -1 /\ Position(n) < offset[Primary]
            /\ Position(n)' = Position(n) + 1
<1>0. TypeOK /\ Spliced(n) /\ Clean(n) /\ n \in Nodes /\ n \in Slaves /\ Upstream[n] = Primary
  BY OneByOne DEF SpliceInv, Followers, Slaves
<1>1. CASE Disconnect(n) \/ ReadTornLine(n) \/ StopClient(n) \/ Sever(n)
  <2>1. link'[n] # "open"
    BY <1>0, <1>1, HangUpClears, SeverKeeps
  <2> QED BY <2>1 DEF Position
<1>2. CASE StreamBatch(n) \/ ReadHeader(n)
  BY <1>2 DEF StreamBatch, ReadHeader, Position
<1>3. CASE Connect(n) \/ HandleSync(n)
  BY <1>0, <1>3 DEF Connect, HandleSync, Clean, Position, TypeOK
<1>4. CASE LoadSnapshot(n) \/ ApplyBatch(n)
  <2> DEFINE msg == reading[n][1]
  <2>1. /\ reading[n] # << >> /\ link' = link /\ applied'[n] = msg.off
        /\ LoadSnapshot(n) => msg.tag = "SNAPSHOT" /\ synced'[n] = TRUE
        /\ ApplyBatch(n) => msg.tag = "BATCH" /\ synced'[n] = synced[n]
    BY <1>0, <1>4 DEF LoadSnapshot, ApplyBatch, TypeOK
  <2>2. CASE link[n] # "open"
    BY <2>1, <2>2 DEF Position
  <2>3. CASE link[n] = "open"
    <3>1. msg.off <= offset[Primary] /\ Continues(msg, synced[n], applied[n])
      BY <1>0, <2>1, <2>3, FirstPending
    <3>2. msg.off \in Nat /\ applied[n] \in Nat /\ offset[Primary] \in Nat
      <4>1. msg \in Messages
        BY <1>0, <2>1, PendingType
      <4> QED BY <1>0, <4>1 DEF Messages, SnapshotMsgs, BatchMsgs, TypeOK
    <3>3. CASE LoadSnapshot(n)
      <4>1. Position(n) = -1 /\ Position(n)' = msg.off
        BY <2>1, <2>3, <3>1, <3>3 DEF Continues, Position
      <4>2. msg.off \in 0 .. offset[Primary]
        BY <3>1, <3>2
      <4> QED BY <4>1, <4>2
    <3>4. CASE ApplyBatch(n)
      <4>1. synced[n] /\ msg.off = applied[n] + 1
        BY <1>0, <2>1, <3>1, <3>4 DEF Continues, TypeOK
      <4>2. Position(n) = applied[n] /\ Position(n)' = applied[n] + 1
        BY <2>1, <2>3, <3>4, <4>1 DEF Position
      <4>3. applied[n] < offset[Primary] /\ applied[n] # -1
        BY <3>1, <3>2, <4>1
      <4> QED BY <4>2, <4>3
    <3> QED BY <1>4, <3>3, <3>4
  <2> QED BY <2>2, <2>3
<1> QED BY <1>1, <1>2, <1>3, <1>4 DEF LinkStep

(* Every step of the replication is one of the log, or none. *)
LEMMA StepShips ==
  ASSUME SpliceInv, [Next]_vars PROVE [Log!Next]_(Log!vars)
<1>0. TypeOK /\ Followers \subseteq Slaves /\ Slaves \subseteq Nodes
  BY DEF SpliceInv, Followers, Slaves
<1>1. CASE UNCHANGED replicaVars /\ offset'[Primary] = offset[Primary]
  <2>1. Positions' = Positions
    BY <1>1 DEF Positions, Position, replicaVars
  <2> QED BY <1>1, <2>1 DEF Log!vars, Positions
<1>2. ASSUME NEW m \in Nodes, ClientStep(m) \/ ExpireStep(m) PROVE [Log!Next]_(Log!vars)
  <2>1. UNCHANGED replicaVars
    BY <1>0, <1>2, ClientAppends
  <2>2. CASE UNCHANGED upstreamVars
    BY <1>1, <2>1, <2>2 DEF upstreamVars
  <2>3. ASSUME NEW effs \in Seq(Batches), AppendBatches(m, effs) PROVE [Log!Next]_(Log!vars)
    <3>1. offset'[Primary] = IF m = Primary THEN offset[Primary] + Len(effs) ELSE offset[Primary]
      BY <1>0, <2>3 DEF AppendBatches, TypeOK
    <3>2. Len(effs) \in Nat /\ offset[Primary] \in Nat
      BY <1>0, LenProperties DEF TypeOK
    <3>3. CASE offset'[Primary] = offset[Primary]
      BY <1>1, <2>1, <3>3
    <3>4. CASE offset'[Primary] > offset[Primary]
      <4>1. Positions' = Positions
        BY <2>1 DEF Positions, Position, replicaVars
      <4>2. Log!Commit
        BY <3>4, <4>1 DEF Log!Commit, Positions
      <4> QED BY <4>2 DEF Log!Next
    <3> QED BY <3>1, <3>2, <3>3, <3>4
  <2> QED BY <1>0, <1>2, <2>2, <2>3, ClientAppends
<1>3. ASSUME NEW n \in Slaves,
             LinkStep(n) \/ Sever(n) \/ Disconnect(n) \/ ReadTornLine(n) \/ StopClient(n)
      PROVE  [Log!Next]_(Log!vars)
  <2>1. offset' = offset
    BY <1>3 DEF LinkStep, Connect, HandleSync, StreamBatch, ReadHeader, LoadSnapshot,
                ApplyBatch, Sever, Disconnect, ReadTornLine, StopClient, upstreamVars
  <2>2. \A r \in Followers : r # n => Position(r)' = Position(r)
    <3>1. ASSUME NEW r \in Followers, r # n
          PROVE  link'[r] = link[r] /\ synced'[r] = synced[r] /\ applied'[r] = applied[r]
      <4>1. CASE LinkStep(n) \/ Sever(n)
        BY <1>0, <3>1, <4>1, OthersLinks
      <4>2. CASE Disconnect(n) \/ ReadTornLine(n) \/ StopClient(n)
        BY <1>0, <3>1, <4>2, OthersHangUp
      <4> QED BY <1>3, <4>1, <4>2
    <3> QED BY <3>1 DEF Position
  <2>3. CASE n \in Followers
    BY <1>3, <2>1, <2>2, <2>3, PositionMoves, ReplicaMoves
  <2>4. CASE n \notin Followers
    <3>1. Positions' = Positions
      BY <2>2, <2>4 DEF Positions
    <3> QED BY <2>1, <3>1 DEF Log!vars, Positions
  <2> QED BY <2>3, <2>4
<1>4. ASSUME NEW m \in Nodes, Restart(m) PROVE [Log!Next]_(Log!vars)
  <2>1. CASE m = Primary
    <3>1. \A r \in Followers : link'[r] # "open"
      BY <1>0, <1>4, <2>1, RestartKeeps DEF Followers, Slaves
    <3>2. Positions' = [r \in Followers |-> -1]
      BY <3>1 DEF Positions, Position
    <3>3. offset'[Primary] = 0
      BY <1>0, <1>4, <2>1 DEF Restart, TypeOK
    <3>4. Log!Restart
      BY <3>2, <3>3 DEF Log!Restart, Positions
    <3> QED BY <3>4 DEF Log!Next
  <2>2. CASE m # Primary
    <3>1. offset'[Primary] = offset[Primary]
      BY <1>0, <1>4, <2>2 DEF Restart, TypeOK
    <3>2. \A r \in Followers : Position(r)' = IF r = m THEN -1 ELSE Position(r)
      <4>1. \A r \in Followers : link'[r] = IF r = m THEN "down" ELSE link[r]
        BY <1>0, <1>4, <2>2, RestartKeeps DEF Followers, Slaves
      <4>2. \A r \in Followers : r # m => synced'[r] = synced[r] /\ applied'[r] = applied[r]
        BY <1>0, <1>4 DEF Restart, TypeOK
      <4> QED BY <4>1, <4>2 DEF Position
    <3>3. CASE m \in Followers
      <4>1. Positions' = [Positions EXCEPT ![m] = -1]
        BY <3>2, <3>3 DEF Positions
      <4>2. Log!Detach(m)
        BY <3>1, <4>1 DEF Log!Detach, Positions
      <4> QED BY <3>3, <4>2 DEF Log!Next
    <3>4. CASE m \notin Followers
      <4>1. Positions' = Positions
        BY <3>2, <3>4 DEF Positions
      <4> QED BY <3>1, <4>1 DEF Log!vars, Positions
    <3> QED BY <3>3, <3>4
  <2> QED BY <2>1, <2>2
<1>5. CASE Tick
  BY <1>1, <1>5 DEF Tick, upstreamVars
<1>6. ASSUME NEW n \in Slaves, Promote(n) PROVE [Log!Next]_(Log!vars)
  BY <1>1, <1>6 DEF Promote, upstreamVars
<1>7. CASE UNCHANGED vars
  BY <1>1, <1>7 DEF vars, replicaVars
<1> QED BY <1>2, <1>3, <1>4, <1>5, <1>6, <1>7 DEF Next

(* Replication implements the log: whatever fails or restarts, a replica   *)
(* of the primary attaches at a position the primary has reached and moves *)
(* on one batch at a time, never skipping one and never ahead of it.       *)
THEOREM ShipsCorrectly == Spec => ShipsTheLog
<1>1. Init => Log!Init
  BY DEF Init, Log!Init, Followers, Slaves, Position
<1>2. SpliceInv /\ [Next]_vars => [Log!Next]_(Log!vars)
  BY StepShips
<1> QED BY <1>1, <1>2, Splicing, PTL DEF Spec, ShipsTheLog, Log!Spec

-----------------------------------------------------------------------------
(* Convergence: the contents of a replica against its upstream's.  First   *)
(* the fold over pending messages, message by message.                     *)

DeliverAll(s, msgs) == FoldLeft(Deliver, s, msgs)

(* r is the run of a store through msgs. *)
IsRun(r, s, msgs) ==
  /\ r \in [0 .. Len(msgs) -> Stores]
  /\ r[0] = s
  /\ \A i \in 1 .. Len(msgs) : r[i] = Deliver(r[i - 1], msgs[i])

LEMMA DeliverType ==
  ASSUME NEW s \in Stores, NEW msg \in Messages PROVE Deliver(s, msg) \in Stores
<1>1. CASE msg \in SnapshotMsgs
  BY <1>1, SnapshotType DEF SnapshotMsgs, Deliver
<1>2. CASE msg \in BatchMsgs
  BY <1>2, ApplyAllType DEF BatchMsgs, Deliver
<1> QED BY <1>1, <1>2 DEF Messages

LEMMA RunExists ==
  ASSUME NEW s \in Stores, NEW msgs \in Seq(Messages)
  PROVE  \E r : IsRun(r, s, msgs) /\ DeliverAll(s, msgs) = r[Len(msgs)]
<1> DEFINE n == Len(msgs)
           step == [x \in Stores \X (1 .. n) |-> Deliver(x[1], msgs[x[2]])]
           Equation(g) ==
             g = [t \in SUBSET DOMAIN msgs |->
                    IF t = {} THEN s ELSE Deliver(g[t \ {Max(t)}], msgs[Max(t)])]
           iter == CHOOSE g : Equation(g)
<1>1. n \in Nat /\ DOMAIN msgs = 1 .. n /\ \A i \in 1 .. n : msgs[i] \in Messages
  OBVIOUS
<1>2. step \in [Stores \X (1 .. n) -> Stores]
  <2>1. ASSUME NEW x \in Stores \X (1 .. n) PROVE Deliver(x[1], msgs[x[2]]) \in Stores
    <3>1. x[1] \in Stores /\ x[2] \in 1 .. n /\ msgs[x[2]] \in Messages
      BY <1>1
    <3> QED BY <3>1, DeliverType
  <2> QED BY <2>1
<1>3. \E g : Equation(g)
  <2>1. PICK g : IsFold(g, Stores, s, step, n)
    <3> HIDE DEF step, n
    <3> QED BY <1>1, <1>2, FoldExists
  <2>2. ASSUME NEW t \in SUBSET (1 .. n), t # {}
        PROVE g[t] = Deliver(g[t \ {Max(t)}], msgs[Max(t)])
    <3>1. Greatest(t) \in 1 .. n
      BY <1>1, <2>2, GreatestOf
    <3>2. g[t \ {Greatest(t)}] \in Stores /\ g[t] = step[<<g[t \ {Greatest(t)}], Greatest(t)>>]
      BY <2>1, <2>2 DEF IsFold
    <3>3. <<g[t \ {Greatest(t)}], Greatest(t)>> \in Stores \X (1 .. n)
      BY <3>1, <3>2
    <3>4. Max(t) = Greatest(t)
      BY DEF Greatest, Max
    <3> HIDE DEF n
    <3> QED BY <3>2, <3>3, <3>4
  <2>3. g[{}] = s
    BY <2>1 DEF IsFold
  <2>4. g = [t \in SUBSET (1 .. n) |-> g[t]]
    BY <2>1 DEF IsFold
  <2>5. Equation(g)
    BY <1>1, <2>2, <2>3, <2>4
  <2> QED BY <2>5
<1>4. Equation(iter)
  <2> HIDE DEF Equation
  <2> QED BY <1>3
<1>5. DeliverAll(s, msgs) = iter[1 .. n]
  BY <1>1 DEF DeliverAll, FoldLeft, MapThenFoldSet
<1> HIDE DEF iter
<1>6. iter[1 .. 0] = s
  <2>1. 1 .. 0 = {}
    OBVIOUS
  <2> QED BY <1>4, <2>1
<1>7. ASSUME NEW i \in 1 .. n PROVE iter[1 .. i] = Deliver(iter[1 .. i - 1], msgs[i])
  <2>1. Max(1 .. i) = i /\ (1 .. i) \ {i} = 1 .. i - 1
    BY GreatestOfInterval DEF Greatest, Max
  <2>2. (1 .. i) \in SUBSET (DOMAIN msgs) /\ 1 .. i # {}
    <3>1. i \in 1 .. i /\ \A j \in 1 .. i : j \in 1 .. n
      BY <1>1
    <3> QED BY <1>1, <3>1
  <2> QED BY <1>4, <2>1, <2>2
<1> DEFINE r == [i \in 0 .. n |-> iter[1 .. i]]
           S == {i \in Nat : i <= n => iter[1 .. i] \in Stores}
<1>8. Nat \subseteq S
  <2>1. 0 \in S
    BY <1>6
  <2>2. ASSUME NEW i \in Nat, i \in S PROVE i + 1 \in S
    <3> SUFFICES ASSUME i + 1 <= n PROVE iter[1 .. i + 1] \in Stores
      OBVIOUS
    <3>1. i + 1 \in 1 .. n /\ (i + 1) - 1 = i /\ iter[1 .. i] \in Stores
      BY <1>1, <2>2
    <3> QED BY <1>1, <1>7, <3>1, DeliverType
  <2> HIDE DEF S
  <2> QED BY <2>1, <2>2, SetInduction
<1>9. IsRun(r, s, msgs)
  <2>1. r \in [0 .. n -> Stores]
    BY <1>1, <1>8
  <2>2. r[0] = s
    BY <1>1, <1>6
  <2>3. ASSUME NEW i \in 1 .. n PROVE i \in 0 .. n /\ i - 1 \in 0 .. n
    BY <1>1
  <2> QED BY <2>1, <2>2, <2>3, <1>7 DEF IsRun
<1>10. DeliverAll(s, msgs) = r[Len(msgs)]
  BY <1>1, <1>5
<1> QED BY <1>9, <1>10

(* There is one run: whatever goes from message to message as the store    *)
(* does ends where the fold does.                                          *)
LEMMA RunIsFold ==
  ASSUME NEW s \in Stores, NEW msgs \in Seq(Messages), NEW r, IsRun(r, s, msgs)
  PROVE  DeliverAll(s, msgs) = r[Len(msgs)] /\ r[Len(msgs)] \in Stores
<1> DEFINE n == Len(msgs)
<1>1. PICK q : IsRun(q, s, msgs) /\ DeliverAll(s, msgs) = q[n]
  BY RunExists
<1> DEFINE S == {i \in Nat : i <= n => r[i] = q[i]}
<1>2. n \in Nat
  OBVIOUS
<1>3. 0 \in S
  BY <1>1 DEF IsRun
<1>4. ASSUME NEW i \in Nat, i \in S PROVE i + 1 \in S
  <2> SUFFICES ASSUME i + 1 <= n PROVE r[i + 1] = q[i + 1]
    OBVIOUS
  <2>1. i + 1 \in 1 .. n /\ (i + 1) - 1 = i /\ r[i] = q[i]
    BY <1>2, <1>4
  <2> QED BY <1>1, <2>1 DEF IsRun
<1>5. Nat \subseteq S
  <2> HIDE DEF S
  <2> QED BY <1>3, <1>4, SetInduction
<1>6. n \in 0 .. n
  BY <1>2
<1> QED BY <1>1, <1>2, <1>5, <1>6 DEF IsRun

LEMMA DeliverNone ==
  ASSUME NEW s \in Stores PROVE DeliverAll(s, << >>) = s
<1> DEFINE r == [i \in 0 .. 0 |-> s]
<1>1. Len(<< >>) = 0 /\ << >> \in Seq(Messages) /\ 1 .. 0 = {}
  OBVIOUS
<1>2. IsRun(r, s, << >>)
  BY <1>1 DEF IsRun
<1>3. r[0] = s
  OBVIOUS
<1> HIDE DEF r
<1> QED BY <1>1, <1>2, <1>3, RunIsFold

LEMMA DeliverOne ==
  ASSUME NEW s \in Stores, NEW msg \in Messages PROVE DeliverAll(s, <<msg>>) = Deliver(s, msg)
<1> DEFINE r == [i \in 0 .. 1 |-> IF i = 0 THEN s ELSE Deliver(s, msg)]
           m == <<msg>>
<1>1. Len(m) = 1 /\ m \in Seq(Messages) /\ m[1] = msg
  OBVIOUS
<1>2. r[0] = s /\ r[1] = Deliver(s, msg) /\ r \in [0 .. 1 -> Stores]
  BY DeliverType
<1> HIDE DEF r, m
<1>3. IsRun(r, s, m)
  <2>1. \A i \in 1 .. 1 : i = 1 /\ i - 1 = 0
    OBVIOUS
  <2> QED BY <1>1, <1>2, <2>1 DEF IsRun
<1>4. DeliverAll(s, m) = r[1]
  BY <1>1, <1>3, RunIsFold
<1> QED BY <1>2, <1>4 DEF m

(* To receive p and then b is to receive both. *)
LEMMA DeliverConcat ==
  ASSUME NEW s \in Stores, NEW p \in Seq(Messages), NEW b \in Seq(Messages)
  PROVE  /\ DeliverAll(s, p) \in Stores
         /\ DeliverAll(s, p \o b) = DeliverAll(DeliverAll(s, p), b)
<1> DEFINE n == Len(p)
           m == Len(b)
           pb == p \o b
<1>1. /\ n \in Nat /\ m \in Nat /\ pb \in Seq(Messages) /\ Len(pb) = n + m
      /\ \A i \in 1 .. n + m : pb[i] = IF i <= n THEN p[i] ELSE b[i - n]
  BY ConcatProperties
<1> HIDE DEF pb, n, m
<1>2. PICK r : IsRun(r, s, pb) /\ DeliverAll(s, pb) = r[n + m]
  BY <1>1, RunExists
<1> DEFINE r1 == [i \in 0 .. n |-> r[i]]
           r2 == [i \in 0 .. m |-> r[n + i]]
<1>3. IsRun(r1, s, p)
  <2>1. \A i \in 0 .. n : i \in 0 .. n + m
    BY <1>1
  <2>2. r1 \in [0 .. n -> Stores]
    BY <1>1, <1>2, <2>1 DEF IsRun
  <2>3. ASSUME NEW i \in 1 .. n PROVE r1[i] = Deliver(r1[i - 1], p[i])
    <3>1. i \in 1 .. n + m /\ i \in 0 .. n /\ i - 1 \in 0 .. n /\ i <= n
      BY <1>1
    <3> QED BY <1>1, <1>2, <3>1 DEF IsRun
  <2>4. r1[0] = s
    BY <1>1, <1>2 DEF IsRun
  <2> HIDE DEF r1
  <2> QED BY <2>2, <2>3, <2>4 DEF IsRun, n
<1>4. DeliverAll(s, p) = r[n] /\ r[n] \in Stores
  <2>1. r1[n] = r[n]
    BY <1>1
  <2> HIDE DEF r1
  <2> QED BY <1>3, <2>1, RunIsFold DEF n
<1>5. IsRun(r2, r[n], b)
  <2>1. \A i \in 0 .. m : n + i \in 0 .. n + m
    BY <1>1
  <2>2. r2 \in [0 .. m -> Stores]
    BY <1>1, <1>2, <2>1 DEF IsRun
  <2>3. ASSUME NEW i \in 1 .. m PROVE r2[i] = Deliver(r2[i - 1], b[i])
    <3>1. /\ n + i \in 1 .. n + m /\ i \in 0 .. m /\ i - 1 \in 0 .. m /\ ~ (n + i <= n)
          /\ (n + i) - 1 = n + (i - 1) /\ (n + i) - n = i
      BY <1>1
    <3>2. r[n + i] = Deliver(r[(n + i) - 1], pb[n + i]) /\ pb[n + i] = b[i]
      BY <1>1, <1>2, <3>1 DEF IsRun
    <3> QED BY <3>1, <3>2
  <2>4. r2[0] = r[n]
    BY <1>1
  <2> HIDE DEF r2
  <2> QED BY <2>2, <2>3, <2>4 DEF IsRun, m
<1>6. DeliverAll(r[n], b) = r[n + m]
  <2>1. r2[m] = r[n + m]
    BY <1>1
  <2> HIDE DEF r2
  <2> QED BY <1>4, <1>5, <2>1, RunIsFold DEF m
<1> QED BY <1>2, <1>4, <1>6 DEF pb

-----------------------------------------------------------------------------
(* What a write does to a master's store and to the eventual store of a    *)
(* replica that gets its effects.                                          *)

(* A deadline of a millisecond or more stays one, and is not put off. *)
LEMMA OnTheWire ==
  ASSUME NEW t \in Nat, t >= TicksPerMs
  PROVE  Ms(t) \in Nat \ {0} /\ FromMs(Ms(t)) = Ms(t) * TicksPerMs /\ Ms(t) * TicksPerMs \in Nat
         /\ Ms(t) * TicksPerMs <= t
<1>1. \A a \in Nat, b \in Nat \ {0} : a \div b \in Nat /\ (a \div b) * b <= a /\ (a \div b) * b \in Nat
  OBVIOUS
<1>2. \A a \in Nat, b \in Nat \ {0} : a >= b => a \div b # 0
  OBVIOUS
<1>3. Ms(t) = t \div TicksPerMs
  BY NeverAssumption DEF Ms
<1>4. TicksPerMs \in Nat \ {0}
  BY TicksAssumption
<1> DEFINE m == t \div TicksPerMs
<1>5. m \in Nat /\ m * TicksPerMs <= t /\ m * TicksPerMs \in Nat /\ m # 0
  BY <1>1, <1>2, <1>4
<1> HIDE DEF m
<1>6. FromMs(m) = m * TicksPerMs
  BY <1>5 DEF FromMs
<1> QED BY <1>3, <1>5, <1>6 DEF m

(* Eventually e holds what s holds, and besides it only expired keys. *)
Mirrors(s, e) ==
  \A k \in Keys :
    IF s[k] # Absent THEN e[k] = OnWire(s[k]) ELSE e[k] = Absent \/ IsExpired(e[k])

(* Deadlines are not before the first tick that a millisecond can tell. *)
Punctual(s) ==
  \A k \in Keys : s[k] # Absent => s[k].expire_at = Never \/ s[k].expire_at >= TicksPerMs

LEMMA OnWireEntry ==
  ASSUME NEW x \in Entries PROVE OnWire(x) \in Entries /\ OnWire(x) # Absent /\ x # Absent
<1>1. Ms(x.expire_at) \in Nat
  BY MsType DEF Entries
<1>2. FromMs(Ms(x.expire_at)) \in Nat \union {Never}
  BY <1>1, FromMsType
<1>3. OnWire(x) \in Entries
  BY <1>2 DEF OnWire, WithDeadline, Entries
<1> QED BY <1>3, AbsentAssumption DEF Entries

LEMMA MirrorSnapshot ==
  ASSUME NEW s \in Stores PROVE Mirrors(s, Loaded(SnapshotItems(s)))
<1> SUFFICES ASSUME NEW k \in Keys
             PROVE  IF s[k] # Absent THEN Loaded(SnapshotItems(s))[k] = OnWire(s[k])
                    ELSE Loaded(SnapshotItems(s))[k] = Absent
  BY DEF Mirrors
<1>1. CASE s[k] = Absent
  BY <1>1 DEF Loaded, SnapshotItems
<1>2. CASE s[k] # Absent
  <2>1. SnapshotItems(s)[k] = [value |-> s[k].value, ms |-> Ms(s[k].expire_at)]
    BY <1>2 DEF SnapshotItems
  <2>2. SnapshotItems(s)[k] # Absent
    <3>1. s[k].value \in Values /\ Ms(s[k].expire_at) \in Nat
      BY <1>2, MsType DEF Stores, Entries
    <3> QED BY <2>1, <3>1, AbsentAssumption
  <2> QED BY <1>2, <2>1, <2>2 DEF Loaded, OnWire, WithDeadline
<1> QED BY <1>1, <1>2

(* A write of k, on both sides. *)
LEMMA MirrorSet ==
  ASSUME NEW s \in Stores, NEW e \in Stores, Mirrors(s, e), NEW k \in Keys,
         NEW x \in Entries, NEW eff \in Effects, eff = SetEffect(k, x.value, x.expire_at)
  PROVE  Mirrors([s EXCEPT ![k] = x], Apply(e, eff))
<1>1. Apply(e, eff) = [e EXCEPT ![k] = OnWire(x)]
  BY DEF SetEffect, Apply, OnWire, WithDeadline
<1> QED BY <1>1, OnWireEntry DEF Mirrors, Stores

LEMMA MirrorDel ==
  ASSUME NEW s \in Stores, NEW e \in Stores, Mirrors(s, e), NEW k \in Keys
  PROVE  Mirrors([s EXCEPT ![k] = Absent], Apply(e, DelEffect(k)))
<1>1. Apply(e, DelEffect(k)) = [e EXCEPT ![k] = Absent]
  BY DEF DelEffect, Apply
<1> QED BY <1>1 DEF Mirrors, Stores

LEMMA MirrorExpire ==
  ASSUME NEW s \in Stores, NEW e \in Stores, Mirrors(s, e), NEW k \in Keys, s[k] # Absent,
         NEW t \in Nat, t >= TicksPerMs
  PROVE  Mirrors([s EXCEPT ![k] = WithDeadline(s[k], t)], Apply(e, ExpireEffect(k, t)))
<1>1. s[k] \in Entries /\ e[k] = OnWire(s[k]) /\ e[k] # Absent
  BY OnWireEntry DEF Mirrors, Stores
<1>2. Ms(t) * TicksPerMs = FromMs(Ms(t))
  BY OnTheWire
<1>3. Apply(e, ExpireEffect(k, t)) = [e EXCEPT ![k] = WithDeadline(e[k], Ms(t) * TicksPerMs)]
  BY <1>1 DEF ExpireEffect, Apply
<1>4. WithDeadline(e[k], Ms(t) * TicksPerMs) = OnWire(WithDeadline(s[k], t))
  BY <1>1, <1>2 DEF WithDeadline, OnWire
<1>5. WithDeadline(s[k], t) # Absent
  BY <1>1, AbsentAssumption DEF WithDeadline, Entries
<1> QED BY <1>1, <1>3, <1>4, <1>5 DEF Mirrors, Stores

(* GET of an expired key deletes it at the master alone. *)
LEMMA MirrorForget ==
  ASSUME NEW s \in Stores, NEW e \in Stores, Mirrors(s, e), Punctual(s), NEW k \in Expired(s),
         clock \in Nat
  PROVE  Mirrors([s EXCEPT ![k] = Absent], e)
<1> DEFINE t == s[k].expire_at
<1>1. k \in Keys /\ s[k] # Absent /\ s[k] \in Entries /\ t # Never /\ t <= clock
  BY DEF Expired, Present, IsExpired, Stores
<1>2. t \in Nat /\ t >= TicksPerMs
  BY <1>1 DEF Entries, Punctual
<1>3. e[k] = OnWire(s[k])
  BY <1>1 DEF Mirrors
<1> HIDE DEF t
<1>4. FromMs(Ms(t)) \in Nat /\ FromMs(Ms(t)) <= t
  BY <1>2, OnTheWire
<1>5. FromMs(Ms(t)) # Never /\ FromMs(Ms(t)) <= clock
  BY <1>1, <1>2, <1>4, NeverAssumption
<1>6. IsExpired(e[k])
  BY <1>3, <1>5 DEF OnWire, WithDeadline, IsExpired, t
<1> QED BY <1>1, <1>6 DEF Mirrors, Stores

(* The DELs of an expiry round: what they take from a store. *)
Emptied(s, gone) == [k \in Keys |-> IF k \in gone THEN Absent ELSE s[k]]

LEMMA DeliverDels ==
  ASSUME TypeOK, NEW m \in Nodes, NEW c \in Nat, NEW gone \in SUBSET Keys,
         NEW removed \in [1 .. c -> gone], NEW e \in Stores,
         {removed[i] : i \in DOMAIN removed} = gone
  PROVE  DeliverAll(e, Numbered(m, [i \in 1 .. c |-> <<DelEffect(removed[i])>>])) = Emptied(e, gone)
<1> DEFINE dels == [i \in 1 .. c |-> <<DelEffect(removed[i])>>]
           b == Numbered(m, dels)
           Till(i) == {removed[j] : j \in 1 .. i}
           r == [i \in 0 .. c |-> Emptied(e, Till(i))]
<1>1. dels \in Seq(Batches) /\ Len(dels) = c
  <2>1. ASSUME NEW i \in 1 .. c PROVE <<DelEffect(removed[i])>> \in Batches
    <3>1. DelEffect(removed[i]) \in Effects
      BY DelType
    <3> QED BY <3>1 DEF Batches
  <2>2. dels \in [1 .. c -> Batches]
    BY <2>1
  <2> HIDE DEF dels
  <2> QED BY <2>2, FunctionIsSeq
<1>2. b \in Seq(Messages) /\ Len(b) = c
  <2>1. b \in Seq(BatchMsgs) /\ Len(b) = c
    <3> HIDE DEF dels
    <3> QED BY <1>1, NumberedType
  <2> HIDE DEF b
  <2> QED BY <2>1 DEF Messages
<1>3. \A i \in 1 .. c : b[i].tag = "BATCH" /\ b[i].effects = <<DelEffect(removed[i])>>
  BY DEF Numbered
<1>4. \A g : Emptied(e, g) \in Stores
  BY DEF Emptied, Stores
<1>5. IsRun(r, e, b)
  <2>1. r \in [0 .. c -> Stores]
    <3> HIDE DEF Till
    <3> QED BY <1>4
  <2>2. r[0] = e
    <3>1. Till(0) = {}
      OBVIOUS
    <3>2. Emptied(e, {}) = e
      BY DEF Emptied, Stores
    <3>3. 0 \in 0 .. c
      OBVIOUS
    <3> HIDE DEF Till
    <3>4. r[0] = Emptied(e, Till(0))
      BY <3>3
    <3> QED BY ONLY <3>1, <3>2, <3>4
  <2>3. ASSUME NEW i \in 1 .. c PROVE r[i] = Deliver(r[i - 1], b[i])
    <3>1. i \in 0 .. c /\ i - 1 \in 0 .. c
      OBVIOUS
    <3>2. Till(i) = Till(i - 1) \union {removed[i]}
      <4>1. \A j \in 1 .. i : j \in 1 .. i - 1 \/ j = i
        OBVIOUS
      <4>2. i \in 1 .. i /\ \A j \in 1 .. i - 1 : j \in 1 .. i
        OBVIOUS
      <4> QED BY <4>1, <4>2
    <3> HIDE DEF Till
    <3>3. r[i] = Emptied(e, Till(i)) /\ r[i - 1] = Emptied(e, Till(i - 1))
      BY <3>1
    <3>4. removed[i] \in Keys
      OBVIOUS
    <3> HIDE DEF r, b
    <3>5. Deliver(r[i - 1], b[i]) = Apply(r[i - 1], DelEffect(removed[i]))
      <4>1. \A d : Len(<<d>>) = 1 /\ <<d>>[1] = d
        OBVIOUS
      <4> QED BY <1>3, <4>1 DEF Deliver, ApplyAll
    <3>6. Apply(r[i - 1], DelEffect(removed[i])) = [r[i - 1] EXCEPT ![removed[i]] = Absent]
      BY DEF Apply, DelEffect
    <3>7. [r[i - 1] EXCEPT ![removed[i]] = Absent] = Emptied(e, Till(i))
      BY <3>2, <3>3, <3>4 DEF Emptied
    <3> QED BY <3>3, <3>5, <3>6, <3>7
  <2> HIDE DEF r, b
  <2> QED BY <1>2, <2>1, <2>2, <2>3 DEF IsRun
<1>6. r[c] = Emptied(e, gone)
  <2>1. Till(c) = gone /\ c \in 0 .. c
    OBVIOUS
  <2> HIDE DEF Till
  <2> QED BY <2>1
<1> HIDE DEF r, b
<1>7. DeliverAll(e, b) = r[c]
  BY <1>2, <1>5, RunIsFold
<1> QED BY <1>6, <1>7 DEF b

LEMMA MirrorDels ==
  ASSUME NEW s \in Stores, NEW e \in Stores, Mirrors(s, e), NEW gone \in SUBSET Keys
  PROVE  Mirrors(Emptied(s, gone), Emptied(e, gone))
BY DEF Mirrors, Emptied

-----------------------------------------------------------------------------
(* The steps of the primary, and of the connection of a replica. *)

(* Mirrors with the time given, to compare one moment with the next. *)
MirrorsAt(now, s, e) ==
  \A k \in Keys :
    IF s[k] # Absent THEN e[k] = OnWire(s[k])
    ELSE e[k] = Absent \/ (e[k].expire_at # Never /\ e[k].expire_at <= now)

LEMMA MirrorsNow == \A s, e : Mirrors(s, e) <=> MirrorsAt(clock, s, e)
BY DEF Mirrors, MirrorsAt, IsExpired

LEMMA DeliverBatch ==
  ASSUME TypeOK, NEW m \in Nodes, NEW e \in Stores, NEW b \in Batches
  PROVE  DeliverAll(e, Numbered(m, <<b>>)) = ApplyAll(e, b)
<1> DEFINE msg == [tag |-> "BATCH", off |-> offset[m] + 1, effects |-> b]
<1>1. msg \in Messages
  BY DEF Messages, BatchMsgs, TypeOK
<1>2. Numbered(m, <<b>>) = <<msg>>
  BY DEF Numbered
<1>3. Deliver(e, msg) = ApplyAll(e, b)
  BY DEF Deliver
<1> HIDE DEF msg
<1> QED BY <1>1, <1>2, <1>3, DeliverOne

WrittenThrough(e) ==
  \/ UNCHANGED upstreamVars /\ MirrorsAt(clock, store'[Primary], e)
  \/ \E effs \in Seq(Batches) :
       /\ AppendBatches(Primary, effs)
       /\ MirrorsAt(clock, store'[Primary], DeliverAll(e, Numbered(Primary, effs)))

(* A step of the primary that appends one batch. *)
LEMMA OneBatchThrough ==
  ASSUME TypeOK, NEW e \in Stores, NEW b \in Batches, NEW s \in Stores,
         AppendBatches(Primary, <<b>>), store' = [store EXCEPT ![Primary] = s],
         Mirrors(s, ApplyAll(e, b))
  PROVE  WrittenThrough(e) /\ store'[Primary] = s
<1>1. store'[Primary] = s
  BY DEF TypeOK
<1>2. <<b>> \in Seq(Batches)
  OBVIOUS
<1>3. MirrorsAt(clock, s, DeliverAll(e, Numbered(Primary, <<b>>)))
  BY DeliverBatch, MirrorsNow
<1> QED BY <1>1, <1>2, <1>3 DEF WrittenThrough

LEMMA PrimaryWrites ==
  ASSUME TypeOK, ClientStep(Primary) \/ ExpireStep(Primary),
         clock >= TicksPerMs, Punctual(store[Primary]),
         NEW e \in Stores, Mirrors(store[Primary], e)
  PROVE  Punctual(store'[Primary]) /\ WrittenThrough(e)
<1> DEFINE s == store[Primary]
<1>0. s \in Stores /\ clock \in Nat /\ Primary \in Nodes
  BY DEF TypeOK
<1>t. \A t \in DeadlinesNow : t \in Nat /\ t >= TicksPerMs
  <2> SUFFICES ASSUME NEW ttl \in TTLs PROVE clock + ttl \in Nat /\ clock + ttl >= TicksPerMs
    BY DEF DeadlinesNow
  <2>1. ttl \in Nat /\ TicksPerMs \in Nat
    OBVIOUS
  <2> QED BY <1>0, <2>1
<1>l. \A x, y : Len(<<x>>) = 1 /\ <<x>>[1] = x /\ Len(<<x, y>>) = 2
                /\ <<x, y>>[1] = x /\ <<x, y>>[2] = y
  OBVIOUS
<1>1. ASSUME NEW k \in Keys, ClientDel(Primary, k) PROVE Punctual(store'[Primary]) /\ WrittenThrough(e)
  <2> DEFINE new == [s EXCEPT ![k] = Absent]
             b == <<DelEffect(k)>>
  <2>1. DelEffect(k) \in Effects /\ b \in Batches
    BY DelType DEF Batches
  <2>2. new \in Stores /\ Punctual(new)
    BY <1>0 DEF Stores, Punctual
  <2>3. Mirrors(new, ApplyAll(e, b))
    BY <1>0, <1>l, MirrorDel DEF ApplyAll
  <2>4. store' = [store EXCEPT ![Primary] = new] /\ AppendBatches(Primary, <<b>>)
    BY <1>1 DEF ClientDel
  <2> HIDE DEF new, b
  <2> QED BY <2>1, <2>2, <2>3, <2>4, OneBatchThrough
<1>2. ASSUME NEW k \in Keys, ClientGetExpired(Primary, k)
      PROVE Punctual(store'[Primary]) /\ WrittenThrough(e)
  <2> DEFINE new == [s EXCEPT ![k] = Absent]
  <2>1. new \in Stores /\ Punctual(new)
    BY <1>0 DEF Stores, Punctual
  <2>2. Mirrors(new, e)
    BY <1>0, <1>2, MirrorForget DEF ClientGetExpired
  <2>3. store'[Primary] = new /\ UNCHANGED upstreamVars
    BY <1>0, <1>2 DEF ClientGetExpired, TypeOK
  <2> HIDE DEF new
  <2> QED BY <2>1, <2>2, <2>3, MirrorsNow DEF WrittenThrough
<1>3. ASSUME NEW k \in Keys, NEW t \in DeadlinesNow, ClientExpire(Primary, k, t)
      PROVE Punctual(store'[Primary]) /\ WrittenThrough(e)
  <2> DEFINE new == [s EXCEPT ![k] = WithDeadline(s[k], t)]
             b == <<ExpireEffect(k, t)>>
  <2>0. t \in Nat /\ t >= TicksPerMs /\ s[k] # Absent
    BY <1>t, <1>3 DEF ClientExpire
  <2>1. ExpireEffect(k, t) \in Effects /\ b \in Batches
    BY <2>0, ExpireType DEF Batches
  <2>2. new \in Stores /\ Punctual(new)
    BY <1>0, <2>0 DEF Stores, Punctual, WithDeadline, Entries
  <2>3. Mirrors(new, ApplyAll(e, b))
    BY <1>0, <1>l, <2>0, MirrorExpire DEF ApplyAll
  <2>4. store' = [store EXCEPT ![Primary] = new] /\ AppendBatches(Primary, <<b>>)
    BY <1>3 DEF ClientExpire
  <2> HIDE DEF new, b
  <2> QED BY <2>1, <2>2, <2>3, <2>4, OneBatchThrough
<1>4. ASSUME NEW k \in Keys, NEW v \in Values, NEW t \in DeadlinesNow \union {Never},
             ClientSet(Primary, k, v, t)
      PROVE Punctual(store'[Primary]) /\ WrittenThrough(e)
  <2> DEFINE x == [value |-> v, expire_at |-> t]
             one == [s EXCEPT ![k] = x]
             eff == SetEffect(k, v, t)
  <2>1. x \in Entries /\ eff \in Effects /\ eff = SetEffect(k, x.value, x.expire_at)
    BY <1>t, SetType DEF Entries
  <2>2. x.expire_at = Never \/ x.expire_at >= TicksPerMs
    BY <1>t
  <2> HIDE DEF x
  <2>3. one \in Stores /\ Punctual(one)
    BY <1>0, <2>1, <2>2 DEF Stores, Punctual
  <2>4. Mirrors(one, Apply(e, eff)) /\ Apply(e, eff) \in Stores
    BY <1>0, <2>1, MirrorSet, ApplyType
  <2>5. CASE /\ store' = [store EXCEPT ![Primary] = one]
             /\ AppendBatches(Primary, << <<eff>> >>)
    <3> DEFINE b == <<eff>>
    <3>1. b \in Batches
      BY <2>1 DEF Batches
    <3>2. Mirrors(one, ApplyAll(e, b))
      BY <1>l, <2>4 DEF ApplyAll
    <3> HIDE DEF one, b, eff
    <3> QED BY <2>3, <2>5, <3>1, <3>2, OneBatchThrough DEF b
  <2>6. ASSUME NEW lru \in Evictable(Primary, k),
               store' = [store EXCEPT ![Primary] = [s EXCEPT ![k] = x, ![lru] = Absent]],
               AppendBatches(Primary, << <<eff, DelEffect(lru)>> >>)
        PROVE  Punctual(store'[Primary]) /\ WrittenThrough(e)
    <3> DEFINE two == [one EXCEPT ![lru] = Absent]
               b == <<eff, DelEffect(lru)>>
    <3>1. lru \in Keys /\ DelEffect(lru) \in Effects
      BY DelType DEF Evictable, Present
    <3>2. b \in Batches
      BY <2>1, <3>1 DEF Batches
    <3>3. two \in Stores /\ Punctual(two)
      <4> HIDE DEF one
      <4> QED BY <2>3, <3>1 DEF Stores, Punctual
    <3>4. Mirrors(two, ApplyAll(e, b))
      <4>1. Mirrors(two, Apply(Apply(e, eff), DelEffect(lru)))
        <5> HIDE DEF one, eff
        <5> QED BY <2>3, <2>4, <3>1, MirrorDel
      <4> HIDE DEF eff
      <4> QED BY <1>l, <4>1 DEF ApplyAll
    <3>5. two = [s EXCEPT ![k] = x, ![lru] = Absent]
      OBVIOUS
    <3> HIDE DEF two, b, one, eff
    <3>6. store' = [store EXCEPT ![Primary] = two] /\ AppendBatches(Primary, <<b>>)
      BY <2>6, <3>5 DEF b
    <3> QED BY <3>2, <3>3, <3>4, <3>6, OneBatchThrough
  <2> QED BY <1>4, <2>5, <2>6 DEF ClientSet, x
<1>5. ASSUME NEW drawn \in SUBSET Keys, ActiveExpire(Primary, drawn)
      PROVE Punctual(store'[Primary]) /\ WrittenThrough(e)
  <2> DEFINE gone == drawn \intersect Expired(s)
             c == Cardinality(gone)
  <2>1. c \in Nat /\ gone \in SUBSET Keys
    BY KeysAssumption, FS_Subset, FS_CardinalityType
  <2>2. PICK removed \in [1 .. c -> gone] :
          /\ {removed[i] : i \in DOMAIN removed} = gone
          /\ AppendBatches(Primary, [i \in 1 .. c |-> <<DelEffect(removed[i])>>])
    BY <1>5 DEF ActiveExpire
  <2> DEFINE dels == [i \in 1 .. c |-> <<DelEffect(removed[i])>>]
  <2>3. store'[Primary] = Emptied(s, gone)
    BY <1>0, <1>5 DEF ActiveExpire, Emptied, TypeOK
  <2>4. Punctual(Emptied(s, gone))
    BY DEF Punctual, Emptied
  <2>5. dels \in Seq(Batches)
    <3>1. ASSUME NEW i \in 1 .. c PROVE <<DelEffect(removed[i])>> \in Batches
      <4>1. DelEffect(removed[i]) \in Effects
        BY <2>1, DelType
      <4> QED BY <4>1 DEF Batches
    <3>2. dels \in [1 .. c -> Batches]
      BY <3>1
    <3> HIDE DEF dels, c
    <3> QED BY <2>1, <3>2, FunctionIsSeq
  <2>6. DeliverAll(e, Numbered(Primary, dels)) = Emptied(e, gone)
    <3> HIDE DEF c, gone
    <3>1. e \in Stores /\ TypeOK
      OBVIOUS
    <3>2. gone \subseteq Keys /\ c \in Nat
      BY <2>1
    <3>3. removed \in [1 .. c -> gone] /\ {removed[i] : i \in DOMAIN removed} = gone
      BY <2>2
    <3>4. Primary \in Nodes
      BY <1>0
    <3> QED BY ONLY <3>1, <3>2, <3>3, <3>4, DeliverDels
  <2>7. Mirrors(Emptied(s, gone), Emptied(e, gone))
    BY <1>0, <2>1, MirrorDels
  <2> HIDE DEF dels, c, gone, s
  <2> QED BY <2>2, <2>3, <2>4, <2>5, <2>6, <2>7, MirrorsNow DEF WrittenThrough, dels
<1> QED BY <1>1, <1>2, <1>3, <1>4, <1>5 DEF ClientStep, ExpireStep

-----------------------------------------------------------------------------
(* The replicas of the primary hold what it holds, but for what is pending.*)

(* A replica of the primary that was not promoted and is connected. *)
Attached(n) == role[n] = "slave" /\ link[n] = "open"
Mirrored(n) == Attached(n) => Mirrors(store[Primary], Eventual(n))

MirrorInv ==
  /\ SpliceInv
  /\ role[Primary] = "master"
  /\ clock >= TicksPerMs
  /\ Punctual(store[Primary])
  /\ \A n \in Followers : Mirrored(n)

LEMMA EventualParts ==
  ASSUME TypeOK, NEW n \in Nodes
  PROVE  /\ store[n] \in Stores /\ Pending(n) \in Seq(Messages)
         /\ Eventual(n) = DeliverAll(store[n], Pending(n)) /\ Eventual(n) \in Stores
<1>1. store[n] \in Stores /\ << >> \in Seq(Messages)
  BY DEF TypeOK
<1>2. Pending(n) \in Seq(Messages)
  <2>1. IsJoin(Pending(n), reading[n], wire[n], queue[n])
    BY PendingType, Joined DEF Pending
  <2> QED BY <2>1 DEF IsJoin
<1>3. Eventual(n) = DeliverAll(store[n], Pending(n))
  BY DEF Eventual, DeliverAll
<1> QED BY <1>1, <1>2, <1>3, DeliverConcat

(* A step that leaves both stores and the connection of the replica alone, *)
(* whatever the time it takes.                                             *)
LEMMA LeftAlone ==
  ASSUME TypeOK, NEW n \in Followers, Mirrored(n), clock' \in Nat, clock' >= clock,
         role'[n] = role[n], link'[n] = link[n], store'[n] = store[n],
         store'[Primary] = store[Primary], Pending(n)' = Pending(n)
  PROVE  Mirrored(n)'
<1>1. Eventual(n)' = Eventual(n)
  BY DEF Eventual
<1>2. Eventual(n) \in Stores /\ clock \in Nat
  BY EventualParts DEF Followers, Slaves, TypeOK
<1>3. ASSUME Mirrors(store[Primary], Eventual(n)) PROVE Mirrors(store[Primary], Eventual(n))'
  <2>1. ASSUME NEW k \in Keys, IsExpired(Eventual(n)[k]), Eventual(n)[k] # Absent
        PROVE  IsExpired(Eventual(n)[k])'
    <3>1. Eventual(n)[k].expire_at \in Nat
      BY <1>2, <2>1 DEF Stores, Entries, IsExpired
    <3> QED BY <1>1, <1>2, <2>1, <3>1 DEF IsExpired
  <2>2. \A k \in Keys : OnWire(store[Primary][k])' = OnWire(store[Primary][k])
    BY DEF OnWire, WithDeadline
  <2> QED BY <1>1, <1>3, <2>1, <2>2 DEF Mirrors
<1> QED BY <1>3 DEF Mirrored, Attached

(* Steps of nodes other than the primary and the replica. *)
LEMMA OthersWrite ==
  ASSUME TypeOK, NEW m \in Nodes, ClientStep(m) \/ ExpireStep(m)
  PROVE  /\ role[m] = "master"
         /\ UNCHANGED <<role, client, replicaVars, clock, faults>>
         /\ \A n \in Nodes : n # m => store'[n] = store[n]
         /\ \A n \in Slaves : Upstream[n] # m => queue'[n] = queue[n]
<1>1. ASSUME NEW effs, AppendBatches(m, effs), NEW n \in Slaves, Upstream[n] # m
      PROVE  queue'[n] = queue[n]
  BY <1>1 DEF AppendBatches, Slaves
<1>2. role[m] = "master" /\ UNCHANGED <<role, client, replicaVars, clock, faults>>
  BY DEF ClientStep, ExpireStep, ClientDel, ClientGetExpired, ClientExpire, ClientSet,
         ActiveExpire, RunsExpiry
<1>3. ASSUME NEW n \in Nodes, n # m PROVE store'[n] = store[n]
  <2>1. ASSUME NEW k \in Keys, ClientDel(m, k) PROVE store'[n] = store[n]
    BY <1>3, <2>1 DEF ClientDel, TypeOK
  <2>2. ASSUME NEW k \in Keys, ClientGetExpired(m, k) PROVE store'[n] = store[n]
    BY <1>3, <2>2 DEF ClientGetExpired, TypeOK
  <2>3. ASSUME NEW k \in Keys, NEW t, ClientExpire(m, k, t) PROVE store'[n] = store[n]
    BY <1>3, <2>3 DEF ClientExpire, TypeOK
  <2>4. ASSUME NEW k \in Keys, NEW v, NEW t, ClientSet(m, k, v, t) PROVE store'[n] = store[n]
    BY <1>3, <2>4 DEF ClientSet, TypeOK
  <2>5. ASSUME NEW drawn \in SUBSET Keys, ActiveExpire(m, drawn) PROVE store'[n] = store[n]
    BY <1>3, <2>5 DEF ActiveExpire, TypeOK
  <2> QED BY <2>1, <2>2, <2>3, <2>4, <2>5 DEF ClientStep, ExpireStep
<1>4. UNCHANGED upstreamVars \/ \E effs : AppendBatches(m, effs)
  BY ClientAppends
<1> QED BY <1>1, <1>2, <1>3, <1>4 DEF upstreamVars

LEMMA MessagesJoin == \A p, q, r \in Seq(Messages) : p \o (q \o r) = (p \o q) \o r
<1> SUFFICES ASSUME NEW p \in Seq(Messages), NEW q \in Seq(Messages), NEW r \in Seq(Messages)
             PROVE  p \o (q \o r) = (p \o q) \o r
  OBVIOUS
<1> QED BY ConcatAssociative

(* The primary writes: its replica gets the same, behind what is pending. *)
LEMMA PrimaryMirrored ==
  ASSUME TypeOK, TypeOK', ClientStep(Primary) \/ ExpireStep(Primary),
         clock >= TicksPerMs, Punctual(store[Primary]), NEW n \in Followers, Mirrored(n)
  PROVE  Mirrored(n)'
<1> DEFINE e == Eventual(n)
<1>0. n \in Nodes /\ n \in Slaves /\ n # Primary /\ Upstream[n] = Primary
  BY DEF Followers, Slaves
<1>1. /\ UNCHANGED <<role, client, replicaVars, clock, faults>>
      /\ store'[n] = store[n]
  BY <1>0, OthersWrite
<1>2. e \in Stores /\ e = DeliverAll(store[n], Pending(n))
      /\ store[n] \in Stores /\ Pending(n) \in Seq(Messages)
  BY <1>0, EventualParts
<1> SUFFICES ASSUME Attached(n) PROVE Mirrors(store[Primary], Eventual(n))'
  BY <1>1 DEF Mirrored, Attached, replicaVars
<1>3. WrittenThrough(e)
  BY <1>2, PrimaryWrites DEF Mirrored
<1>4. ASSUME MirrorsAt(clock, store'[Primary], Eventual(n)')
      PROVE  Mirrors(store[Primary], Eventual(n))'
  BY <1>1, <1>4 DEF Mirrors, MirrorsAt, IsExpired, OnWire, WithDeadline
<1>5. CASE UNCHANGED upstreamVars /\ MirrorsAt(clock, store'[Primary], e)
  <2>1. Eventual(n)' = Eventual(n)
    BY <1>1, <1>5 DEF Eventual, Pending, replicaVars, upstreamVars
  <2> QED BY <1>4, <1>5, <2>1
<1>6. ASSUME NEW effs \in Seq(Batches), AppendBatches(Primary, effs),
             MirrorsAt(clock, store'[Primary], DeliverAll(e, Numbered(Primary, effs)))
      PROVE  Mirrors(store[Primary], Eventual(n))'
  <2> DEFINE b == Numbered(Primary, effs)
  <2>1. b \in Seq(BatchMsgs) /\ b \in Seq(Messages)
    <3>1. b \in Seq(BatchMsgs)
      BY NumberedType
    <3> HIDE DEF b
    <3> QED BY <3>1 DEF Messages
  <2>2. queue'[n] = queue[n] \o b
    BY <1>0, <1>6 DEF AppendBatches, Attached
  <2> HIDE DEF b
  <2>3. Pending(n)' = Pending(n) \o b
    <3>1. reading'[n] = reading[n] /\ wire'[n] = wire[n]
      BY <1>1 DEF replicaVars
    <3>2. ASSUME NEW p \in Seq(Messages), NEW q \in Seq(Messages)
          PROVE  p \o (q \o b) = (p \o q) \o b
      <4>1. b \in Seq(Messages)
        BY <2>1
      <4> QED BY ONLY <4>1, MessagesJoin
    <3>3. queue[n] \in Seq(Messages) /\ reading[n] \o wire[n] \in Seq(Messages)
      <4>1. queue[n] \in Seq(Messages) /\ reading[n] \in Seq(Messages) /\ wire[n] \in Seq(Messages)
        BY <1>0, PendingType
      <4> QED BY ONLY <4>1, ConcatProperties
    <3>4. (reading[n] \o wire[n]) \o (queue[n] \o b) = ((reading[n] \o wire[n]) \o queue[n]) \o b
      BY <3>2, <3>3
    <3> QED BY <2>2, <3>1, <3>4 DEF Pending
  <2>4. Eventual(n)' = DeliverAll(store[n], Pending(n) \o b)
    BY <1>1, <2>3 DEF Eventual, DeliverAll
  <2>5. Eventual(n)' = DeliverAll(e, b)
    BY <1>2, <2>1, <2>4, DeliverConcat
  <2> QED BY <1>4, <1>6, <2>5 DEF b
<1> HIDE DEF e
<1> QED BY <1>3, <1>5, <1>6 DEF WrittenThrough

(* The steps of the replica's own connection. *)
LEMMA LinkMirrored ==
  ASSUME TypeOK, TypeOK', NEW n \in Followers, Spliced(n), Clean(n),
         LinkStep(n) \/ Sever(n), Mirrored(n)
  PROVE  Mirrored(n)'
<1>0. n \in Nodes /\ n \in Slaves /\ n # Primary /\ Upstream[n] = Primary
  BY DEF Followers, Slaves
<1> DEFINE r == reading[n]
           w == wire[n]
           q == queue[n]
<1>a. r \in Seq(Messages) /\ w \in Seq(Messages) /\ q \in Seq(Messages)
  BY <1>0, PendingType
<1>b. role' = role /\ clock' = clock /\ store'[Primary] = store[Primary]
  BY <1>0 DEF LinkStep, Connect, HandleSync, StreamBatch, ReadHeader, LoadSnapshot, ApplyBatch,
              Sever, TypeOK
<1>c. clock' \in Nat /\ clock' >= clock
  BY <1>b DEF TypeOK
<1>1. CASE Connect(n) \/ Sever(n)
  <2>1. link'[n] # "open"
    BY <1>0, <1>1, SeverKeeps DEF Connect, TypeOK
  <2> QED BY <2>1 DEF Mirrored, Attached
<1>2. CASE HandleSync(n)
  <2> DEFINE msg == [tag |-> "SNAPSHOT", off |-> offset[Primary],
                     items |-> SnapshotItems(store[Primary])]
  <2>1. r = << >>
    BY <1>a, <1>2, EmptyParts DEF HandleSync, Clean, Pending
  <2>2. wire'[n] = <<msg>> /\ queue'[n] = << >> /\ reading' = reading /\ store' = store
    BY <1>0, <1>2 DEF HandleSync, TypeOK
  <2>3. Pending(n)' = <<msg>>
    <3>1. \A x : << >> \o <<x>> \o << >> = <<x>>
      OBVIOUS
    <3>2. Pending(n)' = << >> \o <<msg>> \o << >>
      BY <2>1, <2>2 DEF Pending
    <3> QED BY ONLY <3>1, <3>2, Zenon
  <2>4. store[Primary] \in Stores /\ store[n] \in Stores
    BY <1>0 DEF TypeOK
  <2>5. msg \in Messages
    <3>1. SnapshotItems(store[Primary]) \in Items /\ offset[Primary] \in Nat
      BY <2>4, SnapshotType DEF TypeOK
    <3> QED BY <3>1 DEF Messages, SnapshotMsgs
  <2>6. Deliver(store[n], msg) = Loaded(SnapshotItems(store[Primary]))
    BY DEF Deliver
  <2> HIDE DEF msg
  <2>7. Eventual(n)' = DeliverAll(store[n], <<msg>>)
    BY <2>2, <2>3 DEF Eventual, DeliverAll
  <2>8. Eventual(n)' = Loaded(SnapshotItems(store[Primary]))
    BY <2>4, <2>5, <2>6, <2>7, DeliverOne
  <2>9. Mirrors(store[Primary], Eventual(n))'
    BY <1>b, <2>4, <2>8, MirrorSnapshot DEF Mirrors, IsExpired, OnWire, WithDeadline
  <2> QED BY <2>9 DEF Mirrored
<1>3. CASE StreamBatch(n)
  <2>1. /\ q # << >> /\ wire'[n] = Append(w, Head(q)) /\ queue'[n] = Tail(q)
        /\ UNCHANGED <<store, link, reading>>
    BY <1>0, <1>3 DEF StreamBatch, TypeOK
  <2>2. r \o Append(w, Head(q)) \o Tail(q) = r \o w \o q
    BY <1>a, <2>1, BatchMoves, ZenonT(60)
  <2>3. Pending(n)' = Pending(n)
    BY <2>1, <2>2 DEF Pending
  <2> QED BY <1>b, <1>c, <2>1, <2>3, LeftAlone
<1>4. CASE ReadHeader(n)
  <2>1. /\ r = << >> /\ w # << >> /\ reading'[n] = <<Head(w)>> /\ wire'[n] = Tail(w)
        /\ UNCHANGED <<store, link, queue>>
    BY <1>0, <1>4 DEF ReadHeader, upstreamVars, TypeOK
  <2>2. <<Head(w)>> \o Tail(w) \o q = << >> \o w \o q
    BY <1>a, <2>1, HeaderMoves
  <2>3. Pending(n)' = Pending(n)
    BY <2>1, <2>2 DEF Pending
  <2> QED BY <1>b, <1>c, <2>1, <2>3, LeftAlone
<1>5. CASE LoadSnapshot(n) \/ ApplyBatch(n)
  <2> DEFINE msg == r[1]
             rest == << >> \o w \o q
  <2>1. /\ r # << >> /\ reading'[n] = << >> /\ UNCHANGED <<link, wire, queue>>
        /\ store'[n] = Deliver(store[n], msg)
    BY <1>0, <1>5 DEF LoadSnapshot, ApplyBatch, upstreamVars, TypeOK, Deliver
  <2>2. r = <<msg>> /\ msg \in Messages
    <3>1. Len(r) <= 1 /\ Len(r) \in Nat /\ Len(r) # 0
      BY <1>a, <2>1, LenProperties, NoCells, SeqEqual DEF Clean
    <3>2. Len(r) = 1
      <4>1. \A c \in Nat : c <= 1 /\ c # 0 => c = 1
        OBVIOUS
      <4> QED BY ONLY <3>1, <4>1, Zenon
    <3>3. r[1] \in Messages
      BY <1>a, <3>2
    <3>4. <<msg>> \in Seq(Messages) /\ Len(<<msg>>) = 1 /\ <<msg>>[1] = msg
      BY <3>3
    <3>5. \A i \in 1 .. 1 : i = 1
      OBVIOUS
    <3> HIDE DEF r
    <3> QED BY <1>a, <3>2, <3>3, <3>4, <3>5, SeqEqual
  <2>3. Pending(n)' = rest
    BY <2>1 DEF Pending
  <2>4. Pending(n) = <<msg>> \o rest /\ rest \in Seq(Messages)
    <3>1. w \o q \in Seq(Messages) /\ << >> \o w = w
      BY <1>a, ConcatProperties, ConcatSimplifications
    <3>2. (r \o w) \o q = r \o (w \o q)
      <4> HIDE DEF r, w, q
      <4> QED BY ONLY <1>a, ConcatAssociative
    <3>3. Pending(n) = (r \o w) \o q /\ rest = w \o q
      BY <3>1 DEF Pending
    <3>4. Pending(n) = r \o rest
      BY ONLY <3>2, <3>3, Zenon
    <3> HIDE DEF r, w, q, msg, rest
    <3> QED BY ONLY <2>2, <3>1, <3>3, <3>4, Zenon
  <2>5. store[n] \in Stores /\ Deliver(store[n], msg) \in Stores /\ <<msg>> \in Seq(Messages)
    BY <1>0, <2>2, DeliverType DEF TypeOK
  <2> HIDE DEF msg, rest
  <2>6. Eventual(n) = DeliverAll(DeliverAll(store[n], <<msg>>), rest)
    <3>1. Eventual(n) = DeliverAll(store[n], <<msg>> \o rest)
      BY <1>0, <2>4, EventualParts
    <3>2. store[n] \in Stores /\ <<msg>> \in Seq(Messages) /\ rest \in Seq(Messages)
      BY ONLY <2>4, <2>5, Zenon
    <3>3. DeliverAll(store[n], <<msg>> \o rest) = DeliverAll(DeliverAll(store[n], <<msg>>), rest)
      BY ONLY <3>2, DeliverConcat
    <3> QED BY ONLY <3>1, <3>3, Zenon
  <2>7. Eventual(n) = DeliverAll(store'[n], rest)
    BY <2>1, <2>2, <2>5, <2>6, DeliverOne
  <2>8. Eventual(n)' = Eventual(n)
    BY <2>3, <2>7 DEF Eventual, DeliverAll
  <2> QED BY <1>b, <2>1, <2>8 DEF Mirrored, Attached, Mirrors, IsExpired, OnWire, WithDeadline
<1> QED BY <1>1, <1>2, <1>3, <1>4, <1>5 DEF LinkStep

(* Whatever the connections of other replicas do, or a promotion. *)
LEMMA OthersMirrored ==
  ASSUME TypeOK, NEW n \in Followers, Mirrored(n), NEW m \in Slaves, n # m,
         \/ LinkStep(m) \/ Sever(m) \/ Disconnect(m) \/ ReadTornLine(m) \/ StopClient(m)
  PROVE  Mirrored(n)'
<1>0. n \in Nodes /\ n \in Slaves /\ m # Primary /\ m \in Nodes
  BY DEF Followers, Slaves
<1>1. role' = role /\ clock' = clock /\ store'[Primary] = store[Primary] /\ store'[n] = store[n]
  BY <1>0 DEF LinkStep, Connect, HandleSync, StreamBatch, ReadHeader, LoadSnapshot, ApplyBatch,
              Sever, Disconnect, ReadTornLine, StopClient, TypeOK
<1>2. /\ link'[n] = link[n] /\ reading'[n] = reading[n] /\ wire'[n] = wire[n]
      /\ queue'[n] = queue[n]
  BY <1>0, OthersLinks, OthersHangUp
<1>3. Pending(n)' = Pending(n) /\ clock' \in Nat /\ clock' >= clock
  BY <1>1, <1>2 DEF Pending, TypeOK
<1> QED BY <1>1, <1>2, <1>3, LeftAlone

LEMMA RestartMirrored ==
  ASSUME TypeOK, NEW n \in Followers, Mirrored(n), NEW m \in Nodes, Restart(m)
  PROVE  Mirrored(n)'
<1>0. n \in Nodes /\ n \in Slaves /\ n # Primary /\ Upstream[n] = Primary
  BY DEF Followers, Slaves
<1>1. CASE m = n \/ m = Primary
  <2>1. link'[n] # "open"
    BY <1>0, <1>1, RestartKeeps
  <2> QED BY <2>1 DEF Mirrored, Attached
<1>2. CASE m # n /\ m # Primary
  <2>1. /\ link'[n] = link[n] /\ reading'[n] = reading[n] /\ wire'[n] = wire[n]
        /\ queue'[n] = queue[n] /\ role'[n] = role[n] /\ clock' = clock
        /\ store'[n] = store[n] /\ store'[Primary] = store[Primary]
    BY <1>0, <1>2, RestartKeeps DEF Restart, TypeOK
  <2>2. Pending(n)' = Pending(n) /\ clock' \in Nat /\ clock' >= clock
    BY <2>1 DEF Pending, TypeOK
  <2> QED BY <2>1, <2>2, LeftAlone
<1> QED BY <1>1, <1>2

(* What the invariant says of the primary alone. *)
PrimaryPunctual ==
  role[Primary] = "master" /\ clock >= TicksPerMs /\ Punctual(store[Primary])

LEMMA PrimaryStaysPunctual ==
  ASSUME TypeOK, TypeOK', PrimaryPunctual, [Next]_vars
  PROVE  PrimaryPunctual'
<1>0. clock \in Nat /\ Primary \notin Slaves
  BY DEF TypeOK, Slaves
<1>1. ASSUME role'[Primary] = role[Primary], store'[Primary] = store[Primary],
             clock' = clock \/ clock' = clock + 1
      PROVE  PrimaryPunctual'
  BY <1>0, <1>1 DEF PrimaryPunctual, Punctual
<1>2. ASSUME ClientStep(Primary) \/ ExpireStep(Primary) PROVE PrimaryPunctual'
  <2>1. store[Primary] \in Stores /\ Mirrors(store[Primary], Loaded(SnapshotItems(store[Primary])))
        /\ Loaded(SnapshotItems(store[Primary])) \in Stores
    BY MirrorSnapshot, SnapshotType DEF TypeOK, SnapshotMsgs
  <2>2. Punctual(store'[Primary])
    BY <1>2, <2>1, PrimaryWrites DEF PrimaryPunctual
  <2>3. role' = role /\ clock' = clock
    BY <1>2, OthersWrite
  <2> QED BY <2>2, <2>3 DEF PrimaryPunctual, Punctual
<1>3. ASSUME NEW m \in Nodes, m # Primary, ClientStep(m) \/ ExpireStep(m) PROVE PrimaryPunctual'
  BY <1>1, <1>3, OthersWrite
<1>4. ASSUME NEW m \in Nodes, Restart(m) PROVE PrimaryPunctual'
  <2>1. role'[Primary] = "master" /\ clock' = clock
        /\ (store'[Primary] = store[Primary] \/ store'[Primary] = [k \in Keys |-> Absent])
    BY <1>4 DEF Restart, TypeOK, PrimaryPunctual
  <2> QED BY <2>1 DEF PrimaryPunctual, Punctual
<1>5. ASSUME NEW m \in Slaves,
             \/ LinkStep(m) \/ Sever(m) \/ Disconnect(m) \/ ReadTornLine(m)
             \/ Promote(m) \/ StopClient(m)
      PROVE  PrimaryPunctual'
  <2>1. role'[Primary] = role[Primary] /\ store'[Primary] = store[Primary] /\ clock' = clock
    BY <1>0, <1>5 DEF LinkStep, Connect, HandleSync, StreamBatch, ReadHeader, LoadSnapshot,
       ApplyBatch, Sever, Disconnect, ReadTornLine, Promote, StopClient, TypeOK
  <2> QED BY <1>1, <2>1
<1>6. CASE Tick
  BY <1>1, <1>6 DEF Tick
<1>7. CASE UNCHANGED vars
  BY <1>1, <1>7 DEF vars
<1> QED BY <1>2, <1>3, <1>4, <1>5, <1>6, <1>7 DEF Next

(* A promoted node, or one that another connection's steps concern. *)
LEMMA NextMirrored ==
  ASSUME MirrorInv, TypeOK', [Next]_vars, NEW n \in Followers
  PROVE  Mirrored(n)'
<1>0. /\ TypeOK /\ Spliced(n) /\ Clean(n) /\ Mirrored(n) /\ Primary \notin Slaves
      /\ n \in Nodes /\ n \in Slaves /\ n # Primary /\ Upstream[n] = Primary /\ clock \in Nat
  BY OneByOne DEF MirrorInv, SpliceInv, Followers, Slaves, TypeOK
<1>1. ASSUME role'[n] = role[n], clock' = clock \/ clock' = clock + 1,
             store'[n] = store[n], store'[Primary] = store[Primary],
             link' = link, reading' = reading, wire' = wire, queue'[n] = queue[n]
      PROVE  Mirrored(n)'
  <2>1. Pending(n)' = Pending(n) /\ clock' \in Nat /\ clock' >= clock
    BY <1>0, <1>1 DEF Pending
  <2> QED BY <1>0, <1>1, <2>1, LeftAlone
<1>2. ASSUME ClientStep(Primary) \/ ExpireStep(Primary) PROVE Mirrored(n)'
  BY <1>0, <1>2, PrimaryMirrored DEF MirrorInv
<1>3. ASSUME NEW m \in Nodes, m # Primary, ClientStep(m) \/ ExpireStep(m) PROVE Mirrored(n)'
  <2>1. /\ role[m] = "master" /\ UNCHANGED <<role, client, replicaVars, clock, faults>>
        /\ \A x \in Nodes : x # m => store'[x] = store[x]
        /\ queue'[n] = queue[n]
    BY <1>0, <1>3, OthersWrite
  <2>2. CASE m = n
    BY <2>1, <2>2 DEF Mirrored, Attached
  <2>3. CASE m # n
    BY <1>0, <1>1, <1>3, <2>1, <2>3 DEF replicaVars
  <2> QED BY <2>2, <2>3
<1>4. ASSUME NEW m \in Nodes, Restart(m) PROVE Mirrored(n)'
  BY <1>0, <1>4, RestartMirrored
<1>5. ASSUME NEW m \in Slaves, m # n,
             LinkStep(m) \/ Sever(m) \/ Disconnect(m) \/ ReadTornLine(m) \/ StopClient(m)
      PROVE  Mirrored(n)'
  BY <1>0, <1>5, OthersMirrored
<1>6. ASSUME LinkStep(n) \/ Sever(n) PROVE Mirrored(n)'
  BY <1>0, <1>6, LinkMirrored
<1>7. ASSUME Disconnect(n) \/ ReadTornLine(n) \/ StopClient(n) PROVE Mirrored(n)'
  <2>1. link'[n] # "open"
    BY <1>0, <1>7, HangUpClears
  <2> QED BY <2>1 DEF Mirrored, Attached
<1>8. ASSUME NEW m \in Slaves, Promote(m) PROVE Mirrored(n)'
  <2>1. CASE m = n
    BY <1>0, <1>8, <2>1 DEF Promote, TypeOK, Mirrored, Attached
  <2>2. CASE m # n
    BY <1>0, <1>1, <1>8, <2>2 DEF Promote, replicaVars, upstreamVars, Slaves, TypeOK
  <2> QED BY <2>1, <2>2
<1>9. CASE Tick \/ UNCHANGED vars
  BY <1>1, <1>9 DEF Tick, vars, replicaVars, upstreamVars
<1> QED BY <1>2, <1>3, <1>4, <1>5, <1>6, <1>7, <1>8, <1>9 DEF Next

(* The mirror is inductive together with the splice: what a connected      *)
(* replica of the primary is going to hold never differs from what the     *)
(* primary holds by more than keys that have expired.                      *)
THEOREM Mirroring == Spec => []MirrorInv
<1>1. Init => MirrorInv
  <2> SUFFICES ASSUME Init PROVE MirrorInv
    OBVIOUS
  <2>1. \A n \in Followers : Mirrored(n)
    BY DEF Init, Followers, Slaves, Mirrored, Attached
  <2>2. role[Primary] = "master" /\ clock >= TicksPerMs /\ Punctual(store[Primary])
    BY DEF Init, Punctual
  <2>3. TypeOK
    BY DEF Init, TypeOK, Stores, Links
  <2>4. \A n \in Slaves : Spliced(n) /\ Clean(n)
    BY NoCells DEF Init, Slaves, Spliced, Clean, Pending
  <2> QED BY <2>1, <2>2, <2>3, <2>4, OneByOne DEF MirrorInv, SpliceInv
<1>2. MirrorInv /\ SpliceInv' /\ [Next]_vars => MirrorInv'
  <2> SUFFICES ASSUME MirrorInv, SpliceInv', [Next]_vars PROVE MirrorInv'
    OBVIOUS
  <2>1. TypeOK /\ TypeOK' /\ PrimaryPunctual
    BY DEF MirrorInv, SpliceInv, PrimaryPunctual
  <2>2. PrimaryPunctual'
    BY <2>1, PrimaryStaysPunctual
  <2>3. \A n \in Followers : Mirrored(n)'
    BY <2>1, NextMirrored
  <2>4. Followers' = Followers
    BY DEF Followers, Slaves
  <2> QED BY <2>2, <2>3, <2>4 DEF MirrorInv, PrimaryPunctual
<1> QED BY <1>1, <1>2, Splicing, PTL DEF Spec

(* Where every replica follows the primary itself, a connected replica     *)
(* that has received all that is on its way holds every key of its master  *)
(* as the wire carries it, and else only keys that have expired: no write  *)
(* is lost, reordered or half applied on its way through snapshot, queue   *)
(* and transport.                                                          *)
THEOREM ReplicasMirror ==
  ASSUME \A n \in Slaves : Upstream[n] = Primary PROVE Spec => []CatchesUp
<1>1. Followers = Slaves
  BY DEF Followers
<1>2. MirrorInv => CatchesUp
  BY <1>1 DEF MirrorInv, CatchesUp, Streaming, Mirrored, Attached, Mirrors
<1> QED BY <1>2, Mirroring, PTL
=============================================================================
