----------------------------- MODULE ServicesProofs -----------------------------
(***************************************************************************)
(* Proofs about services that keep their state in memory, each for         *)
(* instances of any size. Queue: no producer sleeps for ever, the water    *)
(* mark holds, and the loop implements a plain queue.                      *)
(* Authorizations: a session ends by itself, a challenge opens one         *)
(* session, and the limit of challenges is about recent ones.              *)
(* Notifications: the two tables of subscriptions agree, the cache of      *)
(* recent subscriptions keeps no single topic of a client that is gone,    *)
(* and each client gets its own part of a transaction. Derivation: an      *)
(* account has the same addresses wherever they are derived, and a signed  *)
(* request is accepted exactly if the owner of the account signed it.      *)
(* PandoTx: no transaction whose push was answered "ok" is forgotten: the  *)
(* index and the entry that a call of the watchdog read before it waited   *)
(* are still those of the list when it removes the entry.                  *)
(***************************************************************************)
EXTENDS Queue, Authorizations, Notifications, Derivation, PandoTx, FiniteSetTheorems,
        SequenceTheorems, TLAPS

-----------------------------------------------------------------------------
(* Queue: sequences *)

LEMMA ConsIsSeq ==
    ASSUME NEW S, NEW e \in S, NEW s \in Seq(S)
    PROVE  /\ <<e>> \o s \in Seq(S)
           /\ <<e>> \o s # <<>>
           /\ Len(<<e>> \o s) = Len(s) + 1
<1>1. <<e>> \in Seq(S) /\ Len(<<e>>) = 1
  OBVIOUS
<1> QED BY <1>1, ConcatProperties

LEMMA HeadTailOfCons ==
    ASSUME NEW S, NEW e \in S, NEW s \in Seq(S)
    PROVE  Head(<<e>> \o s) = e /\ Tail(<<e>> \o s) = s
<1> DEFINE c == <<e>> \o s
<1>1. <<e>> \in Seq(S) /\ Len(<<e>>) = 1 /\ <<e>>[1] = e
  OBVIOUS
<1>2. c \in Seq(S) /\ c # <<>> /\ Len(c) = Len(s) + 1
  BY ConsIsSeq
<1>3. \A i \in 1 .. Len(s) + 1 : c[i] = IF i <= 1 THEN e ELSE s[i - 1]
  BY <1>1, ConcatProperties
<1>4. Head(c) = e
  BY <1>2, <1>3
<1>5. Tail(c) \in Seq(S) /\ Len(Tail(c)) = Len(s)
  BY <1>2, HeadTailProperties
<1>6. \A i \in 1 .. Len(s) : Tail(c)[i] = s[i]
  BY <1>2, <1>3
<1>7. Tail(c) = s
  BY <1>5, <1>6, SeqEqual
<1> QED BY <1>4, <1>7

LEMMA ConsConcat ==
    ASSUME NEW S, NEW e \in S, NEW s \in Seq(S), NEW t \in Seq(S)
    PROVE  (<<e>> \o s) \o t = <<e>> \o (s \o t)
<1> DEFINE one == <<e>>
<1>1. one \in Seq(S)
  OBVIOUS
<1>2. (one \o s) \o t = one \o (s \o t)
  <2> HIDE DEF one
  <2> QED BY <1>1, ConcatAssociative
<1> QED BY <1>2

LEMMA ConsOfHeadTail ==
    ASSUME NEW S, NEW s \in Seq(S), s # <<>>
    PROVE  <<Head(s)>> \o Tail(s) = s
<1>1. Head(s) \in S /\ Tail(s) \in Seq(S) /\ Len(Tail(s)) = Len(s) - 1
  BY HeadTailProperties
<1>2. <<Head(s)>> \in Seq(S) /\ Len(<<Head(s)>>) = 1 /\ <<Head(s)>>[1] = s[1]
  BY <1>1
<1>3. \A i \in 1 .. Len(s) - 1 : Tail(s)[i] = s[i + 1]
  OBVIOUS
<1>4. \A i \in 1 .. Len(s) : (<<Head(s)>> \o Tail(s))[i] = s[i]
  BY <1>1, <1>2, <1>3, ConcatProperties
<1>5. <<Head(s)>> \o Tail(s) \in Seq(S) /\ Len(<<Head(s)>> \o Tail(s)) = Len(s)
  BY <1>1, ConsIsSeq
<1> QED BY <1>4, <1>5, SeqEqual

-----------------------------------------------------------------------------
(* Queue: the inductive invariant *)

Chunks(p, left) ==
    \A i \in DOMAIN left :
        /\ Len(left[i]) \in 1 .. ChunkSize
        /\ \A k \in DOMAIN left[i] : left[i][k].of = p

\* Nothing of p waits or is in work.
Settled(p) ==
    /\ working # NoItem => working.of # p
    /\ \A i \in DOMAIN items : items[i].of # p

ProducerOK(p) ==
    /\ Chunks(p, producer[p].left)
    /\ producer[p].step \in {"fetch", "waterMark"} => producer[p].left # <<>>
    /\ producer[p].step \in {"finished", "awake", "returned"} => producer[p].left = <<>>
    /\ producer[p].step = "waterMark" => isWaterMarkExceeded
    /\ producer[p].step = "finished" => working # NoItem
    /\ producer[p].step = "awake" => Settled(p)

\* The loop of onPush runs exactly while an item is in work; the mark is set whenever
\* it is reached, and only while there is work whose end will clear it.
LoopOK ==
    /\ working = NoItem => items = <<>>
    /\ isProcessing <=> working # NoItem
    /\ ~isWaterMarkExceeded => Len(items) < HighWaterMark
    /\ isWaterMarkExceeded => working # NoItem /\ Len(items) >= HighWaterMark - 1

\* The producers that have passed their wait.
Fetching == {p \in Producers : producer[p].step = "fetch"}

\* Each of them may still push a chunk.
RoomOK ==
    Len(items) + ChunkSize * Cardinality(Fetching)
        < HighWaterMark + ChunkSize * Cardinality(Producers)

QueueIInv ==
    /\ QueueTypeOK
    /\ LoopOK
    /\ \A p \in Producers : ProducerOK(p)
    /\ RoomOK

-----------------------------------------------------------------------------
LEMMA FetchingCardinality ==
    ASSUME NEW F \in SUBSET Producers
    PROVE  /\ IsFiniteSet(F) /\ Cardinality(F) \in Nat
           /\ Cardinality(Producers) \in Nat
           /\ Cardinality(F) <= Cardinality(Producers)
BY FS_Subset, FS_CardinalityType, QueueAssumption

\* Below the mark there is room for a chunk of every producer.
LEMMA RoomBelowMark ==
    ASSUME NEW n \in Nat, n < HighWaterMark, NEW F \in SUBSET Producers
    PROVE  n + ChunkSize * Cardinality(F)
             < HighWaterMark + ChunkSize * Cardinality(Producers)
<1> DEFINE a == Cardinality(F)
           b == Cardinality(Producers)
<1>1. a \in Nat /\ b \in Nat /\ a <= b
  BY FetchingCardinality
<1>2. ASSUME NEW c \in Nat, NEW x \in Nat, NEW y \in Nat, x <= y
      PROVE  c * x <= c * y
  BY <1>2
<1>3. ChunkSize * a <= ChunkSize * b
  <2> HIDE DEF a, b
  <2> QED BY <1>1, <1>2, QueueAssumption
<1>4. ChunkSize * a \in Nat /\ ChunkSize * b \in Nat
  <2> HIDE DEF a, b
  <2> QED BY <1>1, QueueAssumption
<1> QED
  <2> HIDE DEF a, b
  <2> DEFINE ca == ChunkSize * a
             cb == ChunkSize * b
  <2>1. n + ca < HighWaterMark + cb
    <3>1. ca \in Nat /\ cb \in Nat /\ ca <= cb
      BY <1>3, <1>4
    <3> HIDE DEF ca, cb
    <3> QED BY <3>1, QueueAssumption
  <2> QED BY <2>1 DEF a, b, ca, cb

LEMMA InitHolds == QueueInit => QueueIInv
<1> SUFFICES ASSUME QueueInit PROVE QueueIInv
  OBVIOUS
<1> USE DEF QueueInit
<1>1. QueueTypeOK
  <2>1. producer \in [Producers -> [step : {"start"}, left : Seq(Seq(Items))]]
    BY QueueAssumption
  <2>2. items \in Seq(Items) /\ processed \in Seq(Items)
    BY EmptySeq
  <2>3. isProcessing \in BOOLEAN /\ isWaterMarkExceeded \in BOOLEAN /\ alive \in BOOLEAN
    OBVIOUS
  <2> QED BY <2>1, <2>2, <2>3 DEF QueueTypeOK
<1>2. LoopOK
  BY QueueAssumption DEF LoopOK
<1>3. \A p \in Producers : ProducerOK(p)
  BY QueueAssumption DEF ProducerOK, Chunks
<1>4. RoomOK
  BY RoomBelowMark, QueueAssumption DEF RoomOK, Fetching
<1> QED BY <1>1, <1>2, <1>3, <1>4 DEF QueueIInv

\* Where a producer goes after a statement: it waits at the mark only when the mark is
\* exceeded, and for the end only when the loop runs.
LEMMA NextWaitOK ==
    ASSUME NEW left \in Seq(Seq(Items)), NEW exceeded \in BOOLEAN, NEW processing \in BOOLEAN
    PROVE  LET next == NextWait(left, exceeded, processing)
           IN  /\ next \in {"waterMark", "fetch", "finished", "awake"}
               /\ next \in {"waterMark", "fetch"} <=> left # <<>>
               /\ next = "waterMark" => exceeded
               /\ next = "fetch" => ~exceeded
               /\ next = "finished" => processing
               /\ next = "awake" => ~processing
BY DEF NextWait

LEMMA StartRangeStep ==
    ASSUME QueueIInv, NEW p \in Producers, StartRange(p)
    PROVE  QueueIInv'
<1> DEFINE next == NextWait(producer[p].left, isWaterMarkExceeded, isProcessing)
<1> USE DEF QueueIInv
<1>1. producer[p].left \in Seq(Seq(Items)) /\ producer[p].step = "start"
  BY DEF QueueTypeOK, StartRange
<1>2. /\ next \in {"waterMark", "fetch", "finished", "awake"}
      /\ next \in {"waterMark", "fetch"} <=> producer[p].left # <<>>
      /\ next = "waterMark" => isWaterMarkExceeded
      /\ next = "fetch" => ~isWaterMarkExceeded
      /\ next = "finished" => isProcessing
      /\ next = "awake" => ~isProcessing
  BY <1>1, NextWaitOK DEF QueueTypeOK
<1>3. producer' = [producer EXCEPT ![p].step = next]
  BY DEF StartRange
<1> HIDE DEF next
<1>4. /\ \A q \in Producers : producer'[q].left = producer[q].left
      /\ \A q \in Producers \ {p} : producer'[q] = producer[q]
      /\ producer'[p].step = next
  BY <1>3 DEF QueueTypeOK
<1>5. UNCHANGED <<items, working, isProcessing, isWaterMarkExceeded, alive, processed>>
  BY DEF StartRange
<1>6. QueueTypeOK'
  BY <1>2, <1>3, <1>5 DEF QueueTypeOK
<1>7. LoopOK'
  BY <1>5 DEF LoopOK
<1>8. ASSUME NEW q \in Producers PROVE ProducerOK(q)'
  <2>1. ProducerOK(q)
    OBVIOUS
  <2>2. CASE q # p
    BY <2>1, <2>2, <1>4, <1>5 DEF ProducerOK, Settled
  <2>3. CASE q = p
    BY <2>1, <2>3, <1>2, <1>4, <1>5 DEF ProducerOK, Settled, LoopOK
  <2> QED BY <2>2, <2>3
<1>9. RoomOK'
  <2>1. CASE next = "fetch"
    <3>1. Len(items) < HighWaterMark /\ Len(items) \in Nat
      BY <2>1, <1>2 DEF LoopOK, QueueTypeOK
    <3> QED BY <3>1, <1>5, RoomBelowMark DEF RoomOK, Fetching
  <2>2. CASE next # "fetch"
    <3>1. Fetching' = Fetching
      BY <2>2, <1>1, <1>4 DEF Fetching
    <3> QED BY <3>1, <1>5 DEF RoomOK
  <2> QED BY <2>1, <2>2
<1> QED BY <1>6, <1>7, <1>8, <1>9

LEMMA ReturnStep ==
    ASSUME QueueIInv, NEW p \in Producers, ReturnFromRange(p)
    PROVE  QueueIInv'
<1> USE DEF QueueIInv, ReturnFromRange
<1>1. /\ \A q \in Producers : producer'[q].left = producer[q].left
      /\ \A q \in Producers \ {p} : producer'[q] = producer[q]
      /\ producer'[p].step = "returned"
  BY DEF QueueTypeOK
<1>2. QueueTypeOK'
  BY DEF QueueTypeOK
<1>3. LoopOK'
  BY DEF LoopOK
<1>4. ASSUME NEW q \in Producers PROVE ProducerOK(q)'
  BY <1>1 DEF ProducerOK, Settled
<1>5. RoomOK'
  <2>1. Fetching' = Fetching
    BY <1>1 DEF Fetching
  <2> QED BY <2>1 DEF RoomOK
<1> QED BY <1>2, <1>3, <1>4, <1>5

LEMMA FinishItemStep ==
    ASSUME QueueIInv, FinishItem
    PROVE  QueueIInv'
<1> USE DEF QueueIInv
<1>1. /\ items \in Seq(Items) /\ Len(items) \in Nat
      /\ items # <<>> => /\ Head(items) \in Items /\ Tail(items) \in Seq(Items)
                         /\ Len(Tail(items)) = Len(items) - 1 /\ Len(items) > 0
      /\ items = <<>> => Len(items) = 0
      /\ HighWaterMark \in Nat \ {0}
      /\ NoItem \notin Items
  BY HeadTailProperties, EmptySeq, QueueAssumption DEF QueueTypeOK
<1>2. /\ items' \in Seq(Items) /\ Len(items') \in Nat /\ Len(items') <= Len(items)
      /\ working' \in Items \cup {NoItem}
      /\ working' = NoItem <=> items = <<>>
      /\ items = <<>> => items' = <<>>
  BY <1>1, EmptySeq DEF FinishItem
<1>3. \A q \in Producers :
        /\ producer'[q].left = producer[q].left
        /\ producer'[q].step = Woken(producer[q].step, items = <<>>)
        /\ producer'[q] \in [step : {"start", "waterMark", "fetch", "finished", "awake",
                                     "returned"}, left : Seq(Seq(Items))]
  BY DEF FinishItem, QueueTypeOK, Woken
<1>4. QueueTypeOK'
  <2>1. producer' \in [Producers -> [step : {"start", "waterMark", "fetch", "finished",
                                            "awake", "returned"}, left : Seq(Seq(Items))]]
    BY <1>3 DEF FinishItem
  <2>2. working \in Items
    BY DEF FinishItem, QueueTypeOK
  <2>3. processed' \in Seq(Items)
    BY <2>2, AppendProperties DEF FinishItem, QueueTypeOK
  <2>4. isProcessing' \in BOOLEAN /\ isWaterMarkExceeded' \in BOOLEAN /\ alive' \in BOOLEAN
    BY DEF FinishItem, OnFinished, QueueTypeOK
  <2> QED BY <2>1, <2>3, <2>4, <1>2 DEF QueueTypeOK
<1>5. LoopOK'
  <2>1. isWaterMarkExceeded' <=> isWaterMarkExceeded /\ Len(items) >= HighWaterMark
    BY DEF FinishItem
  <2>2. isProcessing' <=> items # <<>>
    BY DEF FinishItem, OnFinished
  <2>3. ~isWaterMarkExceeded' => Len(items') < HighWaterMark
    BY <2>1, <1>1, <1>2 DEF LoopOK
  <2>4. isWaterMarkExceeded' => working' # NoItem /\ Len(items') >= HighWaterMark - 1
    BY <2>1, <1>1, <1>2 DEF FinishItem
  <2> QED BY <2>2, <2>3, <2>4, <1>2 DEF LoopOK
<1>6. ASSUME NEW q \in Producers PROVE ProducerOK(q)'
  <2>1. ProducerOK(q) /\ LoopOK
    OBVIOUS
  <2>2. Chunks(q, producer[q].left)'
    BY <2>1, <1>3 DEF ProducerOK, Chunks
  <2>3. /\ producer'[q].step \in {"fetch", "waterMark"} => producer'[q].left # <<>>
        /\ producer'[q].step \in {"finished", "awake", "returned"} => producer'[q].left = <<>>
    BY <2>1, <1>3 DEF ProducerOK, Woken
  <2>4. producer'[q].step = "waterMark" => isWaterMarkExceeded'
    <3> SUFFICES ASSUME producer'[q].step = "waterMark" PROVE isWaterMarkExceeded'
      OBVIOUS
    <3>1. producer[q].step = "waterMark" /\ Len(items) >= HighWaterMark
      BY <1>1, <1>3 DEF Woken
    <3> QED BY <3>1, <2>1 DEF ProducerOK, FinishItem
  <2>5. producer'[q].step = "finished" => working' # NoItem
    BY <1>2, <1>3 DEF Woken
  <2>6. producer'[q].step = "awake" => Settled(q)'
    <3> SUFFICES ASSUME producer'[q].step = "awake" PROVE Settled(q)'
      OBVIOUS
    <3>1. CASE items = <<>>
      BY <3>1, <1>2 DEF Settled
    <3>2. CASE items # <<>>
      <4>1. producer[q].step = "awake"
        BY <3>2, <1>3 DEF Woken
      <4>2. Settled(q)
        BY <4>1, <2>1 DEF ProducerOK
      <4>3. /\ working' = items[1]
            /\ \A i \in 1 .. Len(items') : items'[i] = items[i + 1]
            /\ Len(items') = Len(items) - 1
        BY <3>2, <1>1 DEF FinishItem
      <4> QED BY <4>2, <4>3, <1>1, <1>2, <3>2 DEF Settled
    <3> QED BY <3>1, <3>2
  <2> QED BY <2>2, <2>3, <2>4, <2>5, <2>6 DEF ProducerOK
<1>7. RoomOK'
  <2>1. CASE Len(items) < HighWaterMark
    <3>1. Fetching' \in SUBSET Producers
      BY DEF Fetching
    <3>2. Len(items') < HighWaterMark
      BY <2>1, <1>1, <1>2
    <3> QED BY <3>1, <3>2, <1>2, RoomBelowMark DEF RoomOK
  <2>2. CASE ~(Len(items) < HighWaterMark)
    <3>1. Fetching' = Fetching
      BY <2>2, <1>3 DEF Fetching, Woken
    <3> DEFINE a == ChunkSize * Cardinality(Fetching)
               b == ChunkSize * Cardinality(Producers)
    <3>2. a \in Nat /\ b \in Nat
      BY FetchingCardinality, QueueAssumption DEF Fetching
    <3>3. Len(items) + a < HighWaterMark + b
      BY DEF RoomOK
    <3>4. Len(items') + a < HighWaterMark + b
      <4> HIDE DEF a, b
      <4> QED BY <3>2, <3>3, <1>1, <1>2
    <3> QED BY <3>1, <3>4 DEF RoomOK
  <2> QED BY <2>1, <2>2
<1> QED BY <1>4, <1>5, <1>6, <1>7

LEMMA PushChunkStep ==
    ASSUME QueueIInv, NEW p \in Producers, PushChunk(p)
    PROVE  QueueIInv'
<1> DEFINE chunk == Head(producer[p].left)
           left == Tail(producer[p].left)
           next == NextWait(left, isWaterMarkExceeded', TRUE)
           all == items \o chunk
<1> USE DEF QueueIInv
<1>1. /\ producer[p].left \in Seq(Seq(Items)) /\ producer[p].left # <<>>
      /\ producer[p].step = "fetch"
      /\ Chunks(p, producer[p].left)
      /\ items \in Seq(Items)
  BY DEF QueueTypeOK, PushChunk, ProducerOK
<1>2. /\ chunk \in Seq(Items) /\ left \in Seq(Seq(Items))
      /\ Len(chunk) \in 1 .. ChunkSize
      /\ \A k \in DOMAIN chunk : chunk[k].of = p
  <2>1. 1 \in DOMAIN producer[p].left /\ chunk = producer[p].left[1]
    BY <1>1
  <2> QED BY <2>1, <1>1, HeadTailProperties DEF Chunks
<1>3. Chunks(p, left)
  <2>1. \A i \in DOMAIN left : i + 1 \in DOMAIN producer[p].left
                              /\ left[i] = producer[p].left[i + 1]
    BY <1>1
  <2> QED BY <2>1, <1>1 DEF Chunks
<1>4. /\ all \in Seq(Items) /\ all # <<>>
      /\ Len(all) = Len(items) + Len(chunk)
      /\ Len(items) \in Nat /\ Len(all) \in Nat /\ Len(chunk) \in Nat
      /\ ChunkSize \in Nat /\ HighWaterMark \in Nat
      /\ NoItem \notin Items
  <2> HIDE DEF chunk, QueueIInv
  <2>0. items \in Seq(Items) /\ chunk \in Seq(Items) /\ Len(chunk) \in 1 .. ChunkSize
    BY <1>1, <1>2
  <2>1. /\ items \in Seq(Items) /\ chunk \in Seq(Items)
        /\ Len(items) \in Nat /\ Len(chunk) \in Nat /\ Len(chunk) > 0
    BY <2>0, QueueAssumption
  <2>2. all \in Seq(Items) /\ Len(all) = Len(items) + Len(chunk)
    BY <2>1, ConcatProperties
  <2> HIDE DEF all
  <2>3. Len(all) \in Nat /\ Len(all) > 0
    BY <2>1, <2>2
  <2>4. all # <<>>
    BY <2>2, <2>3, EmptySeq
  <2> QED BY <2>1, <2>2, <2>3, <2>4, QueueAssumption
<1>5. /\ Head(all) \in Items /\ Tail(all) \in Seq(Items)
      /\ Len(Tail(all)) = Len(all) - 1
  BY <1>4, HeadTailProperties
<1>6. /\ isWaterMarkExceeded' \in BOOLEAN
      /\ isWaterMarkExceeded' <=> Len(all) >= HighWaterMark
      /\ isProcessing' = TRUE
      /\ items' = IF isProcessing THEN all ELSE Tail(all)
      /\ working' = IF isProcessing THEN working ELSE Head(all)
      /\ alive' = alive /\ processed' = processed
  <2>1. OnPush(chunk) /\ alive' = alive /\ processed' = processed
    BY DEF PushChunk
  <2>2. isWaterMarkExceeded' = (Len(all) >= HighWaterMark)
    BY <2>1 DEF OnPush
  <2> HIDE DEF all
  <2>3. isWaterMarkExceeded' \in BOOLEAN /\ (isWaterMarkExceeded' <=> Len(all) >= HighWaterMark)
    <3>1. CASE Len(all) >= HighWaterMark
      BY <2>2, <3>1
    <3>2. CASE ~(Len(all) >= HighWaterMark)
      <4>1. (Len(all) >= HighWaterMark) = FALSE
        BY <3>2
      <4>2. isWaterMarkExceeded' = FALSE
        BY <2>2, <4>1
      <4> QED BY <3>2, <4>2
    <3> QED BY <3>1, <3>2
  <2> QED BY <2>1, <2>3 DEF OnPush, all
<1>7. producer' = [producer EXCEPT ![p] = [step |-> next, left |-> left]]
  BY DEF PushChunk
<1>8. /\ next \in {"waterMark", "fetch", "finished"}
      /\ next \in {"waterMark", "fetch"} <=> left # <<>>
      /\ next = "waterMark" => isWaterMarkExceeded'
      /\ next = "fetch" => ~isWaterMarkExceeded'
  BY <1>2, <1>6, NextWaitOK
<1> HIDE DEF chunk, left, next, all
<1>9. /\ \A q \in Producers \ {p} : producer'[q] = producer[q]
      /\ producer'[p] = [step |-> next, left |-> left]
  BY <1>7 DEF QueueTypeOK
<1>10. /\ items' \in Seq(Items) /\ Len(items') \in Nat /\ Len(items') <= Len(all)
       /\ working' \in Items
  BY <1>4, <1>5, <1>6 DEF LoopOK, QueueTypeOK
<1>11. QueueTypeOK'
  <2>1. producer' \in [Producers -> [step : {"start", "waterMark", "fetch", "finished",
                                            "awake", "returned"}, left : Seq(Seq(Items))]]
    BY <1>2, <1>7, <1>8 DEF QueueTypeOK
  <2> QED BY <2>1, <1>6, <1>10 DEF QueueTypeOK
<1>12. LoopOK'
  <2>1. working' # NoItem
    BY <1>4, <1>10
  <2>2. ~isWaterMarkExceeded' => Len(items') < HighWaterMark
    BY <1>4, <1>6, <1>10
  <2>3. isWaterMarkExceeded' => Len(items') >= HighWaterMark - 1
    BY <1>4, <1>5, <1>6
  <2> QED BY <2>1, <2>2, <2>3, <1>6 DEF LoopOK
<1>13. ASSUME NEW q \in Producers PROVE ProducerOK(q)'
  <2>1. ProducerOK(q)
    OBVIOUS
  <2>2. CASE q = p
    BY <2>2, <1>3, <1>4, <1>8, <1>9, <1>10 DEF ProducerOK, Chunks
  <2>3. CASE q # p
    <3>1. producer'[q] = producer[q]
      BY <2>3, <1>9
    <3>2. isWaterMarkExceeded => isWaterMarkExceeded'
      <4>1. isWaterMarkExceeded => Len(items) >= HighWaterMark - 1
        BY DEF LoopOK
      <4> QED BY <4>1, <1>2, <1>4, <1>6
    <3>3. working' # NoItem
      BY <1>4, <1>10
    <3>4. producer'[q].step = "awake" => Settled(q)'
      <4> SUFFICES ASSUME producer[q].step = "awake" PROVE Settled(q)'
        BY <3>1
      <4>1. Settled(q)
        BY <2>1 DEF ProducerOK
      <4>2. \A i \in 1 .. Len(all) : all[i].of # q
        <5>1. \A i \in 1 .. Len(all) :
                 all[i] = IF i <= Len(items) THEN items[i] ELSE chunk[i - Len(items)]
          BY <1>1, <1>2, <1>4, ConcatProperties DEF all
        <5>2. \A i \in 1 .. Len(items) : items[i].of # q
          BY <4>1, <1>1 DEF Settled
        <5>3. \A i \in 1 .. Len(chunk) : chunk[i].of # q
          BY <2>3, <1>2
        <5> QED BY <5>1, <5>2, <5>3, <1>4
      <4>3. CASE isProcessing
        BY <4>1, <4>2, <4>3, <1>4, <1>6 DEF Settled
      <4>4. CASE ~isProcessing
        <5>1. Head(all) = all[1] /\ \A i \in 1 .. Len(Tail(all)) : Tail(all)[i] = all[i + 1]
          BY <1>4, <1>5
        <5> QED BY <4>2, <4>4, <5>1, <1>4, <1>5, <1>6 DEF Settled
      <4> QED BY <4>3, <4>4
    <3> QED BY <2>1, <3>1, <3>2, <3>3, <3>4 DEF ProducerOK
  <2> QED BY <2>2, <2>3
<1>14. RoomOK'
  <2>1. Fetching \in SUBSET Producers /\ Fetching' \in SUBSET Producers /\ p \in Fetching
    BY <1>1 DEF Fetching
  <2>2. CASE next = "fetch"
    <3>1. Len(items') < HighWaterMark
      BY <2>2, <1>4, <1>6, <1>8, <1>10
    <3> QED BY <3>1, <2>1, <1>10, RoomBelowMark DEF RoomOK
  <2>3. CASE next # "fetch"
    <3>1. Fetching' = Fetching \ {p}
      BY <2>3, <1>9 DEF Fetching
    <3> DEFINE a == Cardinality(Fetching)
               b == Cardinality(Producers)
    <3>2. Cardinality(Fetching') = a - 1
      BY <3>1, <2>1, FS_RemoveElement, FetchingCardinality
    <3>3. a \in Nat /\ b \in Nat
      BY <2>1, FetchingCardinality
    <3>4. Len(items) + ChunkSize * a < HighWaterMark + ChunkSize * b
      BY DEF RoomOK
    <3>5. Len(items') <= Len(items) + ChunkSize
      BY <1>2, <1>4, <1>10
    <3> HIDE DEF a, b
    <3>6. /\ ChunkSize * (a - 1) = ChunkSize * a - ChunkSize
          /\ ChunkSize * a \in Int /\ ChunkSize * b \in Int
      BY <3>3, <1>4
    <3> DEFINE ca == ChunkSize * a
               cb == ChunkSize * b
    <3>7. Len(items') + (ca - ChunkSize) < HighWaterMark + cb
      <4>1. ca \in Int /\ cb \in Int /\ Len(items) + ca < HighWaterMark + cb
        BY <3>4, <3>6
      <4> HIDE DEF ca, cb
      <4> QED BY <4>1, <3>5, <1>4, <1>10
    <3> QED BY <3>2, <3>6, <3>7 DEF RoomOK, a, b, ca, cb
  <2> QED BY <2>2, <2>3
<1> QED BY <1>11, <1>12, <1>13, <1>14

-----------------------------------------------------------------------------
\* The queue does not depend on the process but for `alive`.
LEMMA UnchangedStep ==
    ASSUME QueueIInv, alive' \in BOOLEAN,
           UNCHANGED <<items, working, isProcessing, isWaterMarkExceeded, producer, processed>>
    PROVE  QueueIInv'
<1>1. QueueTypeOK'
  BY DEF QueueIInv, QueueTypeOK
<1>2. LoopOK'
  BY DEF QueueIInv, LoopOK
<1>3. \A p \in Producers : ProducerOK(p)'
  BY DEF QueueIInv, ProducerOK, Chunks, Settled
<1>4. RoomOK'
  BY DEF QueueIInv, RoomOK, Fetching
<1> QED BY <1>1, <1>2, <1>3, <1>4 DEF QueueIInv

LEMMA NextHolds == QueueIInv /\ [QueueNext]_queueVars => QueueIInv'
<1> SUFFICES ASSUME QueueIInv, [QueueNext]_queueVars PROVE QueueIInv'
  OBVIOUS
<1>1. ASSUME NEW p \in Producers, Produce(p) PROVE QueueIInv'
  BY <1>1, StartRangeStep, PushChunkStep, ReturnStep DEF Produce
<1>2. CASE FinishItem
  BY <1>2, FinishItemStep
<1>3. CASE Exit
  <2>1. alive' = FALSE /\ UNCHANGED <<items, working, isProcessing, isWaterMarkExceeded,
                                      producer, processed>>
    BY <1>3 DEF Exit
  <2> QED BY <2>1, UnchangedStep
<1>4. CASE UNCHANGED queueVars
  BY <1>4, UnchangedStep DEF queueVars, QueueIInv, QueueTypeOK
<1> QED BY <1>1, <1>2, <1>3, <1>4 DEF QueueNext

\* The strengthening of what follows holds in every reachable state.
THEOREM QueueInductive == QueueSpec => []QueueIInv
BY InitHolds, NextHolds, PTL DEF QueueSpec

\* A producer that waits is never left without an item whose end wakes it.
THEOREM NobodySleepsThrough == QueueSpec => []NoMissedWakeup
<1>1. QueueIInv => NoMissedWakeup
  BY DEF QueueIInv, ProducerOK, LoopOK, NoMissedWakeup, waterMarkQueue, finishedEmitterQueue
<1> QED BY <1>1, QueueInductive, PTL

\* The water mark bounds the queue, for any number of producers.
THEOREM WaterMarkHolds == QueueSpec => []QueueBounded
<1>1. QueueIInv => QueueBounded
  <2> SUFFICES ASSUME QueueIInv PROVE QueueBounded
    OBVIOUS
  <2> DEFINE a == ChunkSize * Cardinality(Fetching)
             b == ChunkSize * Cardinality(Producers)
  <2>1. a \in Nat /\ b \in Nat /\ Len(items) \in Nat /\ HighWaterMark \in Nat
    <3>1. Cardinality(Fetching) \in Nat /\ Cardinality(Producers) \in Nat
      BY FetchingCardinality DEF Fetching
    <3>2. items \in Seq(Items)
      BY DEF QueueIInv, QueueTypeOK
    <3> QED BY <3>1, <3>2, QueueAssumption
  <2>2. Len(items) + a < HighWaterMark + b
    BY DEF QueueIInv, RoomOK
  <2>3. Len(items) < HighWaterMark + b
    <3> HIDE DEF a, b
    <3> QED BY <2>1, <2>2
  <2> QED BY <2>3 DEF QueueBounded
<1> QED BY <1>1, QueueInductive, PTL

\* checkWaterMark wakes whom it has to, and the producers wait when they have to.
THEOREM BackPressure == QueueSpec => []BackPressureWorks
BY NobodySleepsThrough, WaterMarkHolds, PTL DEF BackPressureWorks

-----------------------------------------------------------------------------
(* Queue: the refinement of Fifo *)

Pending == (IF working = NoItem THEN <<>> ELSE <<working>>) \o items

LEMMA PendingIsSeq ==
    ASSUME QueueIInv
    PROVE  /\ Pending \in Seq(Items)
           /\ items \in Seq(Items)
           /\ working = NoItem => Pending = <<>>
           /\ working # NoItem => working \in Items /\ Pending = <<working>> \o items
BY ConcatProperties, EmptySeq DEF Pending, QueueIInv, LoopOK, QueueTypeOK

LEMMA InitRefines == QueueInit => Implemented!FifoInit
<1> SUFFICES ASSUME QueueInit PROVE Implemented!FifoInit
  OBVIOUS
<1>1. Pending = <<>>
  BY DEF QueueInit, Pending
<1>2. [p \in Producers |-> producer[p].left] = Work
  BY QueueAssumption DEF QueueInit
<1>3. {p \in Producers : producer[p].step = "returned"} = {}
  BY DEF QueueInit
<1> QED BY <1>1, <1>2, <1>3 DEF QueueInit, Implemented!FifoInit, Pending

\* A push is an Accept; the wait that follows it shows in no variable of Fifo.
LEMMA PushRefines ==
    ASSUME QueueIInv, alive, NEW p \in Producers, PushChunk(p)
    PROVE  Implemented!Accept(p)
<1> DEFINE chunk == Head(producer[p].left)
           rest == Tail(producer[p].left)
           next == NextWait(rest, isWaterMarkExceeded', TRUE)
<1>1. /\ producer[p].left \in Seq(Seq(Items)) /\ producer[p].left # <<>>
      /\ producer[p].step = "fetch"
      /\ items \in Seq(Items)
      /\ producer \in [Producers -> [step : {"start", "waterMark", "fetch", "finished",
                                           "awake", "returned"}, left : Seq(Seq(Items))]]
  BY DEF QueueIInv, QueueTypeOK, PushChunk, ProducerOK
<1>2. chunk \in Seq(Items) /\ chunk # <<>>
  <2>1. 1 \in DOMAIN producer[p].left /\ chunk = producer[p].left[1]
    BY <1>1
  <2>2. Len(chunk) \in 1 .. ChunkSize
    BY <2>1 DEF QueueIInv, ProducerOK, Chunks
  <2>3. chunk \in Seq(Items)
    BY <1>1, HeadTailProperties
  <2> QED BY <2>2, <2>3, EmptySeq, QueueAssumption
<1>3. Pending' = Pending \o chunk
  <2>1. CASE isProcessing
    <3>1. working # NoItem /\ working' = working /\ items' = items \o chunk
      BY <2>1 DEF QueueIInv, LoopOK, PushChunk, OnPush
    <3>2. <<working>> \in Seq(Items)
      BY <3>1, PendingIsSeq
    <3>3. (<<working>> \o items) \o chunk = <<working>> \o (items \o chunk)
      <4> HIDE DEF chunk
      <4>1. working \in Items
        BY <3>1, PendingIsSeq
      <4> QED BY <4>1, <1>1, <1>2, ConsConcat
    <3>4. Pending = <<working>> \o items
      BY <3>1 DEF Pending
    <3>5. Pending' = <<working'>> \o items'
      BY <3>1 DEF Pending
    <3> QED BY <3>1, <3>3, <3>4, <3>5
  <2>2. CASE ~isProcessing
    <3>1. working = NoItem /\ items = <<>>
      BY <2>2 DEF QueueIInv, LoopOK
    <3>2. items \o chunk = chunk
      BY <3>1, <1>2, ConcatEmptySeq
    <3>3. working' = Head(chunk) /\ items' = Tail(chunk)
      BY <3>2, <2>2 DEF PushChunk, OnPush
    <3>4. Head(chunk) \in Items /\ NoItem \notin Items
      BY <1>2, HeadTailProperties, QueueAssumption
    <3>5. Pending' = chunk
      BY <3>3, <3>4, <1>2, ConsOfHeadTail DEF Pending
    <3> QED BY <3>1, <3>5, <1>2, PendingIsSeq, ConcatEmptySeq
  <2> QED BY <2>1, <2>2
<1>4. /\ producer' = [producer EXCEPT ![p] = [step |-> next, left |-> rest]]
      /\ alive' = alive /\ processed' = processed
  BY DEF PushChunk
<1>5. next # "returned"
  BY DEF NextWait
<1> HIDE DEF next
<1>6. /\ \A q \in Producers \ {p} : producer'[q] = producer[q]
      /\ producer'[p].left = rest /\ producer'[p].step # "returned"
  BY <1>1, <1>4, <1>5
<1>7. [q \in Producers |-> producer'[q].left]
        = [[q \in Producers |-> producer[q].left] EXCEPT ![p] = Tail(@)]
  BY <1>6
<1>8. {q \in Producers : producer'[q].step = "returned"}
        = {q \in Producers : producer[q].step = "returned"}
  BY <1>1, <1>6
<1> QED BY <1>1, <1>3, <1>4, <1>7, <1>8 DEF Implemented!Accept, Pending

LEMMA FinishRefines ==
    ASSUME QueueIInv, alive, FinishItem
    PROVE  Implemented!Process
<1>1. /\ working \in Items /\ items \in Seq(Items)
      /\ Pending = <<working>> \o items /\ Pending # <<>>
      /\ Head(Pending) = working /\ Tail(Pending) = items
  BY PendingIsSeq, ConsIsSeq, HeadTailOfCons DEF FinishItem
<1>2. Pending' = items
  <2>1. CASE items = <<>>
    BY <2>1 DEF FinishItem, Pending
  <2>2. CASE items # <<>>
    <3>1. Head(items) \in Items /\ NoItem \notin Items
      BY <2>2, <1>1, HeadTailProperties, QueueAssumption
    <3>2. working' = Head(items) /\ items' = Tail(items)
      BY <2>2 DEF FinishItem
    <3> QED BY <3>1, <3>2, <2>2, <1>1, ConsOfHeadTail DEF Pending
  <2> QED BY <2>1, <2>2
<1>3. \A q \in Producers :
        /\ producer'[q].left = producer[q].left
        /\ producer'[q].step = "returned" <=> producer[q].step = "returned"
  BY DEF QueueIInv, QueueTypeOK, FinishItem, Woken
<1>4. [q \in Producers |-> producer'[q].left] = [q \in Producers |-> producer[q].left]
  BY <1>3
<1>5. {q \in Producers : producer'[q].step = "returned"}
        = {q \in Producers : producer[q].step = "returned"}
  BY <1>3
<1>6. processed' = Append(processed, working) /\ alive' = alive
  BY DEF FinishItem
<1> QED BY <1>1, <1>2, <1>4, <1>5, <1>6 DEF Implemented!Process, Pending

LEMMA ReturnRefines ==
    ASSUME QueueIInv, alive, NEW p \in Producers, ReturnFromRange(p)
    PROVE  Implemented!GoOn(p)
<1>1. /\ producer[p].step = "awake" /\ producer[p].left = <<>> /\ Settled(p)
      /\ producer \in [Producers -> [step : {"start", "waterMark", "fetch", "finished",
                                           "awake", "returned"}, left : Seq(Seq(Items))]]
  BY DEF QueueIInv, QueueTypeOK, ReturnFromRange, ProducerOK
<1>2. \A i \in DOMAIN Pending : Pending[i].of # p
  <2>1. CASE working = NoItem
    BY <2>1, PendingIsSeq
  <2>2. CASE working # NoItem
    <3>1. /\ <<working>> \in Seq(Items) /\ Len(<<working>>) = 1 /\ <<working>>[1] = working
          /\ items \in Seq(Items) /\ Pending = <<working>> \o items
      BY <2>2, PendingIsSeq
    <3>2. /\ Len(Pending) = 1 + Len(items) /\ Pending \in Seq(Items)
          /\ \A i \in 1 .. 1 + Len(items) :
                Pending[i] = IF i <= 1 THEN working ELSE items[i - 1]
      BY <3>1, ConcatProperties
    <3>3. working.of # p /\ \A i \in 1 .. Len(items) : items[i].of # p
      BY <1>1, <2>2, <3>1 DEF Settled
    <3>4. PICK n \in Nat : n = Len(items)
      BY <3>1
    <3>5. PICK f : f = Pending
      OBVIOUS
    <3>6. DOMAIN f = 1 .. 1 + n
      BY <3>2, <3>4, <3>5
    <3>7. f[1] = working /\ \A i \in 1 .. n : f[i + 1] = items[i]
      <4>1. 1 \in 1 .. 1 + n
        OBVIOUS
      <4>2. \A i \in 1 .. n : i + 1 \in 1 .. 1 + n /\ ~(i + 1 <= 1) /\ (i + 1) - 1 = i
        OBVIOUS
      <4> QED BY <3>2, <3>4, <3>5, <4>1, <4>2
    <3>8. ASSUME NEW i \in 1 .. 1 + n PROVE f[i].of # p
      <4>1. CASE i = 1
        BY <3>3, <3>7, <4>1
      <4>2. CASE i # 1
        <5>1. i - 1 \in 1 .. n /\ (i - 1) + 1 = i
          BY <4>2
        <5>2. f[i] = items[i - 1]
          BY <3>7, <5>1
        <5> QED BY <3>3, <3>4, <5>1, <5>2
      <4> QED BY <4>1, <4>2
    <3> QED BY <3>5, <3>6, <3>8
  <2> QED BY <2>1, <2>2
<1>3. /\ producer' = [producer EXCEPT ![p].step = "returned"]
      /\ UNCHANGED <<items, working, alive, processed>>
  BY DEF ReturnFromRange
<1>4. \A q \in Producers :
        /\ producer'[q].left = producer[q].left
        /\ producer'[q].step = "returned" <=> q = p \/ producer[q].step = "returned"
  BY <1>1, <1>3
<1>5. [q \in Producers |-> producer'[q].left] = [q \in Producers |-> producer[q].left]
  BY <1>4
<1>6. {q \in Producers : producer'[q].step = "returned"}
        = {q \in Producers : producer[q].step = "returned"} \cup {p}
  BY <1>4
<1> QED BY <1>1, <1>2, <1>3, <1>5, <1>6 DEF Implemented!GoOn, Pending

LEMMA StartRefines ==
    ASSUME QueueIInv, NEW p \in Producers, StartRange(p)
    PROVE  UNCHANGED Implemented!fifoVars
<1>1. /\ producer[p].step = "start"
      /\ producer \in [Producers -> [step : {"start", "waterMark", "fetch", "finished",
                                           "awake", "returned"}, left : Seq(Seq(Items))]]
  BY DEF QueueIInv, QueueTypeOK, StartRange
<1>2. NextWait(producer[p].left, isWaterMarkExceeded, isProcessing) # "returned"
  BY DEF NextWait
<1>3. \A q \in Producers :
        /\ producer'[q].left = producer[q].left
        /\ producer'[q].step = "returned" <=> producer[q].step = "returned"
  BY <1>1, <1>2 DEF StartRange
<1>4. [q \in Producers |-> producer'[q].left] = [q \in Producers |-> producer[q].left]
  BY <1>3
<1>5. {q \in Producers : producer'[q].step = "returned"}
        = {q \in Producers : producer[q].step = "returned"}
  BY <1>3
<1> QED BY <1>4, <1>5 DEF StartRange, Implemented!fifoVars

LEMMA StepRefines ==
    QueueIInv /\ [QueueNext]_queueVars => [Implemented!FifoNext]_(Implemented!fifoVars)
<1> SUFFICES ASSUME QueueIInv, [QueueNext]_queueVars
             PROVE  Implemented!FifoNext \/ UNCHANGED Implemented!fifoVars
  OBVIOUS
<1>1. ASSUME alive, NEW p \in Producers, Produce(p)
      PROVE  Implemented!FifoNext \/ UNCHANGED Implemented!fifoVars
  BY <1>1, PushRefines, ReturnRefines, StartRefines DEF Produce, Implemented!FifoNext
<1>2. CASE alive /\ FinishItem
  BY <1>2, FinishRefines DEF Implemented!FifoNext
<1>3. CASE alive /\ Exit
  BY <1>3 DEF Exit, Implemented!Stop, Implemented!FifoNext
<1>4. CASE UNCHANGED queueVars
  BY <1>4 DEF queueVars, Implemented!fifoVars
<1> QED BY <1>1, <1>2, <1>3, <1>4 DEF QueueNext

\* The queue of blocks implements the plain queue: each step of it is a step of Fifo or
\* leaves Fifo's variables unchanged.
THEOREM QueueImplementsFifo == QueueSpec => ImplementsFifo
<1>1. QueueInit => Implemented!FifoInit
  BY InitRefines
<1>2. QueueIInv /\ [QueueNext]_queueVars => [Implemented!FifoNext]_(Implemented!fifoVars)
  BY StepRefines
<1> QED BY <1>1, <1>2, QueueInductive, PTL DEF QueueSpec, ImplementsFifo, Implemented!FifoSpec

-----------------------------------------------------------------------------
(* Authorizations *)

Tokens == [type : {"access-token", "refresh-token"}, prf : {"api", "admin"},
           exp : Nat, from : Credentials]

\* The history of the keys is up to date, and a login in progress found its key active
\* at this very time.
KeysOK ==
    /\ \A k \in ApiKeys : lastActive[k] <= now
    /\ \A k \in ApiKeys : IsApiKeyActive(k, apiKeys, now) => lastActive[k] = now
    /\ \A k \in logins : lastActive[k] = now

\* What a token of an API key, or of a challenge, can be: a refresh token ends RefreshExpires
\* after the key was last active at the latest, and an access token was made before. One of
\* a key of the configuration is not for the admin.
TokenOK(t, active, signed) ==
    /\ t.from \in ApiKeys =>
         /\ t.prf = "api"
         /\ t.type = "refresh-token" => t.exp <= active[t.from] + RefreshExpires
         /\ t.type = "access-token" => t.exp < active[t.from] + RefreshExpires + AccessExpires
    /\ t.from \in ConfiguredKeys => t.prf = "api"
    /\ t.from \in Nonces => t.from \in signed

TokensOK == \A t \in tokens : TokenOK(t, lastActive, approvals)

\* A challenge that is held opened no session, and was signed if it is approved.
NoncesOK ==
    \A n \in Nonces :
        /\ nonces[n].state \in {"unborn", "pending", "approved"} => sessions[n] = 0
        /\ nonces[n].state = "approved" => n \in approvals

AuthInv == AuthTypeOK /\ KeysOK /\ TokensOK /\ NoncesOK

-----------------------------------------------------------------------------
(* Tokens *)

\* A token stays what it can be when the key is active later, or a challenge is signed.
LEMMA TokenKept ==
    ASSUME AuthorizationsAssumption,
           NEW t \in Tokens,
           NEW a \in [ApiKeys -> Nat \cup {-1}], NEW b \in [ApiKeys -> Nat \cup {-1}],
           \A k \in ApiKeys : a[k] <= b[k],
           NEW s, NEW r, s \subseteq r, TokenOK(t, a, s)
    PROVE  TokenOK(t, b, r)
<1>1. CASE t.from \in ApiKeys
    BY <1>1 DEF AuthorizationsAssumption, TokenOK, Tokens
<1>2. CASE t.from \notin ApiKeys
    BY <1>2 DEF TokenOK
<1> QED BY <1>1, <1>2

\* Only later histories, and a step that makes no token, keep the tokens right.
LEMMA TokensKept ==
    ASSUME AuthorizationsAssumption, AuthInv, AuthTypeOK', tokens' \subseteq tokens,
           \A k \in ApiKeys : lastActive[k] <= lastActive'[k], approvals \subseteq approvals'
    PROVE  TokensOK'
<1>1. SUFFICES ASSUME NEW t \in tokens PROVE TokenOK(t, lastActive', approvals')
    BY DEF TokensOK
<1>2. t \in Tokens /\ TokenOK(t, lastActive, approvals)
    BY DEF AuthInv, AuthTypeOK, TokensOK, Tokens
<1>3. /\ lastActive \in [ApiKeys -> Nat \cup {-1}]
      /\ lastActive' \in [ApiKeys -> Nat \cup {-1}]
    BY DEF AuthInv, AuthTypeOK
<1> QED BY <1>2, <1>3, TokenKept

\* A refresh gives a token that ends before its refresh token plus its own lifetime.
LEMMA RefreshInv ==
    ASSUME AuthorizationsAssumption, AuthInv, NEW t \in tokens, RefreshAuthorizations(t)
    PROVE  AuthInv'
<1> DEFINE u == GenerateAccessToken(t.prf, t.from)
<1>1. /\ t \in Tokens /\ TokenOK(t, lastActive, approvals)
      /\ t.type = "refresh-token" /\ t.exp > now
    BY DEF AuthInv, AuthTypeOK, TokensOK, Tokens, RefreshAuthorizations, VerifyRefreshToken, Verify
<1>2. now \in Nat /\ AccessExpires \in Nat \ {0} /\ lastActive \in [ApiKeys -> Nat \cup {-1}]
      /\ RefreshExpires \in Nat
    BY DEF AuthInv, AuthTypeOK, AuthorizationsAssumption
<1>3. u \in Tokens
    BY <1>1, <1>2 DEF Tokens, GenerateAccessToken
<1>4. TokenOK(u, lastActive, approvals)
    <2>1. u.from = t.from /\ u.prf = t.prf /\ u.type = "access-token" /\ u.exp = now + AccessExpires
        BY DEF GenerateAccessToken
    <2>2. CASE t.from \in ApiKeys
        <3>1. t.prf = "api" /\ t.exp <= lastActive[t.from] + RefreshExpires
            BY <1>1, <2>2 DEF TokenOK
        <3>2. now + AccessExpires < lastActive[t.from] + RefreshExpires + AccessExpires
            BY <1>1, <1>2, <2>2, <3>1 DEF Tokens
        <3>3. t.from \notin Nonces /\ t.from \notin ConfiguredKeys
            BY <2>2 DEF AuthorizationsAssumption
        <3> QED BY <2>1, <3>1, <3>2, <3>3 DEF TokenOK
    <2>3. CASE t.from \notin ApiKeys
        BY <1>1, <2>1, <2>3 DEF TokenOK
    <2> QED BY <2>2, <2>3
<1>5. tokens' = tokens \cup {u}
    BY DEF RefreshAuthorizations
<1>6. UNCHANGED <<now, nonces, apiKeys, updating, logins, lastActive, approvals, sessions>>
    BY DEF RefreshAuthorizations
<1> HIDE DEF u
<1>7. AuthTypeOK'
    BY <1>3, <1>5, <1>6 DEF AuthInv, AuthTypeOK, Tokens
<1>8. TokensOK'
    BY <1>4, <1>5, <1>6 DEF AuthInv, TokensOK
<1> QED BY <1>6, <1>7, <1>8 DEF AuthInv, KeysOK, NoncesOK, IsApiKeyActive

\* The pair of tokens that a credential gives
LEMMA PairOK ==
    ASSUME AuthorizationsAssumption, AuthInv, NEW prf \in {"api", "admin"},
           NEW from \in Credentials, GenerateAuthorizations(prf, from),
           from \in ApiKeys => prf = "api" /\ lastActive[from] = now,
           from \in ConfiguredKeys => prf = "api",
           from \in Nonces => from \in approvals
    PROVE  /\ \A t \in tokens' : t \in Tokens
           /\ \A t \in tokens' : TokenOK(t, lastActive, approvals)
<1> DEFINE a == GenerateAccessToken(prf, from)
           r == GenerateRefreshToken(prf, from)
<1>1. tokens' = tokens \cup {a, r}
    BY DEF GenerateAuthorizations
<1>2. /\ now \in Nat /\ AccessExpires \in Nat \ {0} /\ RefreshExpires \in Nat \ {0}
      /\ ApiKeys \cap Nonces = {}
    BY DEF AuthInv, AuthTypeOK, AuthorizationsAssumption
<1>3. a \in Tokens /\ r \in Tokens
    BY <1>2 DEF Tokens, GenerateAccessToken, GenerateRefreshToken
<1>4. TokenOK(a, lastActive, approvals)
    BY <1>2 DEF TokenOK, GenerateAccessToken
<1>5. TokenOK(r, lastActive, approvals)
    BY <1>2 DEF TokenOK, GenerateRefreshToken
<1> HIDE DEF a, r
<1>6. \A t \in tokens : t \in Tokens /\ TokenOK(t, lastActive, approvals)
    BY DEF AuthInv, AuthTypeOK, TokensOK, Tokens
<1> QED BY <1>1, <1>3, <1>4, <1>5, <1>6

LEMMA LoginAdminInv ==
    ASSUME AuthorizationsAssumption, AuthInv, LoginAdmin
    PROVE  AuthInv'
<1>1. /\ AdminKey \in Credentials /\ AdminKey \notin ConfiguredKeys
      /\ AdminKey \notin ApiKeys /\ AdminKey \notin Nonces
    BY DEF Credentials, AuthorizationsAssumption
<1>2. /\ \A t \in tokens' : t \in Tokens
      /\ \A t \in tokens' : TokenOK(t, lastActive, approvals)
    BY <1>1, PairOK DEF LoginAdmin
<1>3. UNCHANGED <<now, nonces, apiKeys, updating, logins, lastActive, approvals, sessions>>
    BY DEF LoginAdmin
<1> QED BY <1>2, <1>3
    DEF AuthInv, AuthTypeOK, KeysOK, TokensOK, NoncesOK, IsApiKeyActive, Tokens

LEMMA LoginConfiguredInv ==
    ASSUME AuthorizationsAssumption, AuthInv, NEW k \in ConfiguredKeys, LoginConfigured(k)
    PROVE  AuthInv'
<1>1. k \in Credentials /\ k \notin ApiKeys /\ k \notin Nonces
    BY DEF Credentials, AuthorizationsAssumption
<1>2. /\ \A t \in tokens' : t \in Tokens
      /\ \A t \in tokens' : TokenOK(t, lastActive, approvals)
    BY <1>1, PairOK DEF LoginConfigured
<1>3. UNCHANGED <<now, nonces, apiKeys, updating, logins, lastActive, approvals, sessions>>
    BY DEF LoginConfigured
<1> QED BY <1>2, <1>3
    DEF AuthInv, AuthTypeOK, KeysOK, TokensOK, NoncesOK, IsApiKeyActive, Tokens

LEMMA LoginInv ==
    ASSUME AuthorizationsAssumption, AuthInv, NEW k \in ApiKeys, Login(k)
    PROVE  AuthInv'
<1>1. k \in Credentials /\ k \notin Nonces
    BY DEF Credentials, AuthorizationsAssumption
<1>2. lastActive[k] = now
    BY DEF Login, AuthInv, KeysOK
<1>3. /\ \A t \in tokens' : t \in Tokens
      /\ \A t \in tokens' : TokenOK(t, lastActive, approvals)
    BY <1>1, <1>2, PairOK DEF Login
<1>4. /\ UNCHANGED <<now, nonces, apiKeys, updating, lastActive, approvals, sessions>>
      /\ logins' \subseteq logins
    BY DEF Login
<1> QED BY <1>3, <1>4
    DEF AuthInv, AuthTypeOK, KeysOK, TokensOK, NoncesOK, IsApiKeyActive, Tokens

-----------------------------------------------------------------------------
(* Keys *)

\* The history is never ahead of the clock, and only moves forward.
LEMMA LastActiveOK ==
    ASSUME AuthInv, NEW rows \in [ApiKeys -> KeyRows], NEW time \in Nat, now <= time
    PROVE  /\ LastActive(rows, time) \in [ApiKeys -> Nat \cup {-1}]
           /\ \A k \in ApiKeys :
                /\ lastActive[k] <= LastActive(rows, time)[k]
                /\ LastActive(rows, time)[k] <= time
                /\ IsApiKeyActive(k, rows, time) => LastActive(rows, time)[k] = time
                /\ lastActive[k] = time => LastActive(rows, time)[k] = time
<1>1. now \in Nat /\ lastActive \in [ApiKeys -> Nat \cup {-1}]
    BY DEF AuthInv, AuthTypeOK
<1>2. \A k \in ApiKeys : lastActive[k] <= now
    BY DEF AuthInv, KeysOK
<1>3. \A k \in ApiKeys : LastActive(rows, time)[k] =
        IF IsApiKeyActive(k, rows, time) THEN time ELSE lastActive[k]
    BY DEF LastActive
<1>4. LastActive(rows, time) \in [ApiKeys -> Nat \cup {-1}]
    BY <1>1 DEF LastActive
<1> QED BY <1>1, <1>2, <1>3, <1>4

\* A row is written.
LEMMA RowsInv ==
    ASSUME AuthorizationsAssumption, AuthInv,
           apiKeys' \in [ApiKeys -> KeyRows], updating' \in [ApiKeys -> KeyRows],
           lastActive' = LastActive(apiKeys', now),
           UNCHANGED <<now, nonces, logins, tokens, approvals, sessions>>
    PROVE  AuthInv'
<1>1. now \in Nat BY DEF AuthInv, AuthTypeOK
<1>2. /\ lastActive' \in [ApiKeys -> Nat \cup {-1}]
      /\ \A k \in ApiKeys :
           /\ lastActive[k] <= lastActive'[k] /\ lastActive'[k] <= now
           /\ IsApiKeyActive(k, apiKeys', now) => lastActive'[k] = now
           /\ lastActive[k] = now => lastActive'[k] = now
    <2>1. now <= now BY <1>1
    <2> QED BY <1>1, <2>1, LastActiveOK
<1>3. AuthTypeOK'
    BY <1>2 DEF AuthInv, AuthTypeOK
<1>4. KeysOK'
    BY <1>2 DEF AuthInv, AuthTypeOK, KeysOK, IsApiKeyActive
<1>5. TokensOK'
    BY <1>2, <1>3, TokensKept
<1> QED BY <1>3, <1>4, <1>5 DEF AuthInv, NoncesOK

LEMMA CreateApiKeyInv ==
    ASSUME AuthorizationsAssumption, AuthInv, NEW k \in ApiKeys, NEW e \in Expiries,
           CreateApiKey(k, e)
    PROVE  AuthInv'
<1>1. [exists |-> TRUE, active |-> TRUE, expiresAt |-> e] \in KeyRows
    BY DEF KeyRows, AuthorizationsAssumption
<1>2. apiKeys' \in [ApiKeys -> KeyRows] /\ updating' \in [ApiKeys -> KeyRows]
    BY <1>1 DEF CreateApiKey, AuthInv, AuthTypeOK
<1> QED BY <1>2, RowsInv DEF CreateApiKey

LEMMA UpdateApiKeyInv ==
    ASSUME AuthorizationsAssumption, AuthInv, NEW k \in ApiKeys, UpdateApiKey(k)
    PROVE  AuthInv'
<1>1. NoRow \in KeyRows
    BY DEF KeyRows, NoRow
<1>2. apiKeys' \in [ApiKeys -> KeyRows] /\ updating' \in [ApiKeys -> KeyRows]
    BY <1>1 DEF UpdateApiKey, AuthInv, AuthTypeOK
<1> QED BY <1>2, RowsInv DEF UpdateApiKey

\* A deletion leaves its history alone: the key was active until now, or is not since then.
LEMMA DeleteApiKeyInv ==
    ASSUME AuthorizationsAssumption, AuthInv, NEW k \in ApiKeys, DeleteApiKey(k)
    PROVE  AuthInv'
<1>1. apiKeys[k] \in KeyRows BY DEF AuthInv, AuthTypeOK
<1>2. [apiKeys[k] EXCEPT !.exists = FALSE, !.active = FALSE] \in KeyRows
    BY <1>1 DEF KeyRows
<1>3. apiKeys' = [apiKeys EXCEPT ![k] = [apiKeys[k] EXCEPT !.exists = FALSE, !.active = FALSE]]
    BY DEF DeleteApiKey, AuthInv, AuthTypeOK
<1>4. AuthTypeOK'
    BY <1>2, <1>3 DEF AuthInv, AuthTypeOK, DeleteApiKey
<1>5. KeysOK'
    <2>1. ~IsApiKeyActive(k, apiKeys', now)
        BY <1>1, <1>3 DEF AuthInv, AuthTypeOK, IsApiKeyActive, KeyRows
    <2>2. \A j \in ApiKeys \ {k} : apiKeys'[j] = apiKeys[j]
        BY <1>3 DEF AuthInv, AuthTypeOK
    <2> QED BY <2>1, <2>2 DEF AuthInv, KeysOK, IsApiKeyActive, DeleteApiKey
<1> QED BY <1>4, <1>5 DEF AuthInv, TokensOK, NoncesOK, DeleteApiKey

LEMMA FindApiKeyInv ==
    ASSUME AuthorizationsAssumption, AuthInv, NEW k \in ApiKeys,
           NEW row \in [exists : {TRUE}, active : BOOLEAN, expiresAt : Expiries],
           FindApiKey(k, row)
    PROVE  AuthInv'
<1>1. row \in KeyRows
    BY DEF KeyRows, AuthorizationsAssumption
<1>2. AuthTypeOK'
    BY <1>1 DEF AuthInv, AuthTypeOK, FindApiKey
<1> QED BY <1>2 DEF AuthInv, KeysOK, IsApiKeyActive, TokensOK, NoncesOK, FindApiKey

LEMMA AuthenticateInv ==
    ASSUME AuthorizationsAssumption, AuthInv, NEW k \in ApiKeys, Authenticate(k)
    PROVE  AuthInv'
<1>1. lastActive[k] = now
    BY DEF AuthInv, KeysOK, Authenticate
<1> QED BY <1>1
    DEF AuthInv, AuthTypeOK, KeysOK, IsApiKeyActive, TokensOK, NoncesOK, Authenticate

\* The clock moves: nobody is between the check of a key and its tokens.
LEMMA TickInv ==
    ASSUME AuthorizationsAssumption, AuthInv, Tick
    PROVE  AuthInv'
<1>1. now \in Nat /\ now' = now + 1 /\ now' \in Nat /\ now <= now' /\ logins' = {}
    BY DEF AuthInv, AuthTypeOK, Tick
<1>2. apiKeys \in [ApiKeys -> KeyRows] /\ apiKeys' = apiKeys
    BY DEF AuthInv, AuthTypeOK, Tick
<1>3. lastActive' = LastActive(apiKeys, now')
    BY <1>2 DEF Tick
<1>4. /\ lastActive' \in [ApiKeys -> Nat \cup {-1}]
      /\ \A k \in ApiKeys :
           /\ lastActive[k] <= lastActive'[k] /\ lastActive'[k] <= now'
           /\ IsApiKeyActive(k, apiKeys, now') => lastActive'[k] = now'
    BY <1>1, <1>2, <1>3, LastActiveOK
<1>5. tokens' \subseteq tokens /\ UNCHANGED <<nonces, updating, approvals, sessions>>
    BY DEF Tick
<1>6. AuthTypeOK'
    BY <1>1, <1>2, <1>4, <1>5 DEF AuthInv, AuthTypeOK
<1>7. KeysOK'
    BY <1>1, <1>2, <1>4 DEF KeysOK, IsApiKeyActive
<1>8. TokensOK'
    BY <1>4, <1>5, <1>6, TokensKept
<1> QED BY <1>5, <1>6, <1>7, <1>8 DEF AuthInv, NoncesOK

-----------------------------------------------------------------------------
(* Challenges *)

\* Challenges are dropped, none of those that were signed is less so, and no key or token
\* is concerned.
LEMMA NoncesInv ==
    ASSUME AuthorizationsAssumption, AuthInv,
           nonces' \in [Nonces -> [state : {"unborn", "pending", "approved", "gone"},
                                   expiresAt : Nat]],
           NoncesOK', approvals \subseteq approvals', approvals' \subseteq Nonces,
           UNCHANGED <<now, apiKeys, updating, logins, tokens, lastActive, sessions>>
    PROVE  AuthInv'
<1>1. AuthTypeOK'
    BY DEF AuthInv, AuthTypeOK
<1>2. \A k \in ApiKeys : lastActive[k] <= lastActive'[k]
    BY DEF AuthInv, AuthTypeOK
<1>3. TokensOK'
    BY <1>1, <1>2, TokensKept
<1> QED BY <1>1, <1>3 DEF AuthInv, KeysOK, IsApiKeyActive

NonceRows == [state : {"unborn", "pending", "approved", "gone"}, expiresAt : Nat]

LEMMA DropOK ==
    ASSUME NEW ns \in [Nonces -> NonceRows], NEW dead
    PROVE  /\ Drop(ns, dead) \in [Nonces -> NonceRows]
           /\ \A n \in Nonces : /\ Drop(ns, dead)[n].expiresAt = ns[n].expiresAt
                                /\ n \in dead => Drop(ns, dead)[n].state = "gone"
                                /\ n \notin dead => Drop(ns, dead)[n] = ns[n]
<1>1. \A n \in Nonces :
        /\ [ns[n] EXCEPT !.state = "gone"] \in NonceRows
        /\ [ns[n] EXCEPT !.state = "gone"].state = "gone"
        /\ [ns[n] EXCEPT !.state = "gone"].expiresAt = ns[n].expiresAt
    BY DEF NonceRows
<1> QED BY <1>1 DEF Drop

\* Dropping challenges keeps what is said of the others.
LEMMA DropKeeps ==
    ASSUME AuthInv, NEW dead, nonces' = Drop(nonces, dead), UNCHANGED <<approvals, sessions>>
    PROVE  nonces' \in [Nonces -> NonceRows] /\ NoncesOK'
<1>1. nonces \in [Nonces -> NonceRows]
    BY DEF AuthInv, AuthTypeOK, NonceRows
<1>2. /\ nonces' \in [Nonces -> NonceRows]
      /\ \A n \in Nonces : nonces'[n].state = "gone" \/ nonces'[n] = nonces[n]
    BY <1>1, DropOK
<1> QED BY <1>2 DEF AuthInv, NoncesOK

LEMMA GotNothingInv ==
    ASSUME AuthorizationsAssumption, AuthInv, NEW n \in Nonces, GotNothing(n),
           UNCHANGED <<now, apiKeys, updating, logins, tokens, lastActive, approvals, sessions>>
    PROVE  AuthInv'
<1>1. nonces' \in [Nonces -> NonceRows] /\ NoncesOK'
    BY DropKeeps DEF GotNothing
<1>2. approvals' \subseteq Nonces
    BY DEF AuthInv, AuthTypeOK
<1> QED BY <1>1, <1>2, NoncesInv DEF NonceRows

LEMMA RefuseNonceInv ==
    ASSUME AuthorizationsAssumption, AuthInv, RefuseNonce
    PROVE  AuthInv'
<1>1. nonces' \in [Nonces -> NonceRows] /\ NoncesOK'
    BY DropKeeps DEF RefuseNonce, Purged
<1>2. approvals' \subseteq Nonces
    BY DEF AuthInv, AuthTypeOK, RefuseNonce
<1> QED BY <1>1, <1>2, NoncesInv DEF NonceRows, RefuseNonce

LEMMA CreateNonceInv ==
    ASSUME AuthorizationsAssumption, AuthInv, NEW n \in Nonces, CreateNonce(n)
    PROVE  AuthInv'
<1> DEFINE dead == {m \in Held(nonces) : nonces[m].expiresAt <= now}
           row == [state |-> "pending", expiresAt |-> now + NonceTtl]
<1>1. nonces \in [Nonces -> NonceRows] /\ now \in Nat /\ NonceTtl \in Nat
    BY DEF AuthInv, AuthTypeOK, NonceRows, AuthorizationsAssumption
<1>2. /\ Purged(nonces) \in [Nonces -> NonceRows]
      /\ \A m \in Nonces : Purged(nonces)[m].state = "gone" \/ Purged(nonces)[m] = nonces[m]
    BY <1>1, DropOK DEF Purged
<1>3. row \in NonceRows /\ row.state = "pending"
    BY <1>1 DEF NonceRows
<1>4. nonces' = [Purged(nonces) EXCEPT ![n] = row]
    BY DEF CreateNonce
<1>5. nonces[n].state = "unborn" /\ sessions[n] = 0
    BY DEF CreateNonce, AuthInv, NoncesOK
<1> HIDE DEF row, dead
<1>6. nonces' \in [Nonces -> NonceRows]
    BY <1>2, <1>3, <1>4
<1>7. /\ nonces'[n] = row
      /\ \A m \in Nonces \ {n} : nonces'[m] = Purged(nonces)[m]
    BY <1>2, <1>4
<1>8. UNCHANGED <<now, apiKeys, updating, logins, tokens, lastActive, approvals, sessions>>
    BY DEF CreateNonce
<1>9. NoncesOK'
    <2>1. SUFFICES ASSUME NEW m \in Nonces
          PROVE  /\ nonces'[m].state \in {"unborn", "pending", "approved"} => sessions[m] = 0
                 /\ nonces'[m].state = "approved" => m \in approvals
        BY <1>8 DEF NoncesOK
    <2>2. CASE m = n BY <1>3, <1>5, <1>7, <2>2
    <2>3. CASE m # n BY <1>2, <1>7, <2>3 DEF AuthInv, NoncesOK
    <2> QED BY <2>2, <2>3
<1>10. approvals' \subseteq Nonces
    BY <1>8 DEF AuthInv, AuthTypeOK
<1> QED BY <1>6, <1>8, <1>9, <1>10, NoncesInv DEF NonceRows

LEMMA AuthenticateAuth47Inv ==
    ASSUME AuthorizationsAssumption, AuthInv, NEW n \in Nonces, AuthenticateAuth47(n)
    PROVE  AuthInv'
<1>1. CASE GotNothing(n) /\ UNCHANGED approvals
    BY <1>1, GotNothingInv DEF AuthenticateAuth47
<1>2. CASE Got(n) /\ nonces' = [nonces EXCEPT ![n].state = "approved"]
           /\ approvals' = approvals \cup {n}
    <2>1. nonces \in [Nonces -> NonceRows] /\ nonces[n] \in NonceRows
        BY DEF AuthInv, AuthTypeOK, NonceRows
    <2>2. sessions[n] = 0 /\ sessions' = sessions
        BY <1>2 DEF Got, Held, AuthInv, NoncesOK, AuthenticateAuth47
    <2>3. [nonces[n] EXCEPT !.state = "approved"] \in NonceRows
        BY <2>1 DEF NonceRows
    <2>4. /\ nonces' \in [Nonces -> NonceRows]
          /\ \A m \in Nonces \ {n} : nonces'[m] = nonces[m]
        BY <1>2, <2>1, <2>3
    <2>5. NoncesOK'
        BY <1>2, <2>2, <2>4 DEF AuthInv, NoncesOK
    <2>6. approvals \subseteq approvals' /\ approvals' \subseteq Nonces
        BY <1>2 DEF AuthInv, AuthTypeOK
    <2> QED BY <2>4, <2>5, <2>6, NoncesInv DEF NonceRows, AuthenticateAuth47
<1> QED BY <1>1, <1>2 DEF AuthenticateAuth47

\* The challenge is consumed by the request that gets its tokens.
LEMMA CheckAuth47StatusInv ==
    ASSUME AuthorizationsAssumption, AuthInv, NEW n \in Nonces, CheckAuth47Status(n)
    PROVE  AuthInv'
<1>1. CASE GotNothing(n) /\ UNCHANGED <<tokens, sessions>>
    BY <1>1, GotNothingInv DEF CheckAuth47Status
<1>2. CASE UNCHANGED <<nonces, tokens, sessions>>
    BY <1>2 DEF AuthInv, AuthTypeOK, KeysOK, TokensOK, NoncesOK, IsApiKeyActive, CheckAuth47Status
<1>3. CASE /\ Got(n) /\ nonces[n].state = "approved" /\ nonces' = Consumed(n)
           /\ GenerateAuthorizations("admin", n) /\ sessions' = [sessions EXCEPT ![n] = @ + 1]
    <2>1. n \in approvals
        BY <1>3 DEF AuthInv, NoncesOK
    <2>2. n \in Credentials /\ n \notin ApiKeys
        BY DEF Credentials, AuthorizationsAssumption
    <2>3. /\ \A t \in tokens' : t \in Tokens
          /\ \A t \in tokens' : TokenOK(t, lastActive, approvals)
        BY <1>3, <2>1, <2>2, PairOK
    <2>4. nonces \in [Nonces -> NonceRows] /\ sessions \in [Nonces -> Nat]
        BY DEF AuthInv, AuthTypeOK, NonceRows
    <2>5. /\ nonces' \in [Nonces -> NonceRows]
          /\ nonces'[n].state = "gone"
          /\ \A m \in Nonces \ {n} : nonces'[m] = nonces[m]
        BY <1>3, <2>4, DropOK DEF Consumed
    <2>6. /\ sessions' \in [Nonces -> Nat]
          /\ \A m \in Nonces \ {n} : sessions'[m] = sessions[m]
        BY <1>3, <2>4
    <2>7. UNCHANGED <<now, apiKeys, updating, logins, lastActive, approvals>>
        BY DEF CheckAuth47Status
    <2>8. AuthTypeOK'
        BY <2>3, <2>5, <2>6, <2>7 DEF AuthInv, AuthTypeOK, NonceRows, Tokens
    <2>9. NoncesOK'
        BY <2>5, <2>6, <2>7 DEF AuthInv, NoncesOK
    <2> QED BY <2>3, <2>7, <2>8, <2>9 DEF AuthInv, KeysOK, TokensOK, IsApiKeyActive
<1> QED BY <1>1, <1>2, <1>3 DEF CheckAuth47Status

-----------------------------------------------------------------------------
LEMMA AuthInitInv == ASSUME AuthorizationsAssumption, AuthInit PROVE AuthInv
<1>1. apiKeys \in [ApiKeys -> KeyRows]
    <2> DEFINE rows == {NoRow} \cup [exists : {TRUE}, active : {TRUE}, expiresAt : Expiries]
    <2>1. \A row \in rows : row \in KeyRows
        <3>1. NoRow \in KeyRows
            BY DEF KeyRows, NoRow
        <3>2. \A row \in [exists : {TRUE}, active : {TRUE}, expiresAt : Expiries] :
                row \in KeyRows
            <4>1. Expiries \subseteq Nat /\ {TRUE} \subseteq BOOLEAN
                BY DEF AuthorizationsAssumption
            <4> QED BY <4>1, Zenon DEF KeyRows
        <3> QED BY <3>1, <3>2
    <2>2. apiKeys \in [ApiKeys -> rows]
        BY DEF AuthInit
    <2> HIDE DEF rows
    <2> QED BY <2>1, <2>2
<1>2. lastActive \in [ApiKeys -> Nat \cup {-1}]
    BY DEF AuthInit
<1>3. NoRow \in KeyRows
    BY DEF NoRow, KeyRows
<1>4. AuthTypeOK
    BY <1>1, <1>2, <1>3 DEF AuthInit, AuthTypeOK
<1> QED BY <1>4 DEF AuthInv, AuthInit, KeysOK, TokensOK, NoncesOK

LEMMA AuthStep ==
    ASSUME AuthorizationsAssumption, AuthInv, [AuthNext]_authVars
    PROVE  AuthInv'
<1>1. CASE UNCHANGED authVars
    BY <1>1 DEF AuthInv, AuthTypeOK, KeysOK, TokensOK, NoncesOK, IsApiKeyActive, authVars
<1>2. CASE LoginAdmin BY <1>2, LoginAdminInv
<1>3. CASE \E k \in ApiKeys : Authenticate(k) BY <1>3, AuthenticateInv
<1>4. CASE \E k \in ApiKeys : Login(k) BY <1>4, LoginInv
<1>5. CASE \E t \in tokens : RefreshAuthorizations(t) BY <1>5, RefreshInv
<1>6. CASE ManageApiKeys
    BY <1>6, CreateApiKeyInv, FindApiKeyInv, UpdateApiKeyInv, DeleteApiKeyInv DEF ManageApiKeys
<1>7. CASE \E n \in Nonces : CreateNonce(n) BY <1>7, CreateNonceInv
<1>8. CASE \E n \in Nonces : AuthenticateAuth47(n) BY <1>8, AuthenticateAuth47Inv
<1>9. CASE \E n \in Nonces : CheckAuth47Status(n) BY <1>9, CheckAuth47StatusInv
<1>10. CASE RefuseNonce BY <1>10, RefuseNonceInv
<1>11. CASE Tick BY <1>11, TickInv
<1>12. CASE \E k \in ConfiguredKeys : LoginConfigured(k) BY <1>12, LoginConfiguredInv
<1> QED BY <1>1, <1>2, <1>3, <1>4, <1>5, <1>6, <1>7, <1>8, <1>9, <1>10, <1>11, <1>12 DEF AuthNext

\* The three of them are one inductive invariant.
THEOREM AuthInvariant == AuthSpec => []AuthInv
<1>1. AuthInit => AuthInv BY AuthInitInv, AuthorizationsAssumption
<1>2. AuthInv /\ [AuthNext]_authVars => AuthInv' BY AuthStep, AuthorizationsAssumption
<1> QED BY <1>1, <1>2, PTL DEF AuthSpec

\* What authorizations-manager.ts makes is never extended for ever: a session ends at most
\* the lifetimes of a refresh token and of an access token after its key was last active,
\* with the profile of the key; that of a challenge was signed,
\* and that of a key of the configuration is not for the admin.
THEOREM SessionsEnd == AuthSpec => []SessionsEndAfterKey
<1>1. ASSUME AuthInv PROVE SessionsEndAfterKey
    <2>1. SUFFICES ASSUME NEW t \in tokens, CheckAuthentication(t)
          PROVE  /\ t.from \in ApiKeys =>
                      t.prf = "api" /\ now < lastActive[t.from] + RefreshExpires + AccessExpires
                 /\ t.from \in ConfiguredKeys => t.prf = "api"
                 /\ t.from \in Nonces => t.from \in approvals
        BY DEF SessionsEndAfterKey
    <2>2. t \in Tokens /\ TokenOK(t, lastActive, approvals)
        BY <1>1 DEF AuthInv, AuthTypeOK, TokensOK, Tokens
    <2>3. t.type = "access-token" /\ now < t.exp
        <3>1. t.type = "access-token" /\ t.exp > now
            BY <2>1 DEF CheckAuthentication, VerifyAccessToken, Verify
        <3>2. t.exp \in Nat /\ now \in Nat
            BY <1>1, <2>2 DEF AuthInv, AuthTypeOK, Tokens
        <3> QED BY <3>1, <3>2
    <2>4. ASSUME t.from \in ApiKeys
          PROVE  t.prf = "api" /\ now < lastActive[t.from] + RefreshExpires + AccessExpires
        <3>1. t.prf = "api" /\ t.exp < lastActive[t.from] + RefreshExpires + AccessExpires
            BY <2>2, <2>3, <2>4 DEF TokenOK
        <3>2. /\ now \in Nat /\ lastActive[t.from] \in Int /\ t.exp \in Nat
              /\ RefreshExpires \in Nat /\ AccessExpires \in Nat
            BY <1>1, <2>2, <2>4, AuthorizationsAssumption
            DEF AuthInv, AuthTypeOK, AuthorizationsAssumption, Tokens
        <3> QED BY <2>3, <3>1, <3>2
    <2>5. /\ t.from \in ConfiguredKeys => t.prf = "api"
          /\ t.from \in Nonces => t.from \in approvals
        BY <2>2 DEF TokenOK
    <2> QED BY <2>4, <2>5
<1> QED BY <1>1, AuthInvariant, PTL

\* checkAuth47Status consumes what authenticateAuth47 approved: one pair of tokens for a
\* signed challenge, within its lifetime.
THEOREM OneSession == AuthSpec => OneSessionPerApproval
<1> DEFINE Step == \A n \in Nonces : sessions'[n] # sessions[n] =>
                        sessions[n] = 0 /\ n \in approvals /\ now < nonces[n].expiresAt
<1>1. ASSUME AuthInv, [AuthNext]_authVars PROVE [Step]_authVars
    <2>1. SUFFICES ASSUME NEW n \in Nonces, sessions'[n] # sessions[n]
          PROVE  sessions[n] = 0 /\ n \in approvals /\ now < nonces[n].expiresAt
        OBVIOUS
    <2>2. PICK m \in Nonces :
            /\ Got(m) /\ nonces[m].state = "approved"
            /\ sessions' = [sessions EXCEPT ![m] = @ + 1]
        BY <1>1, <2>1
        DEF AuthNext, LoginAdmin, LoginConfigured, Authenticate, Login, RefreshAuthorizations, ManageApiKeys,
            CreateApiKey, FindApiKey, UpdateApiKey, DeleteApiKey, CreateNonce, RefuseNonce,
            AuthenticateAuth47, CheckAuth47Status, Tick, authVars
    <2>3. m = n
        BY <1>1, <2>1, <2>2 DEF AuthInv, AuthTypeOK
    <2>4. now < nonces[n].expiresAt
        BY <1>1, <2>2, <2>3 DEF Got, AuthInv, AuthTypeOK
    <2> QED BY <1>1, <2>2, <2>3, <2>4 DEF AuthInv, NoncesOK
<1> HIDE DEF Step
<1>2. AuthInv /\ [AuthNext]_authVars => [Step]_authVars
    BY <1>1
<1>3. AuthSpec => [][Step]_authVars
    BY <1>2, AuthInvariant, PTL DEF AuthSpec
<1> QED BY <1>3 DEF OneSessionPerApproval, Step

\* createNonce of auth47-nonces.ts is refused for recent challenges only.
THEOREM RefusedWhenFull == AuthSpec => []RefusedOnlyWhenFull
<1>1. ASSUME AuthInv PROVE RefusedOnlyWhenFull
    <2> DEFINE held == Held(Purged(nonces))
               recent == {n \in Nonces : /\ nonces[n].state # "unborn" /\ sessions[n] = 0
                                         /\ nonces[n].expiresAt > now}
    <2>1. nonces \in [Nonces -> NonceRows] /\ now \in Nat
        BY <1>1 DEF AuthInv, AuthTypeOK, NonceRows
    <2>2. held \subseteq recent
        <3>1. SUFFICES ASSUME NEW n \in held PROVE n \in recent
            OBVIOUS
        <3> DEFINE dead == {m \in Held(nonces) : nonces[m].expiresAt <= now}
        <3>2. n \in Nonces /\ Purged(nonces)[n].state \in {"pending", "approved"}
            BY DEF Held
        <3>3. n \notin dead /\ Purged(nonces)[n] = nonces[n]
            <4>1. /\ n \in dead => Purged(nonces)[n].state = "gone"
                  /\ n \notin dead => Purged(nonces)[n] = nonces[n]
                BY <2>1, <3>2, DropOK DEF Purged
            <4> QED BY <3>2, <4>1
        <3>4. n \in Held(nonces)
            BY <3>2, <3>3 DEF Held
        <3>5. nonces[n].expiresAt > now
            BY <2>1, <3>2, <3>3, <3>4 DEF NonceRows
        <3>6. sessions[n] = 0 /\ nonces[n].state # "unborn"
            BY <1>1, <3>2, <3>3 DEF AuthInv, NoncesOK
        <3> QED BY <3>2, <3>5, <3>6
    <2>3. IsFiniteSet(recent)
        BY FS_Subset, AuthorizationsAssumption DEF AuthorizationsAssumption
    <2>4. /\ IsFiniteSet(held) /\ Cardinality(held) <= Cardinality(recent)
          /\ Cardinality(held) \in Nat /\ Cardinality(recent) \in Nat
        BY <2>2, <2>3, FS_Subset, FS_CardinalityType
    <2>5. ASSUME Cardinality(held) >= MaxNonces PROVE Cardinality(recent) >= MaxNonces
        BY <2>4, <2>5, AuthorizationsAssumption DEF AuthorizationsAssumption
    <2> QED BY <2>5 DEF RefusedOnlyWhenFull, TooManyPending
<1> QED BY <1>1, AuthInvariant, PTL

\* What the managers grant ends by itself.
THEOREM Expire == AuthSpec => []GrantsExpire
BY SessionsEnd, RefusedWhenFull, PTL DEF GrantsExpire

-----------------------------------------------------------------------------
(* Notifications *)

\* What a connection may be, by the state of its socket: not in the dictionary and
\* without subscriptions before it opens, in it while it is open.
SocketsOK ==
    \A c \in Clients :
        /\ readyState[c] = "new" => c \notin conn /\ connSubs[c] = {}
        /\ readyState[c] = "open" => c \in conn

WsInv == WsTypeOK /\ SocketsOK /\ NoGhostSubscription

TablesUnchanged == UNCHANGED <<readyState, conn, clients, subs, connSubs, cachePubKeys>>

ConnFinite == IsFiniteSet(conn)

LEMMA FiniteConn == ASSUME NotificationsAssumption, WsTypeOK PROVE ConnFinite
BY FS_Subset DEF NotificationsAssumption, WsTypeOK, ConnFinite

\* The steps that leave the tables alone keep what is said of them.
LEMMA TablesKept ==
    ASSUME SocketsOK, NoGhostSubscription, TablesUnchanged
    PROVE  SocketsOK' /\ NoGhostSubscription'
BY DEF SocketsOK, NoGhostSubscription, TablesUnchanged

-----------------------------------------------------------------------------
(* The three changes of the tables *)

LEMMA ConnectInv ==
    ASSUME NotificationsAssumption, WsInv, NEW c \in Clients, Connect(c)
    PROVE  WsInv'
<1>1. c \notin conn /\ connSubs[c] = {} /\ readyState[c] = "new"
    BY DEF WsInv, SocketsOK, Connect
<1>2. WsTypeOK'
    BY DEF WsInv, WsTypeOK, Connect
<1>3. SocketsOK'
    BY <1>1 DEF WsInv, WsTypeOK, SocketsOK, Connect
<1>4. clients' = Cardinality(conn')
    <2>1. ConnFinite BY FiniteConn DEF WsInv
    <2>2. Cardinality(conn \cup {c}) = Cardinality(conn) + 1
        BY <1>1, <2>1, FS_AddElement DEF ConnFinite
    <2> QED BY <2>2 DEF WsInv, NoGhostSubscription, Connect
<1>5. \A d \in Clients, t \in AllTopics :
        d \in subs'[t] <=> d \in conn' /\ t \in connSubs'[d]
    BY <1>1 DEF WsInv, NoGhostSubscription, Connect
<1>6. \A d \in conn' : readyState'[d] \in {"open", "closing"}
    BY <1>1 DEF WsInv, WsTypeOK, NoGhostSubscription, Connect
<1>7. \A t \in cachePubKeys' : subs'[t] # {}
    BY DEF WsInv, NoGhostSubscription, Connect
<1> QED BY <1>2, <1>3, <1>4, <1>5, <1>6, <1>7 DEF WsInv, NoGhostSubscription

\* A connection that is removed leaves nothing behind, however it is closed.
LEMMA CloseInv ==
    ASSUME NotificationsAssumption, WsInv, NEW c \in Clients, NEW forced \in BOOLEAN,
           CloseConnection(c, forced),
           readyState' \in [Clients -> {"new", "open", "closing", "closed"}],
           \A d \in Clients \ {c} : readyState'[d] = readyState[d],
           readyState'[c] # "open",
           readyState'[c] = "new" => readyState[c] = "new"
    PROVE  SocketsOK' /\ NoGhostSubscription'
<1>1. SocketsOK'
    BY DEF WsInv, WsTypeOK, SocketsOK, CloseConnection
<1>2. clients' = Cardinality(conn')
    <2>1. ConnFinite BY FiniteConn DEF WsInv
    <2>2. CASE c \in conn
        <3>1. Cardinality(conn \ {c}) = Cardinality(conn) - 1
            BY <2>1, <2>2, FS_RemoveElement DEF ConnFinite
        <3> QED BY <2>2, <3>1 DEF WsInv, NoGhostSubscription, CloseConnection
    <2>3. CASE c \notin conn
        <3>1. conn \ {c} = conn BY <2>3
        <3> QED BY <2>3, <3>1 DEF WsInv, NoGhostSubscription, CloseConnection
    <2> QED BY <2>2, <2>3
<1>3. \A d \in Clients, t \in AllTopics :
        d \in subs'[t] <=> d \in conn' /\ t \in connSubs'[d]
    BY DEF WsInv, NoGhostSubscription, CloseConnection
<1>4. \A d \in conn' : readyState'[d] \in {"open", "closing"}
    BY DEF WsInv, WsTypeOK, NoGhostSubscription, CloseConnection
<1>5. \A t \in cachePubKeys' : subs'[t] # {}
    <2>1. SUFFICES ASSUME NEW t \in cachePubKeys' PROVE subs'[t] # {}
        OBVIOUS
    <2>2. t \in cachePubKeys /\ t \in AllTopics /\ ~(t \in connSubs[c] /\ subs[t] = {c})
        BY DEF WsInv, WsTypeOK, CloseConnection, AllTopics
    <2>3. subs[t] # {}
        BY <2>2 DEF WsInv, NoGhostSubscription
    <2>4. subs'[t] = IF t \in connSubs[c] THEN subs[t] \ {c} ELSE subs[t]
        BY <2>2 DEF CloseConnection
    <2> QED BY <2>2, <2>3, <2>4
<1> QED BY <1>1, <1>2, <1>3, <1>4, <1>5 DEF NoGhostSubscription

LEMMA CloseType ==
    ASSUME WsTypeOK, NEW c \in Clients, NEW forced \in BOOLEAN, CloseConnection(c, forced),
           NoGhostSubscription, ConnFinite, c \in conn => clients > 0
    PROVE  /\ conn' \subseteq Clients /\ clients' \in Nat
           /\ subs' \in [AllTopics -> SUBSET Clients]
           /\ connSubs' \in [Clients -> SUBSET AllTopics]
           /\ cacheSubs' \subseteq Entities /\ cachePubKeys' \subseteq Topics
BY DEF WsTypeOK, CloseConnection

LEMMA CountPositive ==
    ASSUME NotificationsAssumption, WsInv, NEW c \in conn
    PROVE  clients > 0
<1>1. ConnFinite BY FiniteConn DEF WsInv
<1>2. Cardinality(conn) # 0 BY <1>1, FS_EmptySet DEF ConnFinite
<1> QED BY <1>2 DEF WsInv, WsTypeOK, NoGhostSubscription

\* A closure, by the server (_closeWSConnection alone) or at the end of the socket.
LEMMA ClosureInv ==
    ASSUME NotificationsAssumption, WsInv, NEW c \in Clients, NEW forced \in BOOLEAN,
           CloseConnection(c, forced),
           NEW s \in {"closing", "closed"},
           \/ readyState' = [readyState EXCEPT ![c] = s]
           \/ readyState[c] # "open" /\ readyState' = readyState,
           messages' \in [Clients -> Seq(Messages)], received' \in Nat,
           DOMAIN sent' = Clients
    PROVE  WsInv'
<1>1. readyState' \in [Clients -> {"new", "open", "closing", "closed"}]
    BY DEF WsInv, WsTypeOK
<1>2. \A d \in Clients \ {c} : readyState'[d] = readyState[d]
    BY DEF WsInv, WsTypeOK
<1>3. /\ readyState'[c] # "open"
      /\ readyState'[c] = "new" => readyState[c] = "new"
    BY DEF WsInv, WsTypeOK
<1>4. SocketsOK' /\ NoGhostSubscription'
    BY <1>1, <1>2, <1>3, CloseInv
<1>5. ConnFinite BY FiniteConn DEF WsInv
<1>6. c \in conn => clients > 0 BY CountPositive
<1>7. WsTypeOK'
    BY <1>1, <1>5, <1>6, CloseType DEF WsInv, WsTypeOK
<1> QED BY <1>4, <1>7 DEF WsInv

LEMMA ForceCloseInv ==
    ASSUME NotificationsAssumption, WsInv, NEW c \in Clients, ForceClose(c),
           messages' \in [Clients -> Seq(Messages)], received' \in Nat,
           DOMAIN sent' = Clients
    PROVE  WsInv'
<1>1. \/ readyState' = [readyState EXCEPT ![c] = "closing"]
      \/ readyState[c] # "open" /\ readyState' = readyState
    BY DEF WsInv, WsTypeOK, ForceClose
<1> QED BY <1>1, ClosureInv DEF ForceClose

\* An open connection subscribes to topics.
LEMMA AddSubsInv ==
    ASSUME WsInv, NEW c \in Clients, NEW ts \in SUBSET AllTopics, AddSubs(c, ts),
           readyState[c] = "open", UNCHANGED <<readyState, conn, clients>>,
           NEW ks \in SUBSET (ts \cap Topics), cachePubKeys' = cachePubKeys \cup ks
    PROVE  /\ SocketsOK' /\ NoGhostSubscription'
           /\ subs' \in [AllTopics -> SUBSET Clients]
           /\ connSubs' \in [Clients -> SUBSET AllTopics]
           /\ cachePubKeys' \subseteq Topics
<1>1. c \in conn BY DEF WsInv, SocketsOK
<1>2. /\ subs' \in [AllTopics -> SUBSET Clients]
      /\ connSubs' \in [Clients -> SUBSET AllTopics]
    BY DEF WsInv, WsTypeOK, AddSubs
<1>3. /\ connSubs'[c] = connSubs[c] \cup ts
      /\ \A d \in Clients \ {c} : connSubs'[d] = connSubs[d]
      /\ \A t \in AllTopics :
            subs'[t] = IF t \in ts \ connSubs[c] THEN subs[t] \cup {c} ELSE subs[t]
    BY DEF WsInv, WsTypeOK, AddSubs
<1>4. SocketsOK'
    BY <1>3 DEF WsInv, SocketsOK
<1>5. \A d \in Clients, t \in AllTopics :
        d \in subs'[t] <=> d \in conn' /\ t \in connSubs'[d]
    <2>1. SUFFICES ASSUME NEW d \in Clients, NEW t \in AllTopics
                   PROVE  d \in subs'[t] <=> d \in conn /\ t \in connSubs'[d]
        OBVIOUS
    <2>2. d \in subs[t] <=> d \in conn /\ t \in connSubs[d]
        BY DEF WsInv, NoGhostSubscription
    <2>3. subs'[t] = IF t \in ts \ connSubs[c] THEN subs[t] \cup {c} ELSE subs[t]
        BY <1>3
    <2>4. CASE d = c BY <1>1, <1>3, <2>2, <2>3, <2>4
    <2>5. CASE d # c BY <1>3, <2>2, <2>3, <2>5
    <2> QED BY <2>4, <2>5
<1>6. \A t \in cachePubKeys' : subs'[t] # {}
    <2>1. SUFFICES ASSUME NEW t \in cachePubKeys' PROVE subs'[t] # {}
        OBVIOUS
    <2>2. t \in AllTopics BY DEF WsInv, WsTypeOK, AllTopics
    <2>3. CASE t \in ts
        <3>1. c \in subs'[t] BY <1>1, <1>3, <1>5, <2>2, <2>3
        <3> QED BY <3>1
    <2>4. CASE t \notin ts
        <3>1. t \in cachePubKeys BY <2>4
        <3>2. subs[t] # {} BY <3>1 DEF WsInv, NoGhostSubscription
        <3> QED BY <1>3, <2>2, <3>2
    <2> QED BY <2>3, <2>4
<1>7. NoGhostSubscription'
    <2>1. \A d \in conn' : readyState'[d] \in {"open", "closing"}
        BY DEF WsInv, NoGhostSubscription
    <2>2. clients' = Cardinality(conn')
        <3>1. clients = Cardinality(conn) BY DEF WsInv, NoGhostSubscription
        <3> QED BY <3>1
    <2> QED BY <1>5, <1>6, <2>1, <2>2 DEF NoGhostSubscription
<1> QED BY <1>2, <1>4, <1>7 DEF WsInv, WsTypeOK

-----------------------------------------------------------------------------
LEMMA ReceiveTextInv ==
    ASSUME NotificationsAssumption, WsInv, NEW c \in Clients, NEW m \in Messages,
           ReceiveText(c, m)
    PROVE  WsInv'
<1>1. Append(messages[c], m) \in Seq(Messages) BY DEF WsInv, WsTypeOK
<1>2. WsTypeOK' BY <1>1 DEF WsInv, WsTypeOK, ReceiveText
<1> QED BY <1>2, TablesKept DEF WsInv, ReceiveText, TablesUnchanged

LEMMA PeerClosesInv ==
    ASSUME NotificationsAssumption, WsInv, NEW c \in Clients, PeerCloses(c)
    PROVE  WsInv'
<1>1. WsTypeOK' BY DEF WsInv, WsTypeOK, PeerCloses
<1>2. \A d \in Clients : readyState'[d] = IF d = c THEN "closing" ELSE readyState[d]
    BY DEF WsInv, WsTypeOK, PeerCloses
<1>3. SocketsOK' BY <1>2 DEF WsInv, SocketsOK, PeerCloses
<1>4. NoGhostSubscription' BY <1>2 DEF WsInv, WsTypeOK, NoGhostSubscription, PeerCloses
<1> QED BY <1>1, <1>3, <1>4 DEF WsInv

LEMMA HandleMessageInv ==
    ASSUME NotificationsAssumption, WsInv, NEW c \in Clients, HandleMessage(c)
    PROVE  WsInv'
<1> DEFINE m == Head(messages[c])
<1>1. /\ messages[c] # <<>> /\ messages' = [messages EXCEPT ![c] = Tail(@)]
      /\ UNCHANGED <<received, sent>>
    BY DEF HandleMessage
<1>2. /\ messages' \in [Clients -> Seq(Messages)]
      /\ received' \in Nat /\ DOMAIN sent' = Clients
    <2>1. messages[c] \in Seq(Messages) BY DEF WsInv, WsTypeOK
    <2>2. Tail(messages[c]) \in Seq(Messages) BY <1>1, <2>1
    <2> QED BY <1>1, <2>2 DEF WsInv, WsTypeOK
<1>3. CASE UNCHANGED <<readyState, conn, clients, subs, connSubs, cacheSubs, cachePubKeys>>
    <2>1. WsTypeOK' BY <1>2, <1>3 DEF WsInv, WsTypeOK
    <2> QED BY <1>3, <2>1, TablesKept DEF WsInv, TablesUnchanged
<1>4. CASE m \in Entities /\ m \in cacheSubs /\ ForceClose(c)
    BY <1>2, <1>4, ForceCloseInv
<1>5. CASE /\ StillOpen(c) /\ m \in Entities
           /\ cacheSubs' = cacheSubs \cup {m}
           /\ AddSubs(c, TopicsOf[m])
           /\ cachePubKeys' = cachePubKeys \cup KeyedTopics[m]
           /\ UNCHANGED <<readyState, conn, clients>>
    <2>1. /\ TopicsOf[m] \in SUBSET AllTopics
          /\ KeyedTopics[m] \in SUBSET (TopicsOf[m] \cap Topics)
        BY <1>5 DEF NotificationsAssumption, AllTopics
    <2>2. /\ SocketsOK' /\ NoGhostSubscription'
          /\ subs' \in [AllTopics -> SUBSET Clients]
          /\ connSubs' \in [Clients -> SUBSET AllTopics]
          /\ cachePubKeys' \subseteq Topics
        <3> HIDE DEF m
        <3> QED BY <1>5, <2>1, AddSubsInv DEF StillOpen
    <2>3. WsTypeOK' BY <1>2, <1>5, <2>2 DEF WsInv, WsTypeOK
    <2> QED BY <2>2, <2>3 DEF WsInv
<1>6. CASE /\ StillOpen(c) /\ AddSubs(c, {BlockTopic})
           /\ UNCHANGED <<readyState, conn, clients, cacheSubs, cachePubKeys>>
    <2>1. {BlockTopic} \in SUBSET AllTopics BY DEF AllTopics
    <2>2. /\ {} \in SUBSET ({BlockTopic} \cap Topics)
          /\ cachePubKeys' = cachePubKeys \cup {}
        BY <1>6
    <2>3. /\ SocketsOK' /\ NoGhostSubscription'
          /\ subs' \in [AllTopics -> SUBSET Clients]
          /\ connSubs' \in [Clients -> SUBSET AllTopics]
          /\ cachePubKeys' \subseteq Topics
        BY <1>6, <2>1, <2>2, AddSubsInv DEF StillOpen
    <2>4. WsTypeOK' BY <1>2, <1>6, <2>3 DEF WsInv, WsTypeOK
    <2> QED BY <2>3, <2>4 DEF WsInv
<1> QED BY <1>3, <1>4, <1>5, <1>6 DEF HandleMessage, Subscribe

LEMMA OtherInv ==
    ASSUME WsInv, TablesUnchanged, cacheSubs' \subseteq cacheSubs,
           UNCHANGED <<messages, received>>, DOMAIN sent' = Clients
    PROVE  WsInv'
<1>1. WsTypeOK' BY DEF WsInv, WsTypeOK, TablesUnchanged
<1> QED BY <1>1, TablesKept DEF WsInv

-----------------------------------------------------------------------------
\* WsInv is inductive.
THEOREM WsInductive == WsSpec => []WsInv
<1> USE NotificationsAssumption
<1>1. WsInit => WsInv
    <2>1. SUFFICES ASSUME WsInit PROVE WsInv OBVIOUS
    <2>2. Cardinality({}) = 0 BY FS_EmptySet
    <2>3. \A c \in Clients : <<>> \in Seq(Messages) OBVIOUS
    <2>4. WsTypeOK BY <2>1, <2>3 DEF WsInit, WsTypeOK
    <2>5. SocketsOK BY <2>1 DEF WsInit, SocketsOK
    <2>6. NoGhostSubscription BY <2>1, <2>2 DEF WsInit, NoGhostSubscription
    <2> QED BY <2>4, <2>5, <2>6 DEF WsInv
<1>2. WsInv /\ [WsNext]_wsVars => WsInv'
    <2>1. SUFFICES ASSUME WsInv, [WsNext]_wsVars PROVE WsInv' OBVIOUS
    <2>2. ASSUME NEW c \in Clients, Connect(c) PROVE WsInv'
        BY <2>1, <2>2, ConnectInv
    <2>3. ASSUME NEW c \in Clients, PeerCloses(c) PROVE WsInv'
        BY <2>1, <2>3, PeerClosesInv
    <2>4. ASSUME NEW c \in Clients, SocketClosed(c) PROVE WsInv'
        BY <2>1, <2>4, ClosureInv DEF SocketClosed, WsInv, WsTypeOK
    <2>5. ASSUME NEW c \in Clients, SocketError(c) PROVE WsInv'
        BY <2>1, <2>5, ForceCloseInv DEF SocketError, WsInv, WsTypeOK
    <2>6. ASSUME NEW c \in Clients, NEW m \in Messages, ReceiveText(c, m) PROVE WsInv'
        BY <2>1, <2>6, ReceiveTextInv
    <2>7. ASSUME NEW c \in Clients, ReceiveBinary(c) PROVE WsInv'
        <3>1. received' \in Nat BY <2>1, <2>7 DEF ReceiveBinary, WsInv, WsTypeOK
        <3> QED BY <2>1, <2>7, <3>1, ForceCloseInv DEF ReceiveBinary, WsInv, WsTypeOK
    <2>8. ASSUME NEW c \in Clients, HandleMessage(c) PROVE WsInv'
        BY <2>1, <2>8, HandleMessageInv
    <2>9. ASSUME NEW m \in Entities, ForgetSubscription(m) PROVE WsInv'
        BY <2>1, <2>9, OtherInv DEF ForgetSubscription, TablesUnchanged, WsInv, WsTypeOK
    <2>10. ASSUME NEW t \in Sessions, NotifyTransaction(t) PROVE WsInv'
        BY <2>1, <2>10, OtherInv DEF NotifyTransaction, TablesUnchanged
    <2>11. CASE NotifyBlock
        BY <2>1, <2>11, OtherInv DEF NotifyBlock, TablesUnchanged
    <2>12. CASE UNCHANGED wsVars
        BY <2>1, <2>12, OtherInv DEF wsVars, TablesUnchanged, WsInv, WsTypeOK
    <2> QED
        BY <2>1, <2>2, <2>3, <2>4, <2>5, <2>6, <2>7, <2>8, <2>9, <2>10, <2>11, <2>12
        DEF WsNext, SocketEvent
<1> QED BY <1>1, <1>2, PTL DEF WsSpec

\* The two tables of subscriptions agree and hold nothing of a connection that is
\* gone, whatever the number of connections and the order of events: the check of the
\* socket's state after the verification of the token (line 200) is enough.
THEOREM NoGhost == WsSpec => []NoGhostSubscription
<1>1. WsInv => NoGhostSubscription BY DEF WsInv
<1> QED BY <1>1, WsInductive, PTL

\* A subscription to one address or xpub is refused as a flood only while a connection
\* that made it is not closed.
THEOREM FloodHere == WsSpec => []FloodIsOfSomebodyHere
<1> USE NotificationsAssumption
<1>1. WsInit => FloodIsOfSomebodyHere
    BY DEF WsInit, FloodIsOfSomebodyHere
<1>2. WsInv /\ FloodIsOfSomebodyHere /\ [WsNext]_wsVars => FloodIsOfSomebodyHere'
    <2>1. SUFFICES ASSUME WsInv, FloodIsOfSomebodyHere, [WsNext]_wsVars,
                          NEW m \in cacheSubs' \cap Topics
                   PROVE  \E c \in Clients : m \in connSubs'[c] /\ readyState'[c] # "closed"
        BY DEF FloodIsOfSomebodyHere
    <2>2. WsTypeOK BY <2>1 DEF WsInv
    <2>3. CASE m \in cacheSubs
        <3>1. PICK c \in Clients : m \in connSubs[c] /\ readyState[c] # "closed"
            BY <2>1, <2>3 DEF FloodIsOfSomebodyHere
        <3>2. m \in connSubs'[c]
            <4>1. CASE \E d \in Clients : HandleMessage(d)
                <5>1. PICK d \in Clients :
                        \/ UNCHANGED connSubs
                        \/ \E ts : connSubs' = [connSubs EXCEPT ![d] = @ \cup ts]
                    BY <4>1 DEF HandleMessage, Subscribe, AddSubs, ForceClose, CloseConnection
                <5> QED BY <2>2, <3>1, <5>1 DEF WsTypeOK
            <4>2. CASE ~\E d \in Clients : HandleMessage(d)
                <5>1. UNCHANGED connSubs
                    BY <2>1, <4>2
                    DEF WsNext, SocketEvent, Connect, PeerCloses, SocketClosed, SocketError,
                        ForceClose, CloseConnection, ReceiveText, ReceiveBinary,
                        ForgetSubscription, NotifyTransaction, NotifyBlock, wsVars
                <5> QED BY <3>1, <5>1
            <4> QED BY <4>1, <4>2
        <3>3. ASSUME readyState'[c] = "closed" PROVE FALSE
            <4>1. CASE \E d \in Clients : SocketClosed(d)
                <5>1. SocketClosed(c)
                    BY <2>2, <3>1, <3>3, <4>1 DEF SocketClosed, WsTypeOK
                <5> QED BY <2>1, <3>1, <5>1 DEF SocketClosed, CloseConnection
            <4>2. CASE \E d \in Clients : HandleMessage(d)
                <5>1. PICK d \in Clients : \/ UNCHANGED readyState \/ ForceClose(d)
                    BY <4>2 DEF HandleMessage, Subscribe
                <5> QED BY <2>2, <3>1, <3>3, <5>1 DEF ForceClose, WsTypeOK
            <4>3. CASE ~\E d \in Clients : SocketClosed(d) \/ HandleMessage(d)
                <5>1. \/ UNCHANGED readyState
                      \/ \E d \in Clients : Connect(d) \/ PeerCloses(d) \/ ForceClose(d)
                    BY <2>1, <4>3
                    DEF WsNext, SocketEvent, SocketError, ReceiveText, ReceiveBinary,
                        ForgetSubscription, NotifyTransaction, NotifyBlock, wsVars
                <5>2. \E d \in Clients : Connect(d) \/ PeerCloses(d) \/ ForceClose(d)
                    BY <3>1, <3>3, <5>1
                <5>3. PICK d \in Clients : Connect(d) \/ PeerCloses(d) \/ ForceClose(d)
                    BY <5>2
                <5>4. readyState \in [Clients -> {"new", "open", "closing", "closed"}]
                    BY <2>2 DEF WsTypeOK
                <5>5. \E v : /\ readyState' = [readyState EXCEPT ![d] = v]
                             /\ v = "closed" => readyState[d] = "closed"
                    BY <5>3 DEF Connect, PeerCloses, ForceClose
                <5> QED BY <3>1, <3>3, <5>4, <5>5
            <4> QED BY <4>1, <4>2, <4>3
        <3> QED BY <3>2, <3>3
    <2>4. CASE m \notin cacheSubs
        <3>1. PICK c \in Clients :
                /\ HandleMessage(c) /\ StillOpen(c) /\ m \in Entities
                /\ AddSubs(c, TopicsOf[m]) /\ UNCHANGED readyState
            BY <2>1, <2>4
            DEF WsNext, SocketEvent, Connect, PeerCloses, SocketClosed, SocketError,
                ForceClose, CloseConnection, ReceiveText, ReceiveBinary, HandleMessage,
                Subscribe, ForgetSubscription, NotifyTransaction, NotifyBlock, wsVars
        <3>2. m \in TopicsOf[m] BY <2>1, <3>1 DEF NotificationsAssumption
        <3> QED BY <2>2, <3>1, <3>2 DEF AddSubs, StillOpen, WsTypeOK
    <2> QED BY <2>3, <2>4
<1> QED BY <1>1, <1>2, WsInductive, PTL DEF WsSpec

\* Subscriptions, and the refusals of floods, are about connections that are there.
THEOREM SubscriptionsAlive == WsSpec => []SubscriptionsAreAlive
BY NoGhost, FloodHere, PTL DEF SubscriptionsAreAlive

\* Each open connection gets its own part of a transaction and nothing else.
THEOREM OwnTopics == WsSpec => OwnTopicsOnly
<1> USE NotificationsAssumption
<1>1. ASSUME WsInv, NEW t \in Sessions, NotifyTransaction(t), NEW c \in Clients
      PROVE  sent'[c] = IF readyState[c] = "open"
                        THEN {e \in Ends[t] : TopicOf(e) \in connSubs[c]} ELSE {}
    <2>1. sent'[c] = IF Reached(c) THEN TailoredFor(c, t) ELSE {}
        BY <1>1 DEF NotifyTransaction
    <2>2. readyState[c] = "open" => c \in conn
        BY <1>1 DEF WsInv, SocketsOK
    <2>3. \A e \in Ends[t] : TopicOf(e) \in AllTopics
        BY DEF NotificationsAssumption, TopicOf, AllTopics
    <2>4. c \in conn => \A e \in Ends[t] : c \in subs[TopicOf(e)] <=> TopicOf(e) \in connSubs[c]
        BY <1>1, <2>3 DEF WsInv, NoGhostSubscription
    <2> QED BY <2>1, <2>2, <2>4 DEF Reached, TailoredFor
<1>2. WsInv /\ [WsNext]_wsVars =>
        [\A t \in Sessions : NotifyTransaction(t) =>
           \A c \in Clients :
              sent'[c] = IF readyState[c] = "open"
                         THEN {e \in Ends[t] : TopicOf(e) \in connSubs[c]} ELSE {}]_wsVars
    BY <1>1
<1> QED BY <1>2, WsInductive, PTL DEF WsSpec, OwnTopicsOnly

-----------------------------------------------------------------------------
(* Derivation: the addresses *)

Types == Schemes \cup {LOCKED + t : t \in Schemes}
TrueAddress == HdKeys \X {0, 1} \X Nat \X Schemes
AddressRecords == [chain : {0, 1}, index : Nat, address : TrueAddress]

\* A call of deriveAddresses, and a signed request, after their first step
DerivationCalls ==
    [state : {"inPool", "derived", "empty", "threw", "lockedOut"}, text : HdTexts,
     chain : {0, 1}, indices : IndexRanges, type : Types, addresses : Seq(AddressRecords)]
SignedTexts == [word : {"lock", "unlock", "delete"}, text : HdTexts \cup {NoText}]
SignedCalls ==
    [state : {"verified", "refused", "locked", "unknown", "deleted"},
     text : [prefix : {"xpub", "ypub", "zpub", "other"}, key : HdKeys],
     known : BOOLEAN, message : SignedTexts, sig : [by : TrueAddress, of : SignedTexts],
     address : TrueAddress]

\* DerivedRight, of a call and a number of failures of the pool; a call that is given
\* addresses is about an account.
CallRight(call, errors) ==
    \/ call = NoCall
    \/ /\ call \in DerivationCalls
       /\ call.state \in {"inPool", "derived", "empty"} => call.text.key \in HdKeys
       /\ call.state = "derived" =>
            /\ {call.addresses[i].address : i \in DOMAIN call.addresses} = TrueAddresses(call)
            /\ \A i \in DOMAIN call.indices : call.addresses[i].address =
                 <<call.text.key, call.chain, call.indices[i], call.type % LOCKED>>
       /\ call.state # "derived" => call.addresses = <<>>
       /\ call.state = "threw" => call.text.key \in BrokenKeys \/ call.text.prefix = "other"
                                   \/ errors > 0
    \/ call \in SignedCalls /\ SignedByOwner(call)

\* The cache has nodes of accounts only.
NodesRight == nodes \subseteq [prefix : {"xpub", "ypub", "zpub"}, key : HdKeys]

DerivationInv ==
    /\ external \in BOOLEAN /\ poolErrors \in Nat
    /\ hdTypes \in [HdKeys -> Types \cup {NoHdRow}]
    /\ NodesRight
    /\ DOMAIN derivations = Deriving
    /\ \A c \in Deriving : CallRight(derivations[c], poolErrors)

LEMMA TypesAre ==
    /\ Types = {0, 1, 2, 128, 129, 130}
    /\ \A v \in Types : /\ Classify(v).type = v % LOCKED
                        /\ Classify(v).type \in Schemes
                        /\ Classify(v).locked = (v >= 128)
<1>1. Types = {0, 1, 2, 128, 129, 130}
    <2>1. Schemes = {0, 1, 2}
        BY DEF Schemes, BIP44, BIP49, BIP84
    <2>2. {LOCKED + t : t \in Schemes} = {128, 129, 130}
        BY <2>1 DEF LOCKED
    <2>3. QED
        BY <2>1, <2>2 DEF Types
<1>2. ASSUME NEW v \in Types
      PROVE  /\ Classify(v).type = v % LOCKED
             /\ Classify(v).type \in Schemes
             /\ Classify(v).locked = (v >= 128)
    <2> DEFINE Right(u) == /\ Classify(u).type = u % LOCKED
                           /\ Classify(u).type \in Schemes
                           /\ Classify(u).locked = (u >= 128)
    <2>0. Right(0)
        BY DEF Classify, Schemes, LOCKED, BIP44, BIP49, BIP84
    <2>1. Right(1)
        BY DEF Classify, Schemes, LOCKED, BIP44, BIP49, BIP84
    <2>2. Right(2)
        BY DEF Classify, Schemes, LOCKED, BIP44, BIP49, BIP84
    <2>128. Right(128)
        BY DEF Classify, Schemes, LOCKED, BIP44, BIP49, BIP84
    <2>129. Right(129)
        BY DEF Classify, Schemes, LOCKED, BIP44, BIP49, BIP84
    <2>130. Right(130)
        BY DEF Classify, Schemes, LOCKED, BIP44, BIP49, BIP84
    <2> HIDE DEF Right
    <2>9. Right(v)
        BY <1>1, <2>0, <2>1, <2>2, <2>128, <2>129, <2>130
    <2>10. QED
        BY <2>9 DEF Right
<1>3. QED
    BY <1>1, <1>2

LEMMA MadeType ==
    ASSUME NEW v \in Types, NEW lock \in BOOLEAN
    PROVE  MakeType(v, lock) \in Types
BY TypesAre DEF MakeType, LOCKED

\* Every address of s is in S, and every one of S in s.
Covers(s, S) ==
    /\ \A i \in DOMAIN s : s[i].address \in S
    /\ \A a \in S : \E i \in DOMAIN s : s[i].address = a

LEMMA CoversAll ==
    ASSUME NEW s, NEW S, Covers(s, S)
    PROVE  {s[i].address : i \in DOMAIN s} = S
BY DEF Covers

LEMMA ConcatAddresses ==
    ASSUME NEW s \in Seq(AddressRecords), NEW t \in Seq(AddressRecords), NEW S, NEW T,
           Covers(s, S), Covers(t, T)
    PROVE  /\ s \o t \in Seq(AddressRecords) /\ Covers(s \o t, S \cup T)
           /\ \A i \in DOMAIN s : (s \o t)[i] = s[i]
<1>1. /\ s \o t \in Seq(AddressRecords) /\ Len(s \o t) = Len(s) + Len(t)
      /\ \A i \in 1 .. Len(s) + Len(t) :
            (s \o t)[i] = IF i <= Len(s) THEN s[i] ELSE t[i - Len(s)]
    BY ConcatProperties
<1>2. /\ DOMAIN s = 1 .. Len(s) /\ DOMAIN t = 1 .. Len(t) /\ Len(s) \in Nat /\ Len(t) \in Nat
      /\ DOMAIN (s \o t) = 1 .. Len(s) + Len(t)
    BY <1>1
<1>3. \A i \in DOMAIN s : i \in DOMAIN (s \o t) /\ (s \o t)[i] = s[i]
    BY <1>1, <1>2
<1>4. ASSUME NEW i \in DOMAIN t PROVE i + Len(s) \in DOMAIN (s \o t) /\ (s \o t)[i + Len(s)] = t[i]
    BY <1>1, <1>2
<1>5. ASSUME NEW i \in DOMAIN (s \o t), i \notin DOMAIN s
      PROVE  i - Len(s) \in DOMAIN t /\ (s \o t)[i] = t[i - Len(s)]
    BY <1>1, <1>2, <1>5
<1>6. \A i \in DOMAIN (s \o t) : (s \o t)[i].address \in S \cup T
    BY <1>3, <1>5 DEF Covers
<1>7. ASSUME NEW a \in S \cup T PROVE \E i \in DOMAIN (s \o t) : (s \o t)[i].address = a
    <2>1. CASE a \in S
        <3>1. PICK i \in DOMAIN s : s[i].address = a
            BY <2>1 DEF Covers
        <3>2. QED
            BY <1>3, <3>1
    <2>2. CASE a \in T
        <3>1. PICK i \in DOMAIN t : t[i].address = a
            BY <2>2 DEF Covers
        <3>2. QED
            BY <1>4, <3>1
    <2>3. QED
        BY <2>1, <2>2
<1>8. QED
    BY <1>1, <1>3, <1>6, <1>7 DEF Covers

\* The addresses of some indices under some types
Under(key, chain, indices, types) ==
    {<<key, chain, indices[i], type>> : i \in DOMAIN indices, type \in types}

LEMMA UnderBoth ==
    ASSUME NEW key, NEW chain, NEW indices, NEW S, NEW T
    PROVE  Under(key, chain, indices, S) \cup Under(key, chain, indices, T)
             = Under(key, chain, indices, S \cup T)
BY DEF Under

LEMMA OfSchemeIs ==
    ASSUME NEW key \in HdKeys, NEW chain \in {0, 1}, NEW indices \in Seq(Nat), NEW type \in Schemes
    PROVE  LET s == OfScheme(key, chain, indices, type)
           IN  /\ s \in Seq(AddressRecords) /\ DOMAIN s = DOMAIN indices
               /\ \A i \in DOMAIN indices : s[i].address = <<key, chain, indices[i], type>>
               /\ Covers(s, Under(key, chain, indices, {type}))
<1> DEFINE s == OfScheme(key, chain, indices, type)
<1>1. DOMAIN indices = 1 .. Len(indices) /\ Len(indices) \in Nat /\ \A i \in DOMAIN indices : indices[i] \in Nat
    OBVIOUS
<1>2. \A i \in DOMAIN indices : DeriveAddress(key, chain, indices[i], type) \in AddressRecords
    BY <1>1 DEF DeriveAddress, AddressRecords, TrueAddress
<1>3. /\ s \in Seq(AddressRecords) /\ DOMAIN s = DOMAIN indices
      /\ \A i \in DOMAIN indices : s[i].address = <<key, chain, indices[i], type>>
    BY <1>1, <1>2 DEF OfScheme, DeriveAddress
<1> HIDE DEF s
<1>4. ASSUME NEW i \in DOMAIN s PROVE s[i].address \in Under(key, chain, indices, {type})
    <2>1. i \in DOMAIN indices /\ type \in {type} /\ s[i].address = <<key, chain, indices[i], type>>
        BY <1>3
    <2>2. QED
        BY <2>1 DEF Under
<1>5. ASSUME NEW a \in Under(key, chain, indices, {type})
      PROVE  \E i \in DOMAIN s : s[i].address = a
    <2>1. PICK i \in DOMAIN indices, u \in {type} : a = <<key, chain, indices[i], u>>
        BY DEF Under
    <2>2. QED
        BY <1>3, <2>1
<1>6. QED
    BY <1>3, <1>4, <1>5 DEF Covers, s

LEMMA Halves ==
    ASSUME NEW i \in Nat
    PROVE  (2 * i - 1 + 1) \div 2 = i /\ (2 * i + 1) \div 2 = i
OBVIOUS

LEMMA LikeTypesAre ==
    ASSUME NEW key \in HdKeys, NEW chain \in {0, 1}, NEW indices \in Seq(Nat)
    PROVE  LET s == LikeTypes(key, chain, indices)
           IN  /\ s \in Seq(AddressRecords)
               /\ Covers(s, Under(key, chain, indices, {BIP44, BIP49}))
<1> DEFINE s == LikeTypes(key, chain, indices)
           Half(i) == (i + 1) \div 2
           Like(i) == IF i % 2 = 1 THEN BIP44 ELSE BIP49
<1>1. /\ DOMAIN indices = 1 .. Len(indices) /\ Len(indices) \in Nat
      /\ \A i \in DOMAIN indices : indices[i] \in Nat
    OBVIOUS
<1>2. \A i \in 1 .. 2 * Len(indices) : Half(i) \in DOMAIN indices /\ Like(i) \in {BIP44, BIP49}
    BY <1>1
<1>3. \A i \in 1 .. 2 * Len(indices) : s[i] = DeriveAddress(key, chain, indices[Half(i)], Like(i))
    BY DEF LikeTypes
<1>4. s \in Seq(AddressRecords) /\ DOMAIN s = 1 .. 2 * Len(indices)
    <2>1. {BIP44, BIP49} \subseteq Schemes
        BY DEF Schemes
    <2>2. ASSUME NEW i \in 1 .. 2 * Len(indices) PROVE s[i] \in AddressRecords
        <3> HIDE DEF s, Half, Like
        <3>1. indices[Half(i)] \in Nat /\ Like(i) \in Schemes
            BY <1>1, <1>2, <2>1
        <3>2. QED
            <4>1. DeriveAddress(key, chain, indices[Half(i)], Like(i)) \in AddressRecords
                BY <3>1 DEF DeriveAddress, AddressRecords, TrueAddress
            <4>2. QED
                BY <1>3, <4>1
    <2>3. s = [i \in 1 .. 2 * Len(indices) |-> s[i]]
        BY DEF LikeTypes
    <2>4. QED
        BY <1>1, <2>2, <2>3
<1>5. \A i \in DOMAIN s : s[i].address = <<key, chain, indices[Half(i)], Like(i)>>
    BY <1>3, <1>4 DEF DeriveAddress
<1>6. ASSUME NEW i \in DOMAIN indices
      PROVE  /\ 2 * i - 1 \in DOMAIN s /\ 2 * i \in DOMAIN s
             /\ Half(2 * i - 1) = i /\ Half(2 * i) = i
             /\ Like(2 * i - 1) = BIP44 /\ Like(2 * i) = BIP49
    <2>1. i \in Nat /\ 1 <= i /\ i <= Len(indices)
        BY <1>1
    <2>2. 2 * i - 1 \in DOMAIN s /\ 2 * i \in DOMAIN s
        BY <1>1, <1>4, <2>1
    <2>3. Half(2 * i - 1) = i /\ Half(2 * i) = i
        <3>1. (2 * i - 1 + 1) \div 2 = i /\ (2 * i + 1) \div 2 = i
            BY <2>1, Halves
        <3>2. QED
            BY <3>1
    <2>4. (2 * i - 1) % 2 = 1 /\ (2 * i) % 2 = 0
        BY <2>1
    <2>5. QED
        BY <2>2, <2>3, <2>4
<1> HIDE DEF s, Half, Like
<1>7. ASSUME NEW i \in DOMAIN s PROVE s[i].address \in Under(key, chain, indices, {BIP44, BIP49})
    <2>1. /\ Half(i) \in DOMAIN indices /\ Like(i) \in {BIP44, BIP49}
          /\ s[i].address = <<key, chain, indices[Half(i)], Like(i)>>
        BY <1>2, <1>4, <1>5
    <2>2. QED
        BY <2>1 DEF Under
<1>8. ASSUME NEW a \in Under(key, chain, indices, {BIP44, BIP49})
      PROVE  \E i \in DOMAIN s : s[i].address = a
    <2>1. PICK i \in DOMAIN indices, u \in {BIP44, BIP49} : a = <<key, chain, indices[i], u>>
        BY DEF Under
    <2>2. QED
        BY <1>5, <1>6, <2>1
<1>9. QED
    BY <1>4, <1>7, <1>8 DEF Covers, s

\* The other types of the change of a Postmix account
Others(key, chain) == IF key \in PostmixKeys /\ chain = 1 THEN {BIP44, BIP49} ELSE {}

AllTypes(key, chain, type) == {type} \cup Others(key, chain)

\* What is derived: the addresses of the scheme first, then the others
DerivedUnder(s, key, chain, indices, type) ==
    /\ s \in Seq(AddressRecords)
    /\ Covers(s, Under(key, chain, indices, AllTypes(key, chain, type)))
    /\ \A i \in DOMAIN indices : s[i].address = <<key, chain, indices[i], type>>

LEMMA ProcessIs ==
    ASSUME NEW key \in HdKeys, NEW chain \in {0, 1}, NEW indices \in Seq(Nat), NEW type \in Schemes
    PROVE  DerivedUnder(InProcess(key, chain, indices, type), key, chain, indices, type)
<1> DEFINE f == OfScheme(key, chain, indices, type)
           like == IsPostmixAcct(key) /\ chain = 1
           g == IF like THEN LikeTypes(key, chain, indices) ELSE <<>>
           others == Others(key, chain)
           F == Under(key, chain, indices, {type})
           G == Under(key, chain, indices, others)
<1>1. /\ f \in Seq(AddressRecords) /\ DOMAIN f = DOMAIN indices
      /\ \A i \in DOMAIN indices : f[i].address = <<key, chain, indices[i], type>>
      /\ Covers(f, F)
    BY OfSchemeIs
<1>2. g \in Seq(AddressRecords) /\ Covers(g, G)
    <2>1. CASE like
        BY <2>1, LikeTypesAre DEF Others, IsPostmixAcct
    <2>2. CASE ~like
        <3>1. g = <<>> /\ others = {}
            BY <2>2 DEF Others, IsPostmixAcct
        <3>2. G = {}
            BY <3>1 DEF Under
        <3> HIDE DEF g, G
        <3>3. QED
            BY <3>1, <3>2 DEF Covers
    <2>3. QED
        BY <2>1, <2>2
<1>3. F \cup G = Under(key, chain, indices, AllTypes(key, chain, type))
    BY UnderBoth DEF AllTypes
<1> HIDE DEF f, g, F, G
<1>4. /\ f \o g \in Seq(AddressRecords) /\ Covers(f \o g, F \cup G)
      /\ \A i \in DOMAIN f : (f \o g)[i] = f[i]
    BY <1>1, <1>2, ConcatAddresses
<1>5. /\ f \o g \in Seq(AddressRecords)
      /\ Covers(f \o g, Under(key, chain, indices, AllTypes(key, chain, type)))
      /\ \A i \in DOMAIN indices : (f \o g)[i].address = <<key, chain, indices[i], type>>
    BY <1>1, <1>3, <1>4
<1>6. QED
    BY <1>5 DEF f, g, InProcess, DerivedUnder

LEMMA CoveredIsTrue ==
    ASSUME NEW call, NEW s,
           Covers(s, Under(call.text.key, call.chain, call.indices,
                           AllTypes(call.text.key, call.chain, call.type % LOCKED)))
    PROVE  {s[i].address : i \in DOMAIN s} = TrueAddresses(call)
<1> DEFINE types == AllTypes(call.text.key, call.chain, call.type % LOCKED)
           S == Under(call.text.key, call.chain, call.indices, types)
<1>1. ASSUME NEW a PROVE a \in S <=> a \in TrueAddresses(call)
    <2> DEFINE T == {call.type % LOCKED}
                    \cup IF call.text.key \in PostmixKeys /\ call.chain = 1 THEN {BIP44, BIP49} ELSE {}
               True == {<<call.text.key, call.chain, call.indices[i], u>> :
                            i \in DOMAIN call.indices, u \in T}
    <2>1. types = T /\ TrueAddresses(call) = True
        BY DEF AllTypes, Others, TrueAddresses
    <2> HIDE DEF T
    <2>2. a \in TrueAddresses(call) <=>
            \E i \in DOMAIN call.indices, u \in types :
                a = <<call.text.key, call.chain, call.indices[i], u>>
        BY <2>1
    <2>3. a \in S <=>
            \E i \in DOMAIN call.indices, u \in types :
                a = <<call.text.key, call.chain, call.indices[i], u>>
        BY DEF Under
    <2>4. QED
        BY <2>2, <2>3
<1>2. S = TrueAddresses(call)
    BY <1>1
<1>3. QED
    BY <1>2, CoversAll

-----------------------------------------------------------------------------
(* Derivation: the steps *)

LEMMA ValidTexts ==
    ASSUME NodesRight, NEW text \in HdTexts
    PROVE  /\ IsValid(text) => text \in [prefix : {"xpub", "ypub", "zpub"}, key : HdKeys]
           /\ ~IsValid(text) => text.key \in BrokenKeys \/ text.prefix = "other"
           /\ IsValid(text) /\ Cache(text) => NodesRight'
<1>1. IsValid(text) => text \in [prefix : {"xpub", "ypub", "zpub"}, key : HdKeys]
    BY DEF IsValid, NodesRight, HdTexts
<1>2. ~IsValid(text) => text.key \in BrokenKeys \/ text.prefix = "other"
    BY DEF IsValid, HdTexts
<1>3. IsValid(text) /\ Cache(text) => NodesRight'
    BY <1>1 DEF Cache, NodesRight
<1>4. QED
    BY <1>1, <1>2, <1>3

LEMMA XpubOf ==
    ASSUME NEW text \in HdTexts
    PROVE  XlatHdAccount(text).xpub \in HdTexts /\ XlatHdAccount(text).xpub.key = text.key
           /\ XlatHdAccount(text).scheme \in Schemes
BY DEF XlatHdAccount, XlatXpub, HdTexts, Schemes, BIP44, BIP49, BIP84

\* A step of one call leaves the others right, if it says no less about the pool.
LEMMA OneCall ==
    ASSUME DerivationInv, NEW c \in Deriving, NEW call, CallBecomes(c, call),
           UNCHANGED external, NodesRight', hdTypes' \in [HdKeys -> Types \cup {NoHdRow}],
           poolErrors' \in Nat, poolErrors' >= poolErrors, CallRight(call, poolErrors')
    PROVE  DerivationInv'
<1>1. /\ external \in BOOLEAN /\ poolErrors \in Nat /\ DOMAIN derivations = Deriving
      /\ \A d \in Deriving : CallRight(derivations[d], poolErrors)
    BY DEF DerivationInv
<1>2. /\ DOMAIN derivations' = Deriving /\ derivations'[c] = call
      /\ \A d \in Deriving : d # c => derivations'[d] = derivations[d]
    BY <1>1 DEF CallBecomes
<1>3. \A d \in Deriving : CallRight(derivations[d], poolErrors) => CallRight(derivations[d], poolErrors')
    <2>1. poolErrors > 0 => poolErrors' > 0
        BY <1>1
    <2>2. QED
        BY <2>1 DEF CallRight
<1>4. \A d \in Deriving : CallRight(derivations'[d], poolErrors')
    BY <1>1, <1>2, <1>3
<1>5. QED
    BY <1>1, <1>2, <1>4 DEF DerivationInv

LEMMA DeriveInv ==
    ASSUME DerivationAssumption, DerivationInv, NEW c \in Deriving, NEW text \in HdTexts,
           NEW chain \in {0, 1}, NEW indices \in IndexRanges, NEW type \in Types,
           DeriveAddresses(c, text, chain, indices, type),
           hdTypes' \in [HdKeys -> Types \cup {NoHdRow}]
    PROVE  DerivationInv'
<1> DEFINE info == Classify(type)
           Made(state, addresses) == DerivationCall(text, chain, indices, type, state, addresses)
<1>1. /\ NodesRight /\ poolErrors \in Nat /\ UNCHANGED <<external, poolErrors>>
      /\ indices \in Seq(Nat)
      /\ info.type = type % LOCKED /\ info.type \in Schemes
    BY TypesAre DEF DerivationInv, DeriveAddresses, DerivationAssumption
<1>2. NodesRight'
    <2>1. CASE IsValid(text)
        BY <1>1, <2>1, ValidTexts DEF DeriveAddresses
    <2>2. CASE ~IsValid(text)
        BY <1>1, <2>2 DEF DeriveAddresses, NodesRight
    <2>3. QED
        BY <2>1, <2>2
<1>3. /\ \A state \in {"threw", "inPool"} : Made(state, <<>>) \in DerivationCalls
      /\ \A addresses \in Seq(AddressRecords) : Made("derived", addresses) \in DerivationCalls
    BY DEF DerivationCall, DerivationCalls
<1>4. CASE ~IsValid(text)
    <2>1. CallBecomes(c, Made("threw", <<>>))
        BY <1>4 DEF DeriveAddresses
    <2>2. text.key \in BrokenKeys \/ text.prefix = "other"
        BY <1>1, <1>4, ValidTexts
    <2>3. CallRight(Made("threw", <<>>), poolErrors')
        BY <1>3, <2>2 DEF CallRight, DerivationCall
    <2>4. QED
        BY <1>1, <1>2, <2>1, <2>3, OneCall
<1>5. CASE IsValid(text) /\ external /\ Len(indices) > ParallelThreshold
    <2>1. info.type # NoScheme
        BY <1>1 DEF Schemes, NoScheme, BIP44, BIP49, BIP84
    <2>2. CallBecomes(c, Made("inPool", <<>>))
        BY <1>5, <2>1 DEF DeriveAddresses
    <2>3. text.key \in HdKeys
        BY <1>1, <1>5, ValidTexts
    <2>4. CallRight(Made("inPool", <<>>), poolErrors')
        BY <1>3, <2>3 DEF CallRight, DerivationCall
    <2>5. QED
        BY <1>1, <1>2, <2>2, <2>4, OneCall
<1>6. CASE IsValid(text) /\ ~(external /\ Len(indices) > ParallelThreshold)
    <2> DEFINE s == InProcess(text.key, chain, indices, info.type)
    <2>1. info.type # NoScheme
        BY <1>1 DEF Schemes, NoScheme, BIP44, BIP49, BIP84
    <2>2. CallBecomes(c, Made("derived", s))
        BY <1>6, <2>1 DEF DeriveAddresses
    <2>3. text.key \in HdKeys
        BY <1>1, <1>6, ValidTexts
    <2>4. /\ s \in Seq(AddressRecords)
          /\ Covers(s, Under(text.key, chain, indices, AllTypes(text.key, chain, info.type)))
          /\ \A i \in DOMAIN indices : s[i].address = <<text.key, chain, indices[i], info.type>>
        <3>1. PICK u \in Schemes : u = info.type
            BY <1>1
        <3>2. s = InProcess(text.key, chain, indices, u)
            BY <3>1
        <3> HIDE DEF s, info
        <3>3. PICK key \in HdKeys : key = text.key
            BY <2>3
        <3>4. DerivedUnder(InProcess(key, chain, indices, u), key, chain, indices, u)
            BY <1>1, ProcessIs
        <3>5. DerivedUnder(s, text.key, chain, indices, info.type)
            BY <3>1, <3>2, <3>3, <3>4
        <3>6. QED
            BY <3>5 DEF DerivedUnder
    <2> HIDE DEF s, info
    <2>5. CallRight(Made("derived", s), poolErrors')
        <3>1. Made("derived", s) \in DerivationCalls
            BY <1>3, <2>4
        <3>2. {s[i].address : i \in DOMAIN s} = TrueAddresses(Made("derived", s))
            BY <1>1, <2>4, CoveredIsTrue DEF DerivationCall
        <3>3. QED
            BY <1>1, <2>3, <2>4, <3>1, <3>2 DEF CallRight, DerivationCall
    <2>6. QED
        BY <1>1, <1>2, <2>2, <2>5, OneCall
<1>7. QED
    BY <1>4, <1>5, <1>6

LEMMA CreateInv ==
    ASSUME DerivationAssumption, DerivationInv, NEW c \in Deriving, Create(c)
    PROVE  DerivationInv'
<1>1. PICK text \in HdTexts, chain \in {0, 1}, indices \in IndexRanges, scheme \in Schemes :
        LET xpub == XlatHdAccount(text).xpub
        IN  IF IsValid(xpub) /\ LockedOut(xpub.key, scheme)
            THEN /\ derivations[c] = NoCall
                 /\ Cache(xpub)
                 /\ CallBecomes(c, DerivationCall(xpub, chain, indices, scheme, "lockedOut", <<>>))
                 /\ UNCHANGED <<external, hdTypes, poolErrors>>
            ELSE /\ DeriveAddresses(c, xpub, chain, indices, scheme)
                 /\ hdTypes' = IF IsValid(xpub)
                               THEN [hdTypes EXCEPT ![xpub.key] = EnsuredRow(xpub.key, scheme)]
                               ELSE hdTypes
    BY DEF Create
<1> DEFINE xpub == XlatHdAccount(text).xpub
<1>2. xpub \in HdTexts /\ scheme \in Types
    BY XpubOf DEF Types
<1>3. /\ NodesRight /\ poolErrors \in Nat /\ hdTypes \in [HdKeys -> Types \cup {NoHdRow}]
    BY DEF DerivationInv
<1> HIDE DEF xpub
<1>4. CASE IsValid(xpub) /\ LockedOut(xpub.key, scheme)
    <2> DEFINE call == DerivationCall(xpub, chain, indices, scheme, "lockedOut", <<>>)
    <2>1. CallBecomes(c, call) /\ Cache(xpub) /\ UNCHANGED <<external, hdTypes, poolErrors>>
        BY <1>1, <1>4 DEF xpub
    <2>2. NodesRight'
        BY <1>2, <1>3, <1>4, <2>1, ValidTexts
    <2>3. CallRight(call, poolErrors')
        BY <1>2 DEF CallRight, DerivationCall, DerivationCalls
    <2> HIDE DEF call
    <2>4. QED
        BY <1>3, <2>1, <2>2, <2>3, OneCall
<1>5. CASE ~(IsValid(xpub) /\ LockedOut(xpub.key, scheme))
    <2>1. /\ DeriveAddresses(c, xpub, chain, indices, scheme)
          /\ hdTypes' = IF IsValid(xpub)
                        THEN [hdTypes EXCEPT ![xpub.key] = EnsuredRow(xpub.key, scheme)]
                        ELSE hdTypes
        BY <1>1, <1>5 DEF xpub
    <2>2. hdTypes' \in [HdKeys -> Types \cup {NoHdRow}]
        <3>1. CASE IsValid(xpub)
            <4>1. xpub.key \in HdKeys
                BY <1>2, <1>3, <3>1, ValidTexts
            <4>2. EnsuredRow(xpub.key, scheme) \in Types \cup {NoHdRow}
                BY <1>2, <1>3, <4>1 DEF EnsuredRow
            <4>3. QED
                BY <1>3, <2>1, <3>1, <4>1, <4>2
        <3>2. CASE ~IsValid(xpub)
            BY <1>3, <2>1, <3>2
        <3>3. QED
            BY <3>1, <3>2
    <2>3. QED
        BY <1>2, <2>1, <2>2, DeriveInv
<1>6. QED
    BY <1>4, <1>5

LEMMA RescanInv ==
    ASSUME DerivationAssumption, DerivationInv, NEW c \in Deriving, Rescan(c)
    PROVE  DerivationInv'
<1>1. PICK key \in HdKeys, chain \in {0, 1}, indices \in IndexRanges :
        /\ hdTypes[key] # NoHdRow
        /\ DeriveAddresses(c, [prefix |-> "xpub", key |-> key], chain, indices, hdTypes[key])
        /\ UNCHANGED hdTypes
    BY DEF Rescan
<1>2. /\ hdTypes \in [HdKeys -> Types \cup {NoHdRow}] /\ hdTypes[key] \in Types
      /\ [prefix |-> "xpub", key |-> key] \in HdTexts
    BY <1>1 DEF DerivationInv, HdTexts
<1>3. QED
    BY <1>1, <1>2, DeriveInv

LEMMA PoolInv ==
    ASSUME DerivationAssumption, DerivationInv, NEW c \in Deriving, PoolAnswers(c) \/ PoolFails(c)
    PROVE  DerivationInv'
<1> DEFINE call == derivations[c]
<1>1. /\ NodesRight /\ poolErrors \in Nat /\ hdTypes \in [HdKeys -> Types \cup {NoHdRow}]
      /\ CallRight(call, poolErrors) /\ call.state = "inPool"
    BY DEF DerivationInv, PoolAnswers, PoolFails
<1>2. /\ call \in DerivationCalls /\ call.text.key \in HdKeys /\ call.addresses = <<>>
      /\ call.text \in HdTexts /\ call.chain \in {0, 1} /\ call.type \in Types
      /\ call.indices \in IndexRanges
    BY <1>1 DEF CallRight, NoCall, SignedCalls, DerivationCalls
<1> HIDE DEF call
<1>3. CASE PoolAnswers(c)
    <2> DEFINE info == Classify(call.type)
               s == InChild(Message(call.text, call.chain, call.indices, info))
               new == [call EXCEPT !.state = "derived", !.addresses = s]
    <2>1. CallBecomes(c, new) /\ UNCHANGED <<external, nodes, hdTypes, poolErrors>>
        BY <1>3 DEF PoolAnswers, call
    <2>2. info.type = call.type % LOCKED /\ info.type \in Schemes /\ call.indices \in Seq(Nat)
        BY <1>2, TypesAre DEF DerivationAssumption
    <2>3. /\ s \in Seq(AddressRecords)
          /\ Covers(s, Under(call.text.key, call.chain, call.indices,
                            AllTypes(call.text.key, call.chain, info.type)))
          /\ \A i \in DOMAIN call.indices :
               s[i].address = <<call.text.key, call.chain, call.indices[i], info.type>>
        <3>1. s = InProcess(call.text.key, call.chain, call.indices, info.type)
            BY <1>2 DEF InChild, InProcess, Message, XlatXpub, HdTexts
        <3> HIDE DEF s, info
        <3>2. QED
            <4>1. PICK u \in Schemes : u = info.type
                BY <2>2
            <4>2. PICK key \in HdKeys, chain \in {0, 1}, indices \in Seq(Nat) :
                    key = call.text.key /\ chain = call.chain /\ indices = call.indices
                BY <1>2, <2>2
            <4>3. s = InProcess(key, chain, indices, u)
                BY <3>1, <4>1, <4>2
            <4>4. DerivedUnder(InProcess(key, chain, indices, u), key, chain, indices, u)
                BY ProcessIs
            <4>5. DerivedUnder(s, call.text.key, call.chain, call.indices, info.type)
                BY <4>1, <4>2, <4>3, <4>4
            <4>6. QED
                BY <4>5 DEF DerivedUnder
    <2> HIDE DEF s, info
    <2>4. /\ new \in DerivationCalls /\ new.state = "derived" /\ new.addresses = s
          /\ new.text = call.text /\ new.chain = call.chain /\ new.indices = call.indices
          /\ new.type = call.type
        BY <1>2, <2>3 DEF DerivationCalls
    <2> HIDE DEF new
    <2>5. {s[i].address : i \in DOMAIN s} = TrueAddresses(new)
        <3>1. Covers(s, Under(new.text.key, new.chain, new.indices,
                              AllTypes(new.text.key, new.chain, new.type % LOCKED)))
            BY <2>2, <2>3, <2>4
        <3>2. QED
            BY <3>1, CoveredIsTrue
    <2>6. CallRight(new, poolErrors')
        BY <1>2, <2>2, <2>3, <2>4, <2>5 DEF CallRight
    <2>7. NodesRight'
        BY <1>1, <2>1 DEF NodesRight
    <2>8. QED
        BY <1>1, <2>1, <2>6, <2>7, OneCall
<1>4. CASE PoolFails(c)
    <2>1. PICK state \in {"empty", "threw"} : CallBecomes(c, [call EXCEPT !.state = state])
        BY <1>4 DEF PoolFails, call
    <2>2. poolErrors' = poolErrors + 1 /\ UNCHANGED <<external, nodes, hdTypes>>
        BY <1>4 DEF PoolFails
    <2> DEFINE new == [call EXCEPT !.state = state]
    <2>3. /\ new \in DerivationCalls /\ new.state = state /\ new.addresses = <<>>
          /\ new.text = call.text
        BY <1>2 DEF DerivationCalls
    <2> HIDE DEF new
    <2>4. CallRight(new, poolErrors')
        BY <1>1, <1>2, <2>2, <2>3 DEF CallRight
    <2>5. NodesRight'
        BY <1>1, <2>2 DEF NodesRight
    <2>6. QED
        BY <1>1, <2>1, <2>2, <2>4, <2>5, OneCall DEF new
<1>5. QED
    BY <1>3, <1>4

\* The address that signs is the first of the change under the scheme.
LEMMA FirstAddress ==
    ASSUME DerivationAssumption, NEW key \in HdKeys, NEW type \in Schemes
    PROVE  InProcess(key, 1, <<0>>, type)[1].address = <<key, 1, 0, type>>
<1>1. <<0>> \in Seq(Nat) /\ 1 \in DOMAIN <<0>> /\ <<0>>[1] = 0
    OBVIOUS
<1>2. \A i \in DOMAIN <<0>> : InProcess(key, 1, <<0>>, type)[i].address = <<key, 1, <<0>>[i], type>>
    BY <1>1, ProcessIs DEF DerivedUnder
<1>3. QED
    BY <1>1, <1>2

LEMMA SignedInv ==
    ASSUME DerivationAssumption, DerivationInv, NEW c \in Deriving, SignedRequest(c)
    PROVE  DerivationInv'
<1>1. PICK text \in HdTexts, signer \in HdKeys, scheme \in Schemes :
        \E message, signed \in Signable(text) :
            VerifyXpubSignature(c, text, message, [by |-> <<signer, 1, 0, BIP44>>, of |-> signed],
                                <<signer, 1, 0, scheme>>)
    BY DEF SignedRequest
<1>2. PICK message \in Signable(text), signed \in Signable(text) :
            VerifyXpubSignature(c, text, message, [by |-> <<signer, 1, 0, BIP44>>, of |-> signed],
                                <<signer, 1, 0, scheme>>)
    BY <1>1
<1> DEFINE sig == [by |-> <<signer, 1, 0, BIP44>>, of |-> signed]
           address == <<signer, 1, 0, scheme>>
           hd == XlatHdAccount(text)
           wasKnown == hdTypes[hd.xpub.key] # NoHdRow
           valid == wasKnown /\ sig = [by |-> <<text.key, 1, 0, BIP44>>, of |-> message]
                    /\ address = <<text.key, 1, 0, hd.scheme>>
           call == [state |-> IF valid THEN "verified" ELSE "refused", text |-> text,
                    known |-> wasKnown, message |-> message, sig |-> sig, address |-> address]
<1>3. /\ NodesRight /\ poolErrors \in Nat /\ hdTypes \in [HdKeys -> Types \cup {NoHdRow}]
    BY DEF DerivationInv
<1>4. /\ hd.xpub \in HdTexts /\ hd.xpub.key = text.key /\ hd.scheme \in Schemes
      /\ IsValid(hd.xpub) /\ Cache(hd.xpub) /\ UNCHANGED <<external, hdTypes, poolErrors>>
    BY <1>2, XpubOf DEF VerifyXpubSignature
<1>5. text.key \in HdKeys /\ NodesRight'
    BY <1>3, <1>4, ValidTexts
<1>6. CallBecomes(c, call)
    <2>1. /\ InProcess(hd.xpub.key, 1, <<0>>, BIP44)[1].address = <<text.key, 1, 0, BIP44>>
          /\ InProcess(hd.xpub.key, 1, <<0>>, hd.scheme)[1].address = <<text.key, 1, 0, hd.scheme>>
        BY <1>4, <1>5, FirstAddress DEF Schemes
    <2>2. QED
        BY <1>2, <2>1 DEF VerifyXpubSignature
<1>7. call \in SignedCalls
    <2>1. message \in SignedTexts /\ signed \in SignedTexts
        BY DEF Signable, SignedTexts
    <2>2. <<signer, 1, 0, BIP44>> \in TrueAddress /\ address \in TrueAddress
        BY DEF TrueAddress, Schemes
    <2>3. sig \in [by : TrueAddress, of : SignedTexts]
        BY <2>1, <2>2
    <2>4. wasKnown \in BOOLEAN
        OBVIOUS
    <2>5. text \in [prefix : {"xpub", "ypub", "zpub", "other"}, key : HdKeys]
        BY <1>5 DEF HdTexts
    <2> HIDE DEF sig, address, wasKnown
    <2>6. QED
        BY <2>1, <2>2, <2>3, <2>4, <2>5 DEF SignedCalls
<1>8. SignedByOwner(call)
    <2> HIDE DEF sig, address, wasKnown
    <2>1. (call.state # "refused") <=> valid
        OBVIOUS
    <2>2. QED
        BY <2>1 DEF SignedByOwner
<1>9. CallRight(call, poolErrors')
    BY <1>7, <1>8 DEF CallRight
<1> HIDE DEF call
<1>10. QED
    BY <1>3, <1>4, <1>5, <1>6, <1>9, OneCall

LEMMA OwnerInv ==
    ASSUME DerivationAssumption, DerivationInv, NEW c \in Deriving, PostLockXpub(c) \/ DeleteXpub(c)
    PROVE  DerivationInv'
<1> DEFINE call == derivations[c]
           New(state) == [call EXCEPT !.state = state]
<1>1. /\ NodesRight /\ poolErrors \in Nat /\ hdTypes \in [HdKeys -> Types \cup {NoHdRow}]
      /\ CallRight(call, poolErrors) /\ call.state = "verified"
      /\ UNCHANGED <<external, nodes, poolErrors>>
    BY DEF DerivationInv, PostLockXpub, DeleteXpub
<1>2. call \in SignedCalls /\ SignedByOwner(call) /\ call.text.key \in HdKeys
    BY <1>1 DEF CallRight, NoCall, SignedCalls, DerivationCalls
<1> HIDE DEF call
<1>3. ASSUME NEW state \in {"locked", "unknown", "deleted"} PROVE CallRight(New(state), poolErrors')
    <2>1. New(state) \in SignedCalls
        BY <1>2 DEF SignedCalls
    <2>2. /\ New(state).state = state /\ New(state).text = call.text /\ New(state).sig = call.sig
          /\ New(state).message = call.message /\ New(state).address = call.address
          /\ New(state).known = call.known
        BY <1>2 DEF SignedCalls
    <2> HIDE DEF New
    <2>3. SignedByOwner(New(state))
        BY <1>1, <1>2, <2>2 DEF SignedByOwner
    <2>4. QED
        BY <2>1, <2>3 DEF CallRight
<1>4. NodesRight'
    BY <1>1 DEF NodesRight
<1>5. \E state \in {"locked", "unknown", "deleted"} : CallBecomes(c, New(state))
    BY DEF PostLockXpub, DeleteXpub, call
<1>6. hdTypes' \in [HdKeys -> Types \cup {NoHdRow}]
    <2>1. CASE DeleteXpub(c)
        BY <1>1, <1>2, <2>1 DEF DeleteXpub, call
    <2>2. CASE PostLockXpub(c)
        <3> DEFINE key == call.text.key
                   lock == call.message.word # "unlock"
        <3>1. hdTypes' = hdTypes \/ (hdTypes[key] # NoHdRow /\ hdTypes' = [hdTypes EXCEPT ![key] = MakeType(@, lock)])
            BY <2>2 DEF PostLockXpub, LockHdAccount, call
        <3>2. hdTypes[key] # NoHdRow => MakeType(hdTypes[key], lock) \in Types
            BY <1>1, <1>2, MadeType
        <3>3. QED
            BY <1>1, <1>2, <3>1, <3>2
    <2>3. QED
        BY <2>1, <2>2
<1> HIDE DEF New
<1>7. QED
    BY <1>1, <1>3, <1>4, <1>5, <1>6, OneCall

\* The types, what each call has and the nodes of the cache are right after each step, for
\* any accounts, any number of calls at once and any failures of the pool.
THEOREM DerivationInvariant == DerivationSpec => []DerivationInv
<1> USE DerivationAssumption
<1>1. DerivationInit => DerivationInv
    BY DEF DerivationInit, DerivationInv, NodesRight, CallRight, DerivationAssumption, Types
<1>2. DerivationInv /\ [DerivationNext]_derivationVars => DerivationInv'
    <2> SUFFICES ASSUME DerivationInv, [DerivationNext]_derivationVars PROVE DerivationInv'
        OBVIOUS
    <2>1. ASSUME NEW c \in Deriving, Create(c) PROVE DerivationInv'
        BY <2>1, CreateInv
    <2>2. ASSUME NEW c \in Deriving, Rescan(c) PROVE DerivationInv'
        BY <2>2, RescanInv
    <2>3. ASSUME NEW c \in Deriving, PoolAnswers(c) \/ PoolFails(c) PROVE DerivationInv'
        BY <2>3, PoolInv
    <2>4. ASSUME NEW c \in Deriving, SignedRequest(c) PROVE DerivationInv'
        BY <2>4, SignedInv
    <2>5. ASSUME NEW c \in Deriving, PostLockXpub(c) \/ DeleteXpub(c) PROVE DerivationInv'
        BY <2>5, OwnerInv
    <2>6. CASE UNCHANGED derivationVars
        BY <2>6 DEF derivationVars, DerivationInv, NodesRight
    <2>7. QED
        BY <2>1, <2>2, <2>3, <2>4, <2>5, <2>6 DEF DerivationNext
<1>3. QED
    BY <1>1, <1>2, PTL DEF DerivationSpec

\* Locked or not, in the process or in the pool, whatever was cached and however requests
\* interleave, the calls of deriveAddresses give an account the same addresses, all or none;
\* and verifyXpubSignature accepts a request exactly if the owner of a known account signed it.
THEOREM AddressesSame == DerivationSpec => []SameAddresses
<1>1. DerivationInv => SameAddresses
    <2> SUFFICES ASSUME DerivationInv, NEW c \in Deriving
                 PROVE  DerivedRight(derivations[c]) /\ SignedByOwner(derivations[c])
        BY DEF SameAddresses
    <2> DEFINE call == derivations[c]
    <2>1. CallRight(call, poolErrors)
        BY DEF DerivationInv
    <2> HIDE DEF call
    <2>2. CASE call = NoCall
        BY <2>2 DEF NoCall, DerivedRight, SignedByOwner, call
    <2>3. CASE call \in DerivationCalls
        <3>1. call.state \in {"inPool", "derived", "empty", "threw", "lockedOut"}
            BY <2>3 DEF DerivationCalls
        <3>2. call # NoCall /\ call \notin SignedCalls
            BY <3>1 DEF NoCall, SignedCalls
        <3>3. DerivedRight(call)
            BY <2>1, <3>1, <3>2 DEF CallRight, DerivedRight
        <3>4. SignedByOwner(call)
            BY <3>1 DEF SignedByOwner
        <3>5. QED
            BY <3>3, <3>4 DEF call
    <2>4. CASE call \in SignedCalls
        <3>1. call.state \in {"verified", "refused", "locked", "unknown", "deleted"}
            BY <2>4 DEF SignedCalls
        <3>2. call # NoCall /\ call \notin DerivationCalls
            BY <3>1 DEF NoCall, DerivationCalls
        <3>3. SignedByOwner(call)
            BY <2>1, <3>2 DEF CallRight
        <3>4. DerivedRight(call)
            BY <3>1 DEF DerivedRight
        <3>5. QED
            BY <3>3, <3>4 DEF call
    <2>5. QED
        BY <2>1, <2>2, <2>3, <2>4 DEF CallRight, call
<1>2. QED
    BY <1>1, DerivationInvariant, PTL

-----------------------------------------------------------------------------
(* PandoTx: the invariant *)

\* What an emission is: of the transaction of its caller, with a node once it has one
EmissionOK(e, m) ==
    /\ m.step # "idle" => m.tx \in PandoTxs /\ (e \in PandoTxs => m.tx = e)
    /\ m.step = "idle" => m.tx = NoEntry
    /\ m.step = "list" => m.left > 0
    /\ m.step \in {"send", "wait"} => m.url \in Nodes
    /\ e \in Watchdogs => m.step # "local"

EmissionsOK == \A e \in Emitters : EmissionOK(e, emission[e])

Busy(w) == watchdog[w].entry # NoEntry

\* One call of the watchdog is busy at most; what it emits again is its own; and while it
\* waits for getrawtransaction its index is that of its entry.
WatchOK ==
    /\ \A w \in Watchdogs : Busy(w) => isWatchdogActive
    /\ \A v, w \in Watchdogs : Busy(v) /\ Busy(w) => v = w
    /\ \A w \in Watchdogs : emission[w].step # "idle" => Busy(w)
    /\ \A w \in Watchdogs : Busy(w) /\ emission[w].step = "idle" =>
         /\ watchdog[w].i \in 1 .. Len(watchdogTxsList)
         /\ watchdogTxsList[watchdog[w].i].tx = watchdog[w].entry.tx

PandoInv == PandoTypeOK /\ EmissionsOK /\ WatchOK /\ NotForgotten

Listed(t, list) == \E j \in 1 .. Len(list) : list[j].tx = t

-----------------------------------------------------------------------------
(* The list *)

\* splice removes the entry at its index and no other.
LEMMA RemoveAtKeeps ==
    ASSUME NEW S, NEW s \in Seq(S), NEW i \in 1 .. Len(s)
    PROVE  /\ RemoveAt(s, i) \in Seq(S)
           /\ \A j \in 1 .. Len(s) : j # i =>
                \E k \in 1 .. Len(RemoveAt(s, i)) : RemoveAt(s, i)[k] = s[j]
<1> DEFINE a == SubSeq(s, 1, i - 1)
           b == SubSeq(s, i + 1, Len(s))
<1>1. Len(s) \in Nat /\ i \in Int /\ \A j \in 1 .. Len(s) : s[j] \in S
    OBVIOUS
<1>2. /\ a \in Seq(S) /\ Len(a) = i - 1
      /\ \A j \in 1 .. i - 1 : a[j] = s[j]
    <2>1. \A j \in 1 .. i - 1 : s[j] \in S
        BY <1>1
    <2> QED BY <1>1, <2>1, SubSeqProperties
<1>3. /\ b \in Seq(S) /\ Len(b) = Len(s) - i
      /\ \A j \in 1 .. Len(s) - i : b[j] = s[i + j]
    <2>1. \A j \in i + 1 .. Len(s) : s[j] \in S
        BY <1>1
    <2>2. /\ b \in Seq(S)
          /\ Len(b) = IF i + 1 <= Len(s) THEN Len(s) - (i + 1) + 1 ELSE 0
          /\ \A j \in 1 .. Len(s) - (i + 1) + 1 : b[j] = s[i + 1 + j - 1]
        BY <1>1, <2>1, SubSeqProperties
    <2>3. Len(b) = Len(s) - i
        BY <1>1, <2>2
    <2>4. \A j \in 1 .. Len(s) - i : b[j] = s[i + j]
        BY <1>1, <2>2
    <2> QED BY <2>2, <2>3, <2>4
<1>4. RemoveAt(s, i) = a \o b
    BY DEF RemoveAt
<1> HIDE DEF a, b
<1>5. /\ a \o b \in Seq(S)
      /\ Len(a \o b) = Len(a) + Len(b)
      /\ \A j \in 1 .. Len(a) + Len(b) : (a \o b)[j] = IF j <= Len(a) THEN a[j] ELSE b[j - Len(a)]
    BY <1>2, <1>3, ConcatProperties
<1>6. ASSUME NEW j \in 1 .. Len(s), j # i
      PROVE  \E k \in 1 .. Len(a \o b) : (a \o b)[k] = s[j]
    <2>1. CASE j < i
        <3>1. j \in 1 .. Len(a \o b) /\ (a \o b)[j] = s[j]
            BY <1>1, <1>2, <1>3, <1>5, <2>1
        <3> QED BY <3>1
    <2>2. CASE j > i
        <3>1. j - 1 \in 1 .. Len(a \o b) /\ (a \o b)[j - 1] = b[j - i]
            BY <1>1, <1>2, <1>3, <1>5, <2>2
        <3>2. b[j - i] = s[i + (j - i)] /\ i + (j - i) = j
            BY <1>1, <1>3, <2>2
        <3> QED BY <3>1, <3>2
    <2> QED BY <1>1, <1>6, <2>1, <2>2
<1> QED BY <1>4, <1>5, <1>6

\* A transaction leaves the list by its own entry only.
LEMMA SplicedKeeps ==
    ASSUME watchdogTxsList \in Seq(Entries), NEW i \in 1 .. Len(watchdogTxsList),
           NEW t, Listed(t, watchdogTxsList), watchdogTxsList[i].tx # t
    PROVE  Listed(t, Spliced(i))
<1>1. PICK j \in 1 .. Len(watchdogTxsList) : watchdogTxsList[j].tx = t
    BY DEF Listed
<1>2. PICK k \in 1 .. Len(RemoveAt(watchdogTxsList, i)) :
        RemoveAt(watchdogTxsList, i)[k] = watchdogTxsList[j]
    BY <1>1, RemoveAtKeeps
<1>3. Spliced(i) = RemoveAt(watchdogTxsList, i)
    BY DEF Spliced
<1> QED BY <1>1, <1>2, <1>3 DEF Listed

LEMMA SplicedType ==
    ASSUME watchdogTxsList \in Seq(Entries), NEW i \in 1 .. Len(watchdogTxsList)
    PROVE  Spliced(i) \in Seq(Entries)
BY RemoveAtKeeps DEF Spliced

LEMMA AppendedKeeps ==
    ASSUME NEW list \in Seq(Entries), NEW m \in Entries
    PROVE  /\ Append(list, m) \in Seq(Entries)
           /\ Listed(m.tx, Append(list, m))
           /\ \A t : Listed(t, list) => Listed(t, Append(list, m))
           /\ \A j \in 1 .. Len(list) :
                j \in 1 .. Len(Append(list, m)) /\ Append(list, m)[j] = list[j]
<1>1. /\ Append(list, m) \in Seq(Entries)
      /\ Len(Append(list, m)) = Len(list) + 1
      /\ Append(list, m)[Len(list) + 1] = m
      /\ \A j \in 1 .. Len(list) : Append(list, m)[j] = list[j]
    OBVIOUS
<1>2. \A j \in 1 .. Len(list) : j \in 1 .. Len(Append(list, m))
    BY <1>1
<1>3. Len(list) + 1 \in 1 .. Len(Append(list, m))
    BY <1>1
<1>4. Listed(m.tx, Append(list, m))
    BY <1>1, <1>3 DEF Listed
<1>5. \A t : Listed(t, list) => Listed(t, Append(list, m))
    BY <1>1, <1>2 DEF Listed
<1> QED BY <1>1, <1>2, <1>4, <1>5

-----------------------------------------------------------------------------
(* Parts of steps *)

\* The watchdog looks at the next entry, or ends.
LEMMA ScanInv ==
    ASSUME PandoTxAssumption, PandoTypeOK, NEW w \in Watchdogs,
           watchdogTxsList' \in Seq(Entries), NEW n \in Int, Scan(w, watchdogTxsList', n),
           emission'[w].step = "idle",
           \A v \in Watchdogs \ {w} : ~Busy(v) /\ emission'[v].step = "idle"
    PROVE  /\ WatchOK'
           /\ watchdog' \in [Watchdogs -> [i : Nat, entry : Entries \cup {NoEntry}]]
           /\ isWatchdogActive' \in BOOLEAN
<1> DEFINE list == watchdogTxsList'
           Calls == [i : Nat, entry : Entries \cup {NoEntry}]
<1>1. watchdog \in [Watchdogs -> Calls]
    BY DEF PandoTypeOK
<1>2. CASE isWatchdogActive' = FALSE /\ watchdog' = [watchdog EXCEPT ![w] = NoWatch]
    <2>1. NoWatch \in Calls /\ NoWatch.entry = NoEntry
        BY DEF NoWatch
    <2>2. /\ watchdog' \in [Watchdogs -> Calls]
          /\ \A v \in Watchdogs : ~Busy(v)'
        BY <1>1, <1>2, <2>1 DEF Busy
    <2>3. \A v \in Watchdogs : emission'[v].step = "idle"
        OBVIOUS
    <2> QED BY <1>2, <2>2, <2>3 DEF WatchOK
<1>3. ASSUME NEW next \in 1 .. Len(list), isWatchdogActive' = TRUE,
             watchdog' = [watchdog EXCEPT ![w] = [i |-> next, entry |-> list[next]]]
      PROVE  /\ WatchOK' /\ watchdog' \in [Watchdogs -> Calls] /\ isWatchdogActive' \in BOOLEAN
    <2> DEFINE m == [i |-> next, entry |-> list[next]]
    <2>1. list[next] \in Entries /\ next \in Nat
        OBVIOUS
    <2>2. m \in Calls /\ m.i = next /\ m.entry = list[next]
        BY <2>1
    <2>3. watchdog'[w] = m /\ \A v \in Watchdogs \ {w} : watchdog'[v] = watchdog[v]
        BY <1>1, <1>3
    <2>4. watchdog' \in [Watchdogs -> Calls]
        BY <1>1, <1>3, <2>2
    <2> HIDE DEF m
    <2>5. \A v \in Watchdogs : v # w => ~Busy(v)'
        BY <2>3 DEF Busy
    <2>6. \A v \in Watchdogs : emission'[v].step = "idle"
        OBVIOUS
    <2>7. \A v \in Watchdogs : Busy(v)' /\ emission'[v].step = "idle" =>
            /\ watchdog'[v].i \in 1 .. Len(list)
            /\ list[watchdog'[v].i].tx = watchdog'[v].entry.tx
        BY <2>2, <2>3, <2>5
    <2>8. /\ \A v \in Watchdogs : Busy(v)' => isWatchdogActive'
          /\ \A u, v \in Watchdogs : Busy(u)' /\ Busy(v)' => u = v
          /\ \A v \in Watchdogs : emission'[v].step # "idle" => Busy(v)'
        BY <1>3, <2>5, <2>6
    <2> QED BY <1>3, <2>4, <2>7, <2>8 DEF WatchOK
<1> QED BY <1>2, <1>3 DEF Scan

\* An emission goes on, ends without a confirmation, or begins; the watchdog stays.
LEMMA EmissionInv ==
    ASSUME PandoTxAssumption, PandoInv, PandoTypeOK', NEW e \in Emitters, NEW m \in Emissions,
           emission' = [emission EXCEPT ![e] = m], EmissionOK(e, m), UNCHANGED watchVars,
           e \in Watchdogs => /\ m.step = "idle" <=> emission[e].step = "idle"
                              /\ m.tx = emission[e].tx,
           known \subseteq known', pushtxAlive' => pushtxAlive,
           \A t \in PandoTxs : answer'[t] = "ok" => answer[t] = "ok" \/ t \in known'
    PROVE  PandoInv'
<1>1. emission \in [Emitters -> Emissions]
    BY DEF PandoInv, PandoTypeOK
<1>2. emission'[e] = m /\ \A f \in Emitters \ {e} : emission'[f] = emission[f]
    BY <1>1
<1>3. EmissionsOK'
    BY <1>2 DEF PandoInv, EmissionsOK, EmissionOK
<1>4. \A w \in Watchdogs : /\ emission'[w].step = "idle" <=> emission[w].step = "idle"
                           /\ emission'[w].tx = emission[w].tx
    BY <1>2 DEF Emitters
<1>5. WatchOK'
    BY <1>4 DEF PandoInv, WatchOK, Busy, watchVars
<1>6. NotForgotten'
    <2>1. SUFFICES ASSUME NEW t \in PandoTxs, pushtxAlive', answer'[t] = "ok", t \notin known'
          PROVE  \/ \E j \in DOMAIN watchdogTxsList : watchdogTxsList[j].tx = t
                 \/ \E w \in Watchdogs : emission'[w].tx = t
        BY DEF NotForgotten, watchVars
    <2>2. pushtxAlive /\ answer[t] = "ok" /\ t \notin known
        BY <2>1
    <2> QED BY <1>4, <2>2 DEF PandoInv, NotForgotten
<1> QED BY <1>3, <1>5, <1>6 DEF PandoInv

\* An error ends the process, or the emission of a client.
LEMMA ThrowsInv ==
    ASSUME PandoTxAssumption, PandoInv, NEW e \in Emitters, emission[e].step # "idle", Throws(e),
           watchdogBlacklist' \subseteq Nodes, dayOld' \subseteq watchdogBlacklist',
           published' \subseteq PandoTxs, UNCHANGED <<fallbackMode, pushes, expiries, known>>
    PROVE  PandoInv'
<1>1. CASE e \in Watchdogs /\ pushtxAlive' = FALSE /\ UNCHANGED <<emission, answer>>
    BY <1>1 DEF Throws, PandoInv, PandoTypeOK, EmissionsOK, WatchOK, NotForgotten, Busy, watchVars
<1>2. emission \in [Emitters -> Emissions] /\ emission[e] \in Emissions
    BY DEF PandoInv, PandoTypeOK
<1>3. CASE /\ e \in PandoTxs /\ answer' = [answer EXCEPT ![e] = "silent"]
           /\ emission' = [emission EXCEPT ![e] = NoEmission] /\ UNCHANGED pushtxAlive
    <2>1. NoEmission \in Emissions /\ EmissionOK(e, NoEmission)
        BY DEF NoEmission, Emissions, EmissionOK, PandoTxAssumption
    <2>2. PandoTypeOK'
        BY <1>2, <1>3, <2>1 DEF PandoInv, PandoTypeOK, Throws, watchVars
    <2>3. \A t \in PandoTxs : answer'[t] = "ok" => answer[t] = "ok"
        BY <1>3 DEF PandoInv, PandoTypeOK
    <2>4. e \notin Watchdogs
        BY <1>3 DEF PandoTxAssumption
    <2> QED BY <1>3, <2>1, <2>2, <2>3, <2>4, EmissionInv DEF Throws
<1>4. CASE /\ e \in PandoTxs /\ emission' = [emission EXCEPT ![e].step = "local"]
           /\ UNCHANGED <<answer, pushtxAlive>>
    <2> DEFINE m == [emission[e] EXCEPT !.step = "local"]
    <2>1. emission' = [emission EXCEPT ![e] = m]
        BY <1>4
    <2>2. e \notin Watchdogs
        BY <1>4 DEF PandoTxAssumption
    <2>3. m \in Emissions /\ EmissionOK(e, m)
        BY <1>2, <2>2 DEF Emissions, EmissionOK, PandoInv, EmissionsOK
    <2> HIDE DEF m
    <2>4. PandoTypeOK'
        BY <1>2, <1>4, <2>1, <2>3 DEF PandoInv, PandoTypeOK, Throws, watchVars
    <2> QED BY <1>4, <2>1, <2>2, <2>3, <2>4, EmissionInv DEF Throws
<1> QED BY <1>1, <1>3, <1>4 DEF Throws

-----------------------------------------------------------------------------
(* The steps of an emission *)

LEMMA ListNodesInv ==
    ASSUME PandoTxAssumption, PandoInv, NEW e \in Emitters, NEW us \in SUBSET Nodes,
           ListNodes(e, us)
    PROVE  PandoInv'
<1>1. emission \in [Emitters -> Emissions] /\ emission[e] \in Emissions
    BY DEF PandoInv, PandoTypeOK
<1>2. CASE Throws(e) /\ UNCHANGED <<watchdogBlacklist, dayOld>>
    BY <1>2, ThrowsInv DEF ListNodes, PandoInv, PandoTypeOK
<1>3. ASSUME NEW u \in us,
             watchdogBlacklist' = watchdogBlacklist \ {u}, dayOld' = dayOld \ {u},
             emission' = [emission EXCEPT ![e] =
                            [step |-> "send", tx |-> emission[e].tx, url |-> u,
                             left |-> emission[e].left - 1]],
             UNCHANGED <<watchVars, answer, pushtxAlive>>
      PROVE  PandoInv'
    <2> DEFINE m == [step |-> "send", tx |-> emission[e].tx, url |-> u,
                     left |-> emission[e].left - 1]
    <2>1. emission' = [emission EXCEPT ![e] = m]
        BY <1>3
    <2>2. emission[e].step = "list" /\ emission[e].left > 0
        BY DEF ListNodes, PandoInv, EmissionsOK, EmissionOK
    <2>3. m \in Emissions
        <3>1. /\ emission[e].left \in 0 .. MaxNbAttempts
              /\ emission[e].tx \in PandoTxs \cup {NoEntry}
            BY <1>1 DEF Emissions
        <3>2. emission[e].left - 1 \in 0 .. MaxNbAttempts
            BY <2>2, <3>1 DEF PandoTxAssumption
        <3> QED BY <3>1, <3>2 DEF Emissions
    <2>4. m.step = "send" /\ m.tx = emission[e].tx /\ m.url \in Nodes
        BY <1>1 DEF Emissions
    <2>5. EmissionOK(e, m)
        BY <2>2, <2>4 DEF EmissionOK, PandoInv, EmissionsOK
    <2> HIDE DEF m
    <2>6. emission' \in [Emitters -> Emissions]
        BY <1>1, <2>1, <2>3
    <2>7. watchdogBlacklist' \subseteq Nodes /\ dayOld' \subseteq watchdogBlacklist'
        BY <1>3 DEF PandoInv, PandoTypeOK
    <2>8. PandoTypeOK'
        BY <1>3, <2>6, <2>7 DEF ListNodes, PandoInv, PandoTypeOK, watchVars
    <2> QED BY <1>3, <2>1, <2>2, <2>3, <2>4, <2>5, <2>8, EmissionInv DEF ListNodes
<1> QED BY <1>2, <1>3 DEF ListNodes

LEMMA AddedInv ==
    ASSUME PandoTxAssumption, PandoInv, NEW e \in Emitters, Added(e)
    PROVE  PandoInv'
<1> DEFINE m == [emission[e] EXCEPT !.step = "wait"]
<1>1. emission \in [Emitters -> Emissions] /\ emission[e] \in Emissions
    BY DEF PandoInv, PandoTypeOK
<1>2. emission' = [emission EXCEPT ![e] = m] /\ emission[e].step = "send"
    BY DEF Added
<1>3. m \in Emissions /\ EmissionOK(e, m) /\ m.step = "wait" /\ m.tx = emission[e].tx
    BY <1>1, <1>2 DEF Emissions, EmissionOK, PandoInv, EmissionsOK
<1>4. emission[e].tx \in PandoTxs
    BY <1>2 DEF EmissionOK, PandoInv, EmissionsOK
<1> HIDE DEF m
<1>5. PandoTypeOK'
    BY <1>1, <1>2, <1>3, <1>4 DEF Added, PandoInv, PandoTypeOK, watchVars, blameVars
<1> QED BY <1>2, <1>3, <1>5, EmissionInv DEF Added

LEMMA SendFailsInv ==
    ASSUME PandoTxAssumption, PandoInv, NEW e \in Emitters, SendFails(e)
    PROVE  PandoInv'
<1>1. /\ emission \in [Emitters -> Emissions] /\ emission[e] \in Emissions
      /\ emission[e].step = "send" /\ emission[e].url \in Nodes
    BY DEF SendFails, PandoInv, PandoTypeOK, EmissionsOK, EmissionOK
<1>2. watchdogBlacklist' \subseteq Nodes /\ dayOld' \subseteq watchdogBlacklist'
    BY <1>1 DEF SendFails, PandoInv, PandoTypeOK
<1>3. CASE Throws(e)
    BY <1>1, <1>2, <1>3, ThrowsInv DEF SendFails, PandoInv, PandoTypeOK
<1>4. CASE /\ emission[e].left > 0 /\ emission' = [emission EXCEPT ![e].left = @ - 1]
           /\ UNCHANGED <<watchVars, answer, pushtxAlive>>
    <2> DEFINE m == [emission[e] EXCEPT !.left = emission[e].left - 1]
    <2>1. emission' = [emission EXCEPT ![e] = m]
        BY <1>4
    <2>2. m \in Emissions
        BY <1>1, <1>4 DEF Emissions, PandoTxAssumption
    <2>3. m.step = "send" /\ m.tx = emission[e].tx /\ m.url = emission[e].url
        BY <1>1 DEF Emissions
    <2>4. EmissionOK(e, m)
        BY <1>1, <2>3 DEF EmissionOK, PandoInv, EmissionsOK
    <2> HIDE DEF m
    <2>5. emission' \in [Emitters -> Emissions]
        BY <1>1, <2>1, <2>2
    <2>6. /\ PandoTypeOK /\ UNCHANGED <<watchVars, answer, pushtxAlive>>
          /\ UNCHANGED <<fallbackMode, pushes, expiries, known, published>>
        BY <1>4 DEF SendFails, PandoInv
    <2>7. PandoTypeOK'
        BY <1>2, <2>5, <2>6 DEF PandoTypeOK, watchVars
    <2> QED BY <1>1, <1>4, <2>1, <2>2, <2>3, <2>4, <2>7, EmissionInv DEF SendFails
<1> QED BY <1>3, <1>4 DEF SendFails

LEMMA WaitFailsInv ==
    ASSUME PandoTxAssumption, PandoInv, NEW e \in Emitters, WaitFails(e)
    PROVE  PandoInv'
BY ThrowsInv DEF WaitFails, PandoInv, PandoTypeOK, blameVars

LEMMA BegunOK ==
    ASSUME PandoTxAssumption, NEW e \in Emitters, NEW t \in PandoTxs, e \in PandoTxs => t = e
    PROVE  /\ Begun(t) \in Emissions /\ EmissionOK(e, Begun(t))
           /\ Begun(t).step = "list" /\ Begun(t).tx = t
BY DEF Begun, Emissions, EmissionOK, PandoTxAssumption

\* An emission of the watchdog begins anew; others fail.
LEMMA TimesOutInv ==
    ASSUME PandoTxAssumption, PandoInv, NEW e \in Emitters, TimesOut(e)
    PROVE  PandoInv'
<1>1. /\ emission \in [Emitters -> Emissions] /\ emission[e] \in Emissions
      /\ emission[e].step = "wait" /\ emission[e].url \in Nodes /\ emission[e].tx \in PandoTxs
    BY DEF TimesOut, PandoInv, PandoTypeOK, EmissionsOK, EmissionOK
<1>2. watchdogBlacklist' \subseteq Nodes /\ dayOld' \subseteq watchdogBlacklist'
    BY <1>1 DEF TimesOut, PandoInv, PandoTypeOK, BlamedForTimeout
<1>3. CASE Throws(e)
    BY <1>1, <1>2, <1>3, ThrowsInv DEF TimesOut, PandoInv, PandoTypeOK
<1>4. CASE /\ e \in Watchdogs /\ emission' = [emission EXCEPT ![e] = Begun(@.tx)]
           /\ UNCHANGED <<watchVars, answer, pushtxAlive>>
    <2> DEFINE m == Begun(emission[e].tx)
    <2>1. emission' = [emission EXCEPT ![e] = m]
        BY <1>4
    <2>2. e \notin PandoTxs
        BY <1>4 DEF PandoTxAssumption
    <2>3. m \in Emissions /\ EmissionOK(e, m) /\ m.step = "list" /\ m.tx = emission[e].tx
        BY <1>1, <2>2, BegunOK
    <2> HIDE DEF m
    <2>4. PandoTypeOK'
        BY <1>1, <1>2, <1>4, <2>1, <2>3 DEF TimesOut, PandoInv, PandoTypeOK, watchVars
    <2> QED BY <1>1, <1>4, <2>1, <2>3, <2>4, EmissionInv DEF TimesOut
<1> QED BY <1>3, <1>4 DEF TimesOut

\* The confirmation is found: the transaction is listed before its emission is over.
LEMMA ConfirmedInv ==
    ASSUME PandoTxAssumption, PandoInv, NEW e \in Emitters, Confirmed(e)
    PROVE  PandoInv'
<1> DEFINE entry == [tx |-> emission[e].tx, node |-> emission[e].url, old |-> FALSE]
           list == watchdogTxsList'
<1>1. /\ emission \in [Emitters -> Emissions] /\ emission[e] \in Emissions
      /\ emission[e].step = "wait" /\ emission[e].url \in Nodes /\ emission[e].tx \in PandoTxs
      /\ e \in PandoTxs => emission[e].tx = e
    BY DEF Confirmed, PandoInv, PandoTypeOK, EmissionsOK, EmissionOK
<1>2. entry \in Entries /\ entry.tx = emission[e].tx
    BY <1>1 DEF Entries
<1>3. list = Append(watchdogTxsList, entry) /\ watchdogTxsList \in Seq(Entries)
    BY DEF Confirmed, Watched, PandoInv, PandoTypeOK
<1>4. emission' = [emission EXCEPT ![e] = NoEmission] /\ UNCHANGED pushtxAlive
    BY DEF Confirmed, Watched
<1> HIDE DEF entry
<1>5. /\ list \in Seq(Entries) /\ Listed(emission[e].tx, list)
      /\ \A t : Listed(t, watchdogTxsList) => Listed(t, list)
      /\ \A j \in 1 .. Len(watchdogTxsList) : j \in 1 .. Len(list) /\ list[j] = watchdogTxsList[j]
    BY <1>2, <1>3, AppendedKeeps
<1>6. NoEmission \in Emissions /\ EmissionOK(e, NoEmission) /\ NoEmission.step = "idle"
    BY DEF NoEmission, Emissions, EmissionOK, PandoTxAssumption
<1>7. /\ emission' \in [Emitters -> Emissions] /\ emission'[e] = NoEmission
      /\ \A f \in Emitters \ {e} : emission'[f] = emission[f]
    BY <1>1, <1>4, <1>6
<1>8. EmissionsOK'
    BY <1>6, <1>7 DEF EmissionsOK, EmissionOK, PandoInv
<1>9. ASSUME NEW t \in PandoTxs, pushtxAlive', answer'[t] = "ok", t \notin known',
             answer[t] = "ok" \/ t = emission[e].tx
      PROVE  \/ \E j \in DOMAIN list : list[j].tx = t
             \/ \E w \in Watchdogs : emission'[w].tx = t
    <2>1. CASE t = emission[e].tx
        BY <1>5, <2>1 DEF Listed
    <2>2. CASE t # emission[e].tx
        <3>1. pushtxAlive /\ answer[t] = "ok" /\ t \notin known
            BY <1>4, <1>9, <2>2 DEF Confirmed
        <3>2. CASE \E j \in DOMAIN watchdogTxsList : watchdogTxsList[j].tx = t
            <4>1. Listed(t, watchdogTxsList)
                BY <1>3, <3>2 DEF Listed
            <4> QED BY <1>5, <4>1 DEF Listed
        <3>3. CASE \E w \in Watchdogs : emission[w].tx = t
            BY <1>7, <2>2, <3>3 DEF Emitters
        <3> QED BY <3>1, <3>2, <3>3 DEF PandoInv, NotForgotten
    <2> QED BY <2>1, <2>2
<1>10. CASE /\ e \in Watchdogs /\ Scan(e, list, watchdog[e].i - 1) /\ UNCHANGED answer
    <2>1. Busy(e) /\ \A v \in Watchdogs \ {e} : ~Busy(v) /\ emission[v].step = "idle"
        BY <1>1, <1>10 DEF PandoInv, WatchOK
    <2>2. \A v \in Watchdogs \ {e} : emission'[v].step = "idle"
        BY <1>7, <2>1 DEF Emitters
    <2>3. watchdog[e].i - 1 \in Int /\ PandoTypeOK
        BY <1>10 DEF PandoInv, PandoTypeOK
    <2>4. /\ WatchOK' /\ isWatchdogActive' \in BOOLEAN
          /\ watchdog' \in [Watchdogs -> [i : Nat, entry : Entries \cup {NoEntry}]]
        BY <1>5, <1>6, <1>7, <1>10, <2>1, <2>2, <2>3, ScanInv
    <2>5. PandoTypeOK'
        BY <1>4, <1>5, <1>7, <1>10, <2>4 DEF PandoInv, PandoTypeOK, Confirmed, blameVars
    <2>6. NotForgotten'
        BY <1>9, <1>10 DEF NotForgotten
    <2> QED BY <1>8, <2>4, <2>5, <2>6 DEF PandoInv
<1>11. CASE /\ e \in PandoTxs /\ answer' = [answer EXCEPT ![e] = "ok"]
            /\ UNCHANGED <<isWatchdogActive, watchdog>>
    <2>1. e \notin Watchdogs
        BY <1>11 DEF PandoTxAssumption
    <2>2. \A w \in Watchdogs : emission'[w] = emission[w]
        BY <1>7, <2>1 DEF Emitters
    <2>3. WatchOK'
        BY <1>5, <1>11, <2>2 DEF PandoInv, WatchOK, Busy
    <2>4. PandoTypeOK'
        BY <1>4, <1>5, <1>7, <1>11 DEF PandoInv, PandoTypeOK, Confirmed, blameVars
    <2>5. \A t \in PandoTxs : answer'[t] = "ok" => answer[t] = "ok" \/ t = emission[e].tx
        BY <1>1, <1>11 DEF PandoInv, PandoTypeOK
    <2>6. NotForgotten'
        BY <1>9, <2>5 DEF NotForgotten
    <2> QED BY <1>8, <2>3, <2>4, <2>6 DEF PandoInv
<1> QED BY <1>10, <1>11 DEF Confirmed, Watched

-----------------------------------------------------------------------------
(* The steps of the watchdog *)

LEMMA ProcessWatchdogInv ==
    ASSUME PandoTxAssumption, PandoInv, NEW w \in Watchdogs, ProcessWatchdog(w),
           UNCHANGED pushtxAlive
    PROVE  PandoInv'
<1>1. \A v \in Watchdogs : ~Busy(v) /\ emission[v].step = "idle"
    BY DEF PandoInv, WatchOK, ProcessWatchdog, NoneActive
<1>2. watchdogTxsList' = watchdogTxsList /\ watchdogTxsList \in Seq(Entries) /\ emission' = emission
    BY DEF ProcessWatchdog, PandoInv, PandoTypeOK
<1>3. /\ WatchOK' /\ isWatchdogActive' \in BOOLEAN
      /\ watchdog' \in [Watchdogs -> [i : Nat, entry : Entries \cup {NoEntry}]]
    <2>1. Len(watchdogTxsList) \in Int /\ PandoTypeOK
        BY <1>2 DEF PandoInv
    <2> QED BY <1>1, <1>2, <2>1, ScanInv DEF ProcessWatchdog
<1>4. PandoTypeOK'
    BY <1>3 DEF PandoInv, PandoTypeOK, ProcessWatchdog, blameVars
<1> QED BY <1>3, <1>4 DEF PandoInv, EmissionsOK, NotForgotten, ProcessWatchdog

\* What a busy call that waits for bitcoind knows
LEMMA CheckingOK ==
    ASSUME PandoTxAssumption, PandoInv, NEW w \in Watchdogs, Checking(w)
    PROVE  /\ watchdog[w].i \in 1 .. Len(watchdogTxsList)
           /\ watchdogTxsList[watchdog[w].i].tx = watchdog[w].entry.tx
           /\ watchdog[w].entry \in Entries
           /\ Spliced(watchdog[w].i) \in Seq(Entries)
           /\ \A v \in Watchdogs \ {w} : ~Busy(v) /\ emission[v].step = "idle"
<1>1. Busy(w) /\ emission[w].step = "idle"
    BY DEF Checking, Busy
<1>2. /\ watchdog[w].i \in 1 .. Len(watchdogTxsList)
      /\ watchdogTxsList[watchdog[w].i].tx = watchdog[w].entry.tx
      /\ \A v \in Watchdogs \ {w} : ~Busy(v) /\ emission[v].step = "idle"
    BY <1>1 DEF PandoInv, WatchOK
<1>3. watchdog[w].entry \in Entries
    BY <1>1 DEF Busy, PandoInv, PandoTypeOK
<1>4. watchdogTxsList \in Seq(Entries)
    BY DEF PandoInv, PandoTypeOK
<1> QED BY <1>2, <1>3, <1>4, SplicedType

LEMMA WatchedIsKnownInv ==
    ASSUME PandoTxAssumption, PandoInv, NEW w \in Watchdogs, WatchedIsKnown(w),
           UNCHANGED pushtxAlive
    PROVE  PandoInv'
<1>1. /\ watchdog[w].i \in 1 .. Len(watchdogTxsList)
      /\ watchdogTxsList[watchdog[w].i].tx = watchdog[w].entry.tx
      /\ Spliced(watchdog[w].i) \in Seq(Entries)
      /\ \A v \in Watchdogs \ {w} : ~Busy(v) /\ emission[v].step = "idle"
    BY CheckingOK DEF WatchedIsKnown
<1>2. /\ emission' = emission /\ emission[w].step = "idle" /\ watchdog[w].entry.tx \in known
      /\ watchdogTxsList' = Spliced(watchdog[w].i)
      /\ watchdogTxsList \in Seq(Entries) /\ watchdog[w].i \in Nat
    BY DEF WatchedIsKnown, Checking, PandoInv, PandoTypeOK
<1>3. /\ WatchOK' /\ isWatchdogActive' \in BOOLEAN
      /\ watchdog' \in [Watchdogs -> [i : Nat, entry : Entries \cup {NoEntry}]]
    <2>1. watchdog[w].i - 1 \in Int /\ PandoTypeOK
        BY <1>2 DEF PandoInv
    <2> QED BY <1>1, <1>2, <2>1, ScanInv DEF WatchedIsKnown
<1>4. PandoTypeOK'
    BY <1>1, <1>2, <1>3 DEF PandoInv, PandoTypeOK, WatchedIsKnown, blameVars
<1>5. NotForgotten'
    <2>1. SUFFICES ASSUME NEW t \in PandoTxs, t \notin known,
                          \E j \in DOMAIN watchdogTxsList : watchdogTxsList[j].tx = t
          PROVE  \E j \in DOMAIN watchdogTxsList' : watchdogTxsList'[j].tx = t
        BY DEF NotForgotten, PandoInv, WatchedIsKnown
    <2>2. Listed(t, watchdogTxsList)
        BY <1>2, <2>1 DEF Listed
    <2>3. Listed(t, watchdogTxsList')
        BY <1>1, <1>2, <2>1, <2>2, SplicedKeeps
    <2> QED BY <1>1, <1>2, <2>3 DEF Listed
<1> QED BY <1>2, <1>3, <1>4, <1>5 DEF PandoInv, EmissionsOK

\* The transaction is in the hands of the watchdog when its entry is removed.
LEMMA EmitAgainInv ==
    ASSUME PandoTxAssumption, PandoInv, NEW w \in Watchdogs, EmitAgain(w), UNCHANGED pushtxAlive
    PROVE  PandoInv'
<1> DEFINE t0 == watchdog[w].entry.tx
           m == Begun(t0)
<1>1. /\ watchdog[w].i \in 1 .. Len(watchdogTxsList)
      /\ watchdogTxsList[watchdog[w].i].tx = t0
      /\ watchdog[w].entry \in Entries
      /\ Spliced(watchdog[w].i) \in Seq(Entries)
      /\ \A v \in Watchdogs \ {w} : ~Busy(v) /\ emission[v].step = "idle"
    BY CheckingOK DEF EmitAgain
<1>2. /\ watchdogTxsList' = Spliced(watchdog[w].i) /\ watchdogTxsList \in Seq(Entries)
      /\ emission' = [emission EXCEPT ![w] = m] /\ emission[w].step = "idle" /\ Busy(w)
      /\ emission \in [Emitters -> Emissions] /\ w \in Emitters /\ w \notin PandoTxs
    BY DEF EmitAgain, Checking, Busy, PandoInv, PandoTypeOK, Emitters, PandoTxAssumption
<1>3. t0 \in PandoTxs /\ watchdog[w].entry.node \in Nodes
    BY <1>1 DEF Entries
<1>4. m \in Emissions /\ EmissionOK(w, m) /\ m.step = "list" /\ m.tx = t0
    BY <1>2, <1>3, BegunOK
<1> HIDE DEF m, t0
<1>5. /\ emission' \in [Emitters -> Emissions] /\ emission'[w] = m
      /\ \A f \in Emitters \ {w} : emission'[f] = emission[f]
    BY <1>2, <1>4
<1>6. EmissionsOK'
    BY <1>4, <1>5 DEF EmissionsOK, EmissionOK, PandoInv
<1>7. UNCHANGED <<isWatchdogActive, watchdog, known, answer>>
    BY DEF EmitAgain
<1>8. WatchOK'
    <2>1. \A v \in Watchdogs : Busy(v)' <=> Busy(v)
        BY <1>7 DEF Busy
    <2>2. \A v \in Watchdogs : Busy(v) => v = w
        BY <1>1
    <2>3. emission'[w].step # "idle"
        BY <1>4, <1>5
    <2>4. \A v \in Watchdogs : emission'[v].step # "idle" => Busy(v)
        BY <1>1, <1>2, <1>5 DEF Emitters
    <2>5. \A v \in Watchdogs : Busy(v) => isWatchdogActive'
        BY <1>7 DEF PandoInv, WatchOK
    <2> QED BY <2>1, <2>2, <2>3, <2>4, <2>5 DEF WatchOK
<1>9. watchdogBlacklist' \subseteq Nodes /\ dayOld' \subseteq watchdogBlacklist'
    BY <1>3 DEF EmitAgain, PandoInv, PandoTypeOK
<1>10. PandoTypeOK'
    BY <1>1, <1>2, <1>5, <1>9 DEF PandoInv, PandoTypeOK, EmitAgain
<1>11. NotForgotten'
    <2>1. SUFFICES ASSUME NEW t \in PandoTxs, pushtxAlive, answer[t] = "ok", t \notin known
          PROVE  \/ \E j \in DOMAIN watchdogTxsList' : watchdogTxsList'[j].tx = t
                 \/ \E v \in Watchdogs : emission'[v].tx = t
        BY <1>7 DEF NotForgotten
    <2>2. CASE t = t0
        BY <1>4, <1>5, <2>2
    <2>3. CASE t # t0 /\ \E j \in DOMAIN watchdogTxsList : watchdogTxsList[j].tx = t
        <3>1. Listed(t, watchdogTxsList)
            BY <1>2, <2>3 DEF Listed
        <3>2. Listed(t, watchdogTxsList')
            BY <1>1, <1>2, <2>3, <3>1, SplicedKeeps
        <3> QED BY <1>1, <1>2, <3>2 DEF Listed
    <2>4. CASE \E v \in Watchdogs : emission[v].tx = t
        <3>1. PICK v \in Watchdogs : emission[v].tx = t
            BY <2>4
        <3>2. v # w
            BY <1>2, <2>1, <3>1
            DEF PandoInv, EmissionsOK, EmissionOK, PandoTxAssumption
        <3> QED BY <1>5, <3>1, <3>2 DEF Emitters
    <2> QED BY <2>1, <2>2, <2>3, <2>4 DEF PandoInv, NotForgotten
<1> QED BY <1>6, <1>8, <1>10, <1>11 DEF PandoInv

-----------------------------------------------------------------------------
(* The clients and what is around *)

LEMMA PushInv ==
    ASSUME PandoTxAssumption, PandoInv, NEW t \in PandoTxs, Push(t)
    PROVE  PandoInv'
<1>1. /\ t \in Emitters /\ t \notin Watchdogs
      /\ emission \in [Emitters -> Emissions] /\ answer \in [PandoTxs -> {"none", "ok", "silent", "failed"}]
    BY DEF Emitters, PandoTxAssumption, PandoInv, PandoTypeOK
<1>2. CASE t \in known /\ answer' = [answer EXCEPT ![t] = "ok"] /\ UNCHANGED emission
    <2>1. PandoTypeOK'
        BY <1>1, <1>2 DEF PandoInv, PandoTypeOK, Push, watchVars, blameVars
    <2>2. WatchOK'
        BY <1>2 DEF PandoInv, WatchOK, Busy, Push, watchVars
    <2>3. NotForgotten'
        BY <1>1, <1>2 DEF PandoInv, NotForgotten, Push, watchVars
    <2> QED BY <1>2, <2>1, <2>2, <2>3 DEF PandoInv, EmissionsOK
<1>3. CASE emission' = [emission EXCEPT ![t] = Begun(t)] /\ UNCHANGED answer
    <2>1. Begun(t) \in Emissions /\ EmissionOK(t, Begun(t))
        BY <1>1, BegunOK
    <2>2. PandoTypeOK'
        BY <1>1, <1>3, <2>1 DEF PandoInv, PandoTypeOK, Push, watchVars, blameVars
    <2> QED BY <1>1, <1>3, <2>1, <2>2, EmissionInv DEF Push
<1> QED BY <1>2, <1>3 DEF Push

LEMMA PushLocallyInv ==
    ASSUME PandoTxAssumption, PandoInv, NEW t \in PandoTxs, PushLocally(t)
    PROVE  PandoInv'
<1>1. /\ t \in Emitters /\ t \notin Watchdogs
      /\ emission \in [Emitters -> Emissions] /\ answer \in [PandoTxs -> {"none", "ok", "silent", "failed"}]
    BY DEF Emitters, PandoTxAssumption, PandoInv, PandoTypeOK
<1>2. NoEmission \in Emissions /\ EmissionOK(t, NoEmission)
    BY DEF NoEmission, Emissions, EmissionOK, PandoTxAssumption
<1>3. /\ known \subseteq known' /\ known' \subseteq PandoTxs
      /\ answer' \in [PandoTxs -> {"none", "ok", "silent", "failed"}]
      /\ \A u \in PandoTxs : answer'[u] = "ok" => answer[u] = "ok" \/ u \in known'
    BY <1>1 DEF PushLocally, PandoInv, PandoTypeOK
<1>4. PandoTypeOK'
    BY <1>1, <1>2, <1>3 DEF PandoInv, PandoTypeOK, PushLocally, watchVars, blameVars
<1> QED BY <1>1, <1>2, <1>3, <1>4, EmissionInv DEF PushLocally

LEMMA SeenInv ==
    ASSUME PandoTxAssumption, PandoInv, NEW t \in PandoTxs, Seen(t)
    PROVE  PandoInv'
<1>1. PandoTypeOK'
    BY DEF PandoInv, PandoTypeOK, Seen, watchVars, blameVars
<1>2. WatchOK'
    BY DEF PandoInv, WatchOK, Busy, Seen, watchVars
<1>3. NotForgotten'
    BY DEF PandoInv, NotForgotten, Seen, watchVars
<1> QED BY <1>1, <1>2, <1>3 DEF PandoInv, EmissionsOK, Seen

LEMMA AgedOK ==
    ASSUME NEW m \in Entries
    PROVE  [m EXCEPT !.old = TRUE] \in Entries /\ [m EXCEPT !.old = TRUE].tx = m.tx
BY DEF Entries

LEMMA AgeInv ==
    ASSUME PandoTxAssumption, PandoInv, NEW i \in DOMAIN watchdogTxsList, Age(i)
    PROVE  PandoInv'
<1> DEFINE list == watchdogTxsList'
<1>1. watchdogTxsList \in Seq(Entries)
    BY DEF PandoInv, PandoTypeOK
<1>2. /\ DOMAIN list = DOMAIN watchdogTxsList
      /\ \A j \in DOMAIN watchdogTxsList : list[j] \in Entries /\ list[j].tx = watchdogTxsList[j].tx
    <2>1. \A j \in DOMAIN watchdogTxsList :
            /\ watchdogTxsList[j] \in Entries
            /\ [watchdogTxsList[j] EXCEPT !.old = TRUE] \in Entries
            /\ [watchdogTxsList[j] EXCEPT !.old = TRUE].tx = watchdogTxsList[j].tx
        BY <1>1, AgedOK
    <2> QED BY <2>1 DEF Age
<1>3. list \in Seq(Entries) /\ Len(list) = Len(watchdogTxsList)
    <2>1. DOMAIN list = 1 .. Len(watchdogTxsList) /\ Len(watchdogTxsList) \in Nat
        BY <1>1, <1>2
    <2>2. list \in [1 .. Len(watchdogTxsList) -> Entries]
        BY <1>1, <1>2, <2>1 DEF Age
    <2> QED BY <2>1, <2>2
<1>4. UNCHANGED <<fallbackMode, pushes, emission, blameVars, isWatchdogActive, watchdog,
                  known, published, answer, pushtxAlive>>
    BY DEF Age
<1> HIDE DEF list
<1>5. PandoTypeOK'
    BY <1>3, <1>4 DEF PandoInv, PandoTypeOK, blameVars, list
<1>6. WatchOK'
    BY <1>1, <1>2, <1>3, <1>4 DEF PandoInv, WatchOK, Busy, list
<1>7. NotForgotten'
    BY <1>2, <1>4 DEF PandoInv, NotForgotten, list
<1> QED BY <1>4, <1>5, <1>6, <1>7 DEF PandoInv, EmissionsOK

LEMMA DayInv ==
    ASSUME PandoTxAssumption, PandoInv, Day
    PROVE  PandoInv'
<1>1. PandoTypeOK'
    BY DEF PandoInv, PandoTypeOK, Day, watchVars
<1>2. WatchOK'
    BY DEF PandoInv, WatchOK, Busy, Day, watchVars
<1>3. NotForgotten'
    BY DEF PandoInv, NotForgotten, Day, watchVars
<1> QED BY <1>1, <1>2, <1>3 DEF PandoInv, EmissionsOK, Day

-----------------------------------------------------------------------------
LEMMA PandoInitInv == ASSUME PandoTxAssumption, PandoInit PROVE PandoInv
<1>1. NoEmission \in Emissions /\ NoEmission.step = "idle"
    BY DEF NoEmission, Emissions, PandoTxAssumption
<1>2. \A e \in Emitters : EmissionOK(e, NoEmission)
    BY DEF NoEmission, EmissionOK
<1>3. NoWatch \in [i : Nat, entry : Entries \cup {NoEntry}] /\ NoWatch.entry = NoEntry
    BY DEF NoWatch
<1>4. <<>> \in Seq(Entries)
    OBVIOUS
<1>5. PandoTypeOK
    BY <1>1, <1>3, <1>4 DEF PandoInit, PandoTypeOK
<1>6. EmissionsOK
    BY <1>2 DEF PandoInit, EmissionsOK
<1>7. WatchOK
    BY <1>1, <1>3 DEF PandoInit, WatchOK, Busy, Emitters
<1> QED BY <1>5, <1>6, <1>7 DEF PandoInv, PandoInit, NotForgotten

LEMMA PandoStep ==
    ASSUME PandoTxAssumption, PandoInv, [PandoNext]_pandoVars
    PROVE  PandoInv'
<1>1. CASE UNCHANGED pandoVars
    <2>1. PandoTypeOK'
        BY <1>1 DEF PandoInv, PandoTypeOK, pandoVars, blameVars, watchVars
    <2>2. EmissionsOK' /\ WatchOK'
        BY <1>1 DEF PandoInv, EmissionsOK, WatchOK, Busy, pandoVars, watchVars
    <2>3. NotForgotten'
        BY <1>1 DEF PandoInv, NotForgotten, pandoVars, watchVars
    <2> QED BY <2>1, <2>2, <2>3 DEF PandoInv
<1>2. CASE \E t \in PandoTxs : Push(t) \/ PushLocally(t) \/ Seen(t)
    BY <1>2, PushInv, PushLocallyInv, SeenInv
<1>3. CASE \E e \in Emitters : EmissionStep(e)
    BY <1>3, ListNodesInv, AddedInv, SendFailsInv, ConfirmedInv, TimesOutInv, WaitFailsInv
    DEF EmissionStep
<1>4. CASE \E w \in Watchdogs : /\ ProcessWatchdog(w) \/ WatchedIsKnown(w) \/ EmitAgain(w)
                                /\ UNCHANGED pushtxAlive
    BY <1>4, ProcessWatchdogInv, WatchedIsKnownInv, EmitAgainInv
<1>5. CASE \E i \in DOMAIN watchdogTxsList : Age(i) BY <1>5, AgeInv
<1>6. CASE Day BY <1>6, DayInv
<1> QED BY <1>1, <1>2, <1>3, <1>4, <1>5, <1>6 DEF PandoNext

\* What processWatchdog removes by the index it read before it waited is the entry it read:
\* only one call runs, and emissions append.
THEOREM IndexStaysRight == PandoSpec => []PandoInv
<1>1. PandoInit => PandoInv BY PandoInitInv, PandoTxAssumption
<1>2. PandoInv /\ [PandoNext]_pandoVars => PandoInv' BY PandoStep, PandoTxAssumption
<1> QED BY <1>1, <1>2, PTL DEF PandoSpec

\* A transaction whose push was answered by pushtx-processor.ts is known, watched or being
\* emitted again, for any number of nodes and overlapping calls.
THEOREM NothingForgotten == PandoSpec => []NotForgotten
<1>1. PandoInv => NotForgotten BY DEF PandoInv
<1> QED BY <1>1, IndexStaysRight, PTL
=============================================================================
