--------------------------- MODULE TxTrackingProofs ---------------------------
(***************************************************************************)
(* Proofs about the registration of transactions, for any transactions,    *)
(* loops, pushers, blocks, evictions and crashes: the types with the       *)
(* foreign keys of the database, and that a transaction without a rival is *)
(* whole once its block is registered.                                     *)
(***************************************************************************)
EXTENDS TxTracking, FiniteSetTheorems, WellFoundedInduction, TLAPS

-----------------------------------------------------------------------------
(* The invariants *)

\* A task in which a part has still something to do
Working(k) == k.in # "done" \/ k.out # "done" \/ k.store \in {"select", "add"}

\* What a task of t remembers of tables R and O: an id that is not gone names a row, what
\* was read is still there unless it is stale, and a part writes when the row is ensured.
Right(t, k, R, O) ==
    /\ k.id = "row" => t \in R
    /\ k.stale = FALSE => k.reads \subseteq O
    /\ k.reads \subseteq Spends[t]
    /\ \A s \in k.rivals : Conflict(s, t)
    /\ k.store \in {"add", "yes"} => k.id # "null"
    /\ k.in = "write" \/ k.out = "write" => k.store = "yes"

TasksRight == \A j \in Jobs, t \in Txs : Right(t, task[j][t], rows, outputs)

InputsSpend == \A i \in inputs : i[2] \in Spends[i[1]]

\* A block that is at hand has no row yet.
BlockAhead == blk.step \in {"filter", "run"} => height < Len(mined)

TypeInv == TypeOK /\ TasksRight /\ InputsSpend /\ BlockAhead

\* Everything the tracker knows of was announced; what it is going to delete has left
\* bitcoind for good.
Announced ==
    /\ mempool \cup Chain \cup pushes \cup syncing \cup rows \subseteq announced
    /\ Range(buffer) \subseteq announced
    /\ \A w \in Checkers : Range(queue[w]) \subseteq announced
    /\ \A j \in Jobs, t \in Txs : Working(task[j][t]) => t \in announced
    /\ chk.missing \subseteq announced \ Alive

\* The transactions of the start, and their outputs, stay.
StartStays ==
    /\ Genesis \subseteq Chain
    /\ KnownFromStart \subseteq outputs
    /\ \A g \in Genesis : Alone(g)

\* The transactions that need no row, as far as is known from the start
Indifferent(t) == Pays[t] = {} /\ Spends[t] \cap KnownFromStart = {}

CacheRight == \A t \in Txs : cache[t] = "no" => Indifferent(t)

\* The verdict of a check is on its way.
HeadsRight ==
    \A w \in Checkers : queue[w] # <<>> =>
        LET t == Head(queue[w])
            k == task[w][t]
        IN  k.broadcast = FALSE => /\ Pays[t] = {}
                                   /\ k.in # "read" => Spends[t] \cap KnownFromStart = {}

\* The halves of a block's check: what they have done is there, and what they have still
\* to do will be.
HalvesRight(t, k, O, I) ==
    /\ k.id # "gone"
    /\ k.out = "done" => Pays[t] \subseteq O
    /\ k.in \in {"done", "lookup", "delete"} => {t} \X (Spends[t] \cap KnownFromStart) \subseteq I
    /\ k.in \in {"store", "write"} => Spends[t] \cap KnownFromStart \subseteq k.reads

BlockRight ==
    /\ blk.step \in {"filter", "run"} =>
         \A t \in mined[height + 1] : Alone(t) => HalvesRight(t, task[Block][t], outputs, inputs)
    /\ blk.step = "filter" =>
         \A t \in mined[height + 1] : task[Block][t].in = "wait" => t \in blk.seen \cup blk.unseen

\* The transactions that are being processed are those of the block.
BlockOwns ==
    \A t \in Txs : Working(task[Block][t]) \/ task[Block][t].broadcast =>
        /\ blk.step # "off"
        /\ blk.step \in {"filter", "run"} => t \in mined[height + 1]
        /\ blk.step = "confirm" => t \in mined[height]

CompleteInv ==
    /\ TypeInv /\ Announced /\ StartStays /\ CacheRight /\ HeadsRight /\ BlockRight /\ BlockOwns
    /\ AloneIsComplete

-----------------------------------------------------------------------------
(* Transactions and tasks *)

LEMMA CreatorIs ==
    ASSUME NEW t \in Txs, NEW o \in Pays[t]
    PROVE  Creator(o) = t
BY TransactionsAssumption DEF Creator

LEMMA PaysAndSpends ==
    ASSUME NEW t \in Txs
    PROVE  /\ Pays[t] \subseteq Outs /\ Spends[t] \subseteq Outs
           /\ \A o \in Outs : Creator(o) \in Txs /\ o \in Pays[Creator(o)]
<1>1. Pays[t] \subseteq Outs /\ Spends[t] \subseteq Outs
    BY TransactionsAssumption
<1>2. ASSUME NEW o \in Outs PROVE Creator(o) \in Txs /\ o \in Pays[Creator(o)]
    <2>1. PICK s \in Txs : o \in Pays[s]
        BY DEF Outs
    <2>2. QED
        BY <2>1, CreatorIs
<1>3. QED
    BY <1>1, <1>2

LEMMA TaskTypes ==
    /\ NoTask \in Tasks /\ NoTasks \in [Txs -> Tasks]
    /\ \A t \in Txs : Opened(t) \in Tasks /\ [Opened(t) EXCEPT !.in = "wait"] \in Tasks
BY DEF NoTask, NoTasks, Tasks, Opened

LEMMA NewIsRight ==
    ASSUME NEW t \in Txs, NEW R, NEW O
    PROVE  /\ Right(t, NoTask, R, O) /\ Right(t, Opened(t), R, O)
           /\ Right(t, [Opened(t) EXCEPT !.in = "wait"], R, O)
BY DEF Right, NoTask, Opened

\* What a task becomes when its parts may be done
Settled(k) ==
    IF k.in = "done" /\ k.out = "done" THEN [NoTask EXCEPT !.broadcast = k.broadcast] ELSE k

LEMMA SettledRight ==
    ASSUME NEW t \in Txs, NEW k \in Tasks, NEW R, NEW O, Right(t, k, R, O)
    PROVE  Settled(k) \in Tasks /\ Right(t, Settled(k), R, O)
<1>1. CASE k.in = "done" /\ k.out = "done"
    BY <1>1 DEF Settled, NoTask, Tasks, Right
<1>2. CASE ~(k.in = "done" /\ k.out = "done")
    BY <1>2 DEF Settled
<1>3. QED
    BY <1>1, <1>2

LEMMA AtIs ==
    ASSUME NEW j \in Jobs, NEW t \in Txs, NEW k \in Tasks, task \in [Jobs -> [Txs -> Tasks]]
    PROVE  /\ At(j, t, k) \in [Jobs -> [Txs -> Tasks]]
           /\ At(j, t, k)[j][t] = Settled(k)
           /\ \A i \in Jobs, s \in Txs : i # j \/ s # t => At(j, t, k)[i][s] = task[i][s]
<1>1. Settled(k) \in Tasks
    BY DEF Settled, NoTask, Tasks
<1>2. At(j, t, k) = [task EXCEPT ![j][t] = Settled(k)]
    BY DEF At, Settled
<1>3. QED
    BY <1>1, <1>2

\* Tables that grow leave every task right.
LEMMA RightGrows ==
    ASSUME NEW t \in Txs, NEW k \in Tasks, NEW R, NEW O, NEW R2, NEW O2,
           Right(t, k, R, O), R \subseteq R2, O \subseteq O2
    PROVE  Right(t, k, R2, O2)
BY DEF Right

\* One task changes, and the tables grow.
LEMMA OneTask ==
    ASSUME TypeOK, TasksRight, NEW j \in Jobs, NEW t \in Txs, NEW k \in Tasks,
           rows \subseteq rows', outputs \subseteq outputs', Right(t, k, rows', outputs'),
           task' = At(j, t, k)
    PROVE  task' \in [Jobs -> [Txs -> Tasks]] /\ TasksRight'
<1>1. task \in [Jobs -> [Txs -> Tasks]]
    BY DEF TypeOK
<1>2. /\ task' \in [Jobs -> [Txs -> Tasks]]
      /\ task'[j][t] = Settled(k)
      /\ \A i \in Jobs, s \in Txs : i # j \/ s # t => task'[i][s] = task[i][s]
    BY <1>1, AtIs
<1>3. ASSUME NEW i \in Jobs, NEW s \in Txs PROVE Right(s, task'[i][s], rows', outputs')
    <2>1. CASE i = j /\ s = t
        <3>1. task'[i][s] = Settled(k)
            BY <1>2, <2>1
        <3>2. QED
            BY <2>1, <3>1, SettledRight
    <2>2. CASE i # j \/ s # t
        <3>1. task'[i][s] = task[i][s]
            BY <1>2, <2>2
        <3>4. task[i][s] \in Tasks
            BY <1>1
        <3>2. Right(s, task[i][s], rows, outputs)
            BY DEF TasksRight
        <3>3. QED
            BY <3>1, <3>2, <3>4, RightGrows
    <2>3. QED
        BY <2>1, <2>2
<1>4. TasksRight'
    BY <1>3 DEF TasksRight, Right
<1>5. QED
    BY <1>2, <1>4

\* The rows that are deleted take with them what names them.
LEMMA DeletedRight ==
    ASSUME NEW ts \in SUBSET Txs, NEW T \in [Jobs -> [Txs -> Tasks]], NEW R, NEW O,
           \A j \in Jobs, t \in Txs : Right(t, T[j][t], R, O)
    PROVE  /\ Purged(T, ts) \in [Jobs -> [Txs -> Tasks]]
           /\ \A j \in Jobs, t \in Txs :
                Right(t, Purged(T, ts)[j][t], R \ ts, O \ UNION {Pays[s] : s \in ts})
<1> DEFINE New(j, t) ==
        [T[j][t] EXCEPT !.id = IF t \in ts /\ @ = "row" THEN "gone" ELSE @,
                        !.stale = @ \/ \E o \in T[j][t].reads : Creator(o) \in ts,
                        !.rivals = @ \ ts]
<1>1. Purged(T, ts) = [j \in Jobs |-> [t \in Txs |-> New(j, t)]]
    BY DEF Purged
<1>2. ASSUME NEW j \in Jobs, NEW t \in Txs
      PROVE  /\ New(j, t) \in Tasks
             /\ Right(t, New(j, t), R \ ts, O \ UNION {Pays[s] : s \in ts})
    <2> DEFINE k == T[j][t]
               lost == \E o \in k.reads : Creator(o) \in ts
    <2>1. k \in Tasks /\ Right(t, k, R, O)
        OBVIOUS
    <2>2. lost \in BOOLEAN /\ k.stale \in BOOLEAN
        BY <2>1 DEF Tasks
    <2>3. New(j, t) \in Tasks
        <3>1. (k.stale \/ lost) \in BOOLEAN
            BY <2>2, Zenon
        <3>2. (IF t \in ts /\ k.id = "row" THEN "gone" ELSE k.id) \in {"null", "row", "gone"}
            BY <2>1 DEF Tasks
        <3>3. k.rivals \ ts \in SUBSET Txs
            BY <2>1 DEF Tasks
        <3> HIDE DEF lost
        <3>4. New(j, t) = [k EXCEPT !.id = IF t \in ts /\ k.id = "row" THEN "gone" ELSE k.id,
                                    !.stale = k.stale \/ lost, !.rivals = k.rivals \ ts]
            BY DEF lost
        <3> HIDE DEF k, New
        <3>5. QED
            BY <2>1, <3>1, <3>2, <3>3, <3>4 DEF Tasks
    <2>4. /\ New(j, t).id = (IF t \in ts /\ k.id = "row" THEN "gone" ELSE k.id)
          /\ New(j, t).reads = k.reads /\ New(j, t).rivals = k.rivals \ ts
          /\ New(j, t).store = k.store /\ New(j, t).in = k.in /\ New(j, t).out = k.out
        BY <2>1 DEF Tasks
    <2>5. New(j, t).stale = FALSE => k.stale = FALSE /\ ~lost
        BY <2>1, <2>2 DEF Tasks
    <2>6. ASSUME New(j, t).stale = FALSE
          PROVE  k.reads \subseteq O \ UNION {Pays[s] : s \in ts}
        <3>1. k.reads \subseteq O /\ \A o \in k.reads : Creator(o) \notin ts
            BY <2>1, <2>5, <2>6 DEF Right
        <3>2. ASSUME NEW o \in k.reads, NEW s \in ts PROVE o \notin Pays[s]
            BY <3>1, CreatorIs
        <3>3. QED
            BY <3>1, <3>2
    <2> HIDE DEF New
    <2>7. QED
        BY <2>1, <2>3, <2>4, <2>6 DEF Right
<1> HIDE DEF New
<1>3. Purged(T, ts) \in [Jobs -> [Txs -> Tasks]]
    <2>1. \A j \in Jobs : [t \in Txs |-> New(j, t)] \in [Txs -> Tasks]
        BY <1>2
    <2>2. QED
        BY <1>1, <2>1
<1>4. ASSUME NEW j \in Jobs, NEW t \in Txs
      PROVE  Right(t, Purged(T, ts)[j][t], R \ ts, O \ UNION {Pays[s] : s \in ts})
    <2>1. Purged(T, ts)[j][t] = New(j, t)
        BY <1>1
    <2>2. QED
        BY <1>2, <2>1
<1>5. QED
    BY <1>3, <1>4

\* A deletion keeps the types, the foreign keys and the tasks right.
LEMMA DeletionRight ==
    ASSUME TypeOK, InputsSpend, NEW ts \in SUBSET Txs, NEW T \in [Jobs -> [Txs -> Tasks]],
           \A j \in Jobs, t \in Txs : Right(t, T[j][t], rows, outputs),
           DeleteTransactions(ts, T)
    PROVE  /\ rows' \subseteq rows /\ confirmed' \subseteq rows' /\ height' = height
           /\ outputs' \subseteq UNION {Pays[t] : t \in rows'} /\ inputs' \subseteq rows' \X outputs'
           /\ task' \in [Jobs -> [Txs -> Tasks]] /\ TasksRight' /\ InputsSpend'
<1>1. /\ rows' = rows \ ts /\ confirmed' = confirmed \ ts /\ height' = height
      /\ outputs' = outputs \ UNION {Pays[t] : t \in ts}
      /\ inputs' = {i \in inputs : i[1] \notin ts /\ Creator(i[2]) \notin ts}
      /\ task' = Purged(T, ts)
    BY DEF DeleteTransactions
<1>2. /\ rows \subseteq Txs /\ confirmed \subseteq rows
      /\ outputs \subseteq UNION {Pays[t] : t \in rows} /\ inputs \subseteq rows \X outputs
    BY DEF TypeOK
<1>3. outputs' \subseteq UNION {Pays[t] : t \in rows'}
    BY <1>1, <1>2
<1>4. inputs' \subseteq rows' \X outputs'
    <2>1. ASSUME NEW i \in inputs, i[1] \notin ts, Creator(i[2]) \notin ts
          PROVE  i \in rows' \X outputs'
        <3>1. PICK s \in rows, o \in outputs : i = <<s, o>>
            BY <1>2
        <3>2. ASSUME NEW u \in ts PROVE o \notin Pays[u]
            BY <2>1, <3>1, <3>2, CreatorIs
        <3>3. QED
            BY <1>1, <2>1, <3>1, <3>2
    <2>2. QED
        BY <1>1, <2>1
<1>5. task' \in [Jobs -> [Txs -> Tasks]]
    BY <1>1, DeletedRight
<1>6. \A j \in Jobs, t \in Txs : Right(t, task'[j][t], rows', outputs')
    BY <1>1, DeletedRight
<1>7. TasksRight' /\ InputsSpend'
    BY <1>1, <1>6 DEF TasksRight, Right, InputsSpend
<1>8. QED
    BY <1>1, <1>2, <1>3, <1>4, <1>5, <1>7

-----------------------------------------------------------------------------
(* Types and foreign keys *)

\* The types of what is kept in memory and of the node, and of the database
MemoryOK ==
    /\ pushes \subseteq Pushed /\ buffer \in Seq(Txs)
    /\ mode \in {"catchup", "started", "active", "synced"} /\ syncing \subseteq Txs
    /\ cache \in [Txs -> {"unknown", "yes", "no"}]
    /\ queue \in [Checkers -> Seq(Txs)]
    /\ blk \in [step : {"off", "filter", "run", "confirm"},
                seen : SUBSET Txs, unseen : SUBSET Txs]
    /\ chk \in [missing : SUBSET Txs, found : SUBSET Txs]

NodeOK ==
    /\ mempool \subseteq Txs /\ mined \in Seq(SUBSET Txs) /\ announced \subseteq Txs
    /\ evictions \in 0 .. MaxEvictions /\ crashes \in 0 .. MaxCrashes

DbOK ==
    /\ rows \subseteq Txs /\ confirmed \subseteq rows
    /\ outputs \subseteq UNION {Pays[t] : t \in rows} /\ inputs \subseteq rows \X outputs
    /\ InputsSpend

HeightOK == height \in 1 .. Len(mined) /\ BlockAhead

TaskOK == task \in [Jobs -> [Txs -> Tasks]] /\ TasksRight

LEMMA TypeParts == TypeInv <=> MemoryOK /\ NodeOK /\ DbOK /\ HeightOK /\ TaskOK
BY DEF TypeInv, TypeOK, MemoryOK, NodeOK, DbOK, HeightOK, TaskOK

LEMMA PartsNext == MemoryOK' /\ NodeOK' /\ DbOK' /\ HeightOK' /\ TaskOK' => TypeInv'
BY DEF TypeInv, TypeOK, MemoryOK, NodeOK, DbOK, HeightOK, TaskOK

LEMMA DeathRight ==
    ASSUME TypeInv, Dies
    PROVE  /\ MemoryOK' /\ task' = [j \in Jobs |-> NoTasks]
           /\ TaskOK' /\ BlockAhead'
<1>1. MemoryOK' /\ blk'.step = "off"
    BY DEF Dies, MemoryOK, BlkOff, ChkOff
<1>2. task' = [j \in Jobs |-> NoTasks]
    BY DEF Dies
<1>3. task' \in [Jobs -> [Txs -> Tasks]] /\ \A j \in Jobs, t \in Txs : task'[j][t] = NoTask
    BY <1>2, TaskTypes DEF NoTasks
<1>4. \A j \in Jobs, t \in Txs : Right(t, task'[j][t], rows', outputs')
    BY <1>3, NewIsRight
<1>5. TaskOK'
    BY <1>3, <1>4 DEF TaskOK, TasksRight, Right
<1>6. BlockAhead'
    BY <1>1 DEF BlockAhead
<1>7. QED
    BY <1>1, <1>2, <1>5, <1>6

LEMMA SameDb == DbOK /\ UNCHANGED <<rows, confirmed, outputs, inputs>> => DbOK'
BY DEF DbOK, InputsSpend

LEMMA SameTasks == TaskOK /\ UNCHANGED <<rows, outputs, task>> => TaskOK'
BY DEF TaskOK, TasksRight, Right

LEMMA SameHeight ==
    HeightOK /\ blk'.step \in {blk.step, "off", "confirm"} /\ UNCHANGED <<height, mined>> => HeightOK'
BY DEF HeightOK, BlockAhead

LEMMA FiniteTxs == IsFiniteSet(Txs)
<1>1. Order \in Seq(Txs)
    BY TransactionsAssumption DEF Txs
<1>2. Len(Order) \in Nat /\ DOMAIN Order = 1 .. Len(Order) /\ Order \in [1 .. Len(Order) -> Txs]
    BY <1>1
<1>3. \A t \in Txs : \E i \in 1 .. Len(Order) : Order[i] = t
    BY <1>2 DEF Txs, Range
<1>4. Order \in Surjection(1 .. Len(Order), Txs)
    BY <1>2, <1>3 DEF Surjection
<1>5. IsFiniteSet(1 .. Len(Order))
    BY <1>2, FS_Interval
<1>6. QED
    BY <1>4, <1>5, FS_Surjection

LEMMA OrdersOfBlock ==
    ASSUME NEW ts \in SUBSET Txs, NEW txs \in BlockOrders(ts)
    PROVE  txs \in Seq(Txs) /\ Range(txs) \subseteq ts
<1>1. IsFiniteSet(ts)
    BY FiniteTxs, FS_Subset
<1>2. Cardinality(ts) \in Nat
    BY <1>1, FS_CardinalityType
<1>3. txs \in [1 .. Cardinality(ts) -> ts]
    BY DEF BlockOrders
<1>4. QED
    BY <1>2, <1>3 DEF Range

\* bitcoind and pushtx act.
LEMMA NodeStep ==
    ASSUME TypeInv, \/ \E t \in Txs : Accept(t) \/ Evict(t) \/ LosePush(t)
                    \/ \E ts \in SUBSET Txs : Mine(ts)
    PROVE  TypeInv'
<1>1. MemoryOK /\ NodeOK /\ DbOK /\ HeightOK /\ TaskOK
    BY TypeParts
<1>2. ASSUME NEW t \in Txs, Accept(t)
      PROVE  MemoryOK' /\ NodeOK' /\ UNCHANGED <<db, task, blk, mined>>
    <2>1. /\ mempool' = (mempool \ Displaced({t})) \cup {t} /\ announced' = announced \cup {t}
          /\ buffer' = Received(<<t>>) /\ pushes' = pushes \cup ({t} \cap Pushed)
          /\ UNCHANGED <<mined, evictions, db, mode, syncing, cache, queue, task, blk, chk, crashes>>
        BY <1>2 DEF Accept
    <2>2. Received(<<t>>) \in Seq(Txs)
        BY <1>1 DEF MemoryOK, Received
    <2>3. MemoryOK'
        BY <1>1, <2>1, <2>2 DEF MemoryOK
    <2>4. NodeOK'
        BY <1>1, <2>1 DEF NodeOK
    <2>5. QED
        BY <2>1, <2>3, <2>4
<1>3. ASSUME NEW t \in Txs, Evict(t) \/ LosePush(t)
      PROVE  MemoryOK' /\ NodeOK' /\ UNCHANGED <<db, task, blk, mined>>
    <2>1. CASE Evict(t)
        <3>1. NodeOK'
            BY <1>1, <2>1, TransactionsAssumption DEF NodeOK, Evict
        <3>2. MemoryOK' /\ UNCHANGED <<db, task, blk, mined>>
            BY <1>1, <2>1 DEF MemoryOK, Evict
        <3>3. QED
            BY <3>1, <3>2
    <2>2. CASE LosePush(t)
        BY <1>1, <2>2 DEF NodeOK, MemoryOK, LosePush, node
    <2>3. QED
        BY <1>3, <2>1, <2>2
<1>4. ASSUME NEW ts \in SUBSET Txs, Mine(ts)
      PROVE  /\ MemoryOK' /\ NodeOK' /\ UNCHANGED <<db, task, blk>>
             /\ Len(mined') = Len(mined) + 1
    <2>1. /\ mined' = Append(mined, ts) /\ announced' = announced \cup ts
          /\ mempool' = mempool \ (ts \cup Displaced(ts))
          /\ UNCHANGED <<evictions, pushes, db, mode, syncing, cache, queue, task, blk, chk, crashes>>
        BY <1>4 DEF Mine
    <2>2. buffer' \in Seq(Txs)
        <3>1. PICK txs \in BlockOrders(ts) : buffer' = Received(txs)
            BY <1>4 DEF Mine
        <3>2. txs \in Seq(Txs)
            BY OrdersOfBlock
        <3>3. QED
            BY <1>1, <3>1, <3>2 DEF MemoryOK, Received
    <2>3. MemoryOK'
        BY <1>1, <2>1, <2>2 DEF MemoryOK
    <2>4. NodeOK' /\ Len(mined') = Len(mined) + 1
        BY <1>1, <2>1 DEF NodeOK
    <2>5. QED
        BY <2>1, <2>3, <2>4
<1>5. MemoryOK' /\ NodeOK' /\ UNCHANGED <<db, task, blk>> /\ HeightOK'
    <2>1. CASE UNCHANGED <<db, mined, blk>> /\ MemoryOK' /\ NodeOK' /\ UNCHANGED task
        BY <1>1, <2>1, SameHeight DEF db
    <2>2. CASE Len(mined') = Len(mined) + 1 /\ UNCHANGED <<db, blk, task>> /\ MemoryOK' /\ NodeOK'
        BY <1>1, <2>2 DEF HeightOK, BlockAhead, NodeOK, db
    <2>3. QED
        BY <1>2, <1>3, <1>4, <2>1, <2>2
<1>6. QED
    BY <1>1, <1>5, SameDb, SameTasks, PartsNext DEF db

\* The process stops, the mempool processor starts.
LEMMA ProcessStep ==
    ASSUME TypeInv, Crash \/ MempoolStep
    PROVE  TypeInv'
<1>1. MemoryOK /\ NodeOK /\ DbOK /\ HeightOK /\ TaskOK
    BY TypeParts
<1>2. CASE Crash
    <2>1. Dies /\ UNCHANGED <<node, db>> /\ crashes < MaxCrashes /\ crashes' = crashes + 1
        BY <1>2 DEF Crash
    <2>2. MemoryOK' /\ TaskOK' /\ BlockAhead'
        BY <2>1, DeathRight
    <2>3. NodeOK' /\ DbOK' /\ HeightOK'
        BY <1>1, <2>1, <2>2, SameDb, TransactionsAssumption DEF NodeOK, HeightOK, node, db
    <2>4. QED
        BY <2>2, <2>3, PartsNext
<1>3. CASE MempoolStep
    <2>1. UNCHANGED <<node, db, task, blk, crashes>>
        BY <1>3 DEF MempoolStep, StartMempool, Activate, SyncMempool, SyncTx
    <2>2. MemoryOK'
        <3>1. CASE StartMempool \/ Activate \/ SyncMempool
            BY <1>1, <3>1 DEF MemoryOK, NodeOK, StartMempool, Activate, SyncMempool
        <3>2. ASSUME NEW t \in Txs, SyncTx(t) PROVE MemoryOK'
            BY <1>1, <3>2 DEF MemoryOK, SyncTx
        <3>3. QED
            BY <1>3, <3>1, <3>2 DEF MempoolStep
    <2>3. NodeOK' /\ HeightOK'
        BY <1>1, <2>1, SameHeight DEF NodeOK, node, db
    <2>4. QED
        BY <1>1, <2>1, <2>2, <2>3, SameDb, SameTasks, PartsNext DEF db
<1>4. QED
    BY <1>2, <1>3

LEMMA DeathStep ==
    ASSUME TypeInv, Dies, UNCHANGED <<node, db, crashes>>
    PROVE  TypeInv'
<1>1. MemoryOK /\ NodeOK /\ DbOK /\ HeightOK /\ TaskOK
    BY TypeParts
<1>2. MemoryOK' /\ TaskOK' /\ BlockAhead'
    BY DeathRight
<1>3. NodeOK' /\ DbOK' /\ HeightOK'
    BY <1>1, <1>2, SameDb DEF NodeOK, HeightOK, node, db
<1>4. QED
    BY <1>2, <1>3, PartsNext

LEMMA DeletionStep ==
    ASSUME TypeInv, NEW ts \in SUBSET Txs, NEW T \in [Jobs -> [Txs -> Tasks]],
           \A j \in Jobs, t \in Txs : Right(t, T[j][t], rows, outputs),
           DeleteTransactions(ts, T), chk' \in [missing : SUBSET Txs, found : SUBSET Txs],
           UNCHANGED <<node, pushes, buffer, mode, syncing, cache, queue, blk, crashes>>
    PROVE  TypeInv'
<1>1. MemoryOK /\ NodeOK /\ DbOK /\ HeightOK /\ TypeOK /\ InputsSpend
    BY TypeParts DEF TypeInv
<1>2. /\ rows' \subseteq rows /\ confirmed' \subseteq rows' /\ height' = height
      /\ outputs' \subseteq UNION {Pays[t] : t \in rows'} /\ inputs' \subseteq rows' \X outputs'
      /\ task' \in [Jobs -> [Txs -> Tasks]] /\ TasksRight' /\ InputsSpend'
    BY <1>1, DeletionRight
<1>3. DbOK' /\ TaskOK'
    BY <1>1, <1>2 DEF DbOK, TaskOK
<1>4. MemoryOK' /\ NodeOK' /\ HeightOK'
    BY <1>1, <1>2, SameHeight DEF MemoryOK, NodeOK, node
<1>5. QED
    BY <1>3, <1>4, PartsNext

\* The facts of the task at hand that the steps of a check rest on
LEMMA TaskFacts ==
    ASSUME TypeInv, NEW j \in Jobs, NEW t \in Txs
    PROVE  /\ task \in [Jobs -> [Txs -> Tasks]] /\ task[j][t] \in Tasks
           /\ Right(t, task[j][t], rows, outputs)
           /\ TypeOK /\ TasksRight /\ InputsSpend
BY DEF TypeInv, TypeOK, TasksRight

\* A step of a check that changes its own task and adds rows
LEMMA TaskStep ==
    ASSUME TypeInv, NEW j \in Jobs, NEW t \in Txs, NEW k \in Tasks,
           UNCHANGED <<node, pushes, buffer, confirmed, height, mode, syncing, queue, blk, chk, crashes>>,
           cache' \in [Txs -> {"unknown", "yes", "no"}],
           rows' \in {rows, rows \cup {t}}, outputs' \in {outputs, outputs \cup Pays[t]},
           outputs' # outputs => t \in rows',
           inputs' = inputs
             \/ \E reads : /\ inputs' = inputs \cup ({t} \X reads) /\ t \in rows'
                           /\ reads \subseteq outputs' /\ reads \subseteq Spends[t],
           Right(t, k, rows', outputs'),
           task' = At(j, t, k)
    PROVE  TypeInv'
<1>1. MemoryOK /\ NodeOK /\ DbOK /\ HeightOK /\ TaskOK /\ TypeOK /\ TasksRight
    BY TypeParts DEF TypeInv
<1>2. rows \subseteq rows' /\ outputs \subseteq outputs'
    OBVIOUS
<1>3. TaskOK'
    BY <1>1, <1>2, OneTask DEF TaskOK
<1>4. MemoryOK' /\ NodeOK' /\ HeightOK'
    BY <1>1, SameHeight DEF MemoryOK, NodeOK, node
<1>5. DbOK'
    <2>1. rows' \subseteq Txs /\ confirmed' \subseteq rows'
        BY <1>1 DEF DbOK
    <2>2. outputs' \subseteq UNION {Pays[s] : s \in rows'}
        <3>1. ASSUME NEW o \in outputs' PROVE \E s \in rows' : o \in Pays[s]
            BY <1>1, <1>2 DEF DbOK
        <3>2. QED
            BY <3>1
    <2>3. inputs' \subseteq rows' \X outputs' /\ InputsSpend'
        BY <1>1, <1>2 DEF DbOK, InputsSpend
    <2>4. QED
        BY <2>1, <2>2, <2>3 DEF DbOK
<1>6. QED
    BY <1>3, <1>4, <1>5, PartsNext

LEMMA ReadStep ==
    ASSUME TypeInv, NEW j \in Jobs, NEW t \in Txs, ReadSpends(j, t)
    PROVE  TypeInv'
<1> DEFINE k == task[j][t]
           known == Spends[t] \cap outputs
           rivals == {s \in rows \ {t} : \E o \in known : <<s, o>> \in inputs}
           new == IF known = {} THEN [k EXCEPT !.in = "done"]
                  ELSE [k EXCEPT !.in = AfterRead(k), !.reads = known, !.rivals = rivals,
                                 !.broadcast = TRUE]
<1>1. /\ k.in = "read" /\ task' = At(j, t, new)
      /\ UNCHANGED <<node, pushes, buffer, db, mode, syncing, cache, queue, blk, chk, crashes>>
    BY DEF ReadSpends
<1>2. /\ k \in Tasks /\ Right(t, k, rows, outputs) /\ TypeOK /\ InputsSpend
      /\ rows \subseteq Txs /\ known \subseteq Outs
    BY TaskFacts, PaysAndSpends DEF TypeOK
<1>3. \A s \in rivals : s \in Txs /\ Conflict(s, t)
    <2>1. ASSUME NEW s \in rows \ {t}, NEW o \in known, <<s, o>> \in inputs
          PROVE  s \in Txs /\ Conflict(s, t)
        <3>1. o \in Spends[s]
            BY <1>2, <2>1 DEF InputsSpend
        <3>2. QED
            BY <1>2, <2>1, <3>1 DEF Conflict
    <2>2. QED
        BY <2>1
<1>4. new \in Tasks /\ Right(t, new, rows, outputs)
    <2>1. CASE known = {}
        BY <1>2, <2>1 DEF Tasks, Right
    <2>2. CASE known # {}
        <3>1. AfterRead(k) \in {"write", "store"} /\ (AfterRead(k) = "write" => k.store = "yes")
            BY DEF AfterRead
        <3>2. rivals \in SUBSET Txs /\ known \in SUBSET Outs /\ known \subseteq Spends[t]
            BY <1>2, <1>3
        <3>3. new = [k EXCEPT !.in = AfterRead(k), !.reads = known, !.rivals = rivals,
                              !.broadcast = TRUE]
            BY <2>2
        <3> HIDE DEF new, rivals, k
        <3>4. new \in Tasks
            BY <1>2, <3>1, <3>2, <3>3 DEF Tasks
        <3>5. Right(t, new, rows, outputs)
            BY <1>2, <1>3, <3>1, <3>2, <3>3 DEF Tasks, Right
        <3>6. QED
            BY <3>4, <3>5
    <2>3. QED
        BY <2>1, <2>2
<1> HIDE DEF new, k
<1>5. QED
    BY <1>1, <1>2, <1>4, TaskStep DEF db, TypeOK

\* The row is ensured.
LEMMA RowStep ==
    ASSUME TypeInv, NEW j \in Jobs, NEW t \in Txs,
           InsertTransaction(j, t) \/ SelectTransaction(j, t) \/ AddTransaction(j, t)
    PROVE  TypeInv'
<1> DEFINE k == task[j][t]
<1>1. /\ k \in Tasks /\ Right(t, k, rows, outputs) /\ TypeOK
      /\ cache \in [Txs -> {"unknown", "yes", "no"}]
    BY TaskFacts DEF TypeOK
<1>2. CASE InsertTransaction(j, t)
    <2> DEFINE new == IF t \in rows THEN [k EXCEPT !.store = "select"]
                      ELSE [k EXCEPT !.store = "add", !.id = "row"]
    <2>1. /\ k.store = "no" /\ rows' = rows \cup {t} /\ task' = At(j, t, new)
          /\ UNCHANGED <<node, pushes, buffer, confirmed, outputs, inputs, height, mode,
                         syncing, cache, queue, blk, chk, crashes>>
        BY <1>2 DEF InsertTransaction
    <2>2. new \in Tasks /\ Right(t, new, rows', outputs')
        <3>1. CASE t \in rows
            BY <1>1, <2>1, <3>1 DEF Tasks, Right
        <3>2. CASE t \notin rows
            BY <1>1, <2>1, <3>2 DEF Tasks, Right
        <3>3. QED
            BY <3>1, <3>2
    <2> HIDE DEF new
    <2>3. QED
        BY <1>1, <2>1, <2>2, TaskStep
<1>3. CASE AddTransaction(j, t)
    <2>1. /\ k.store = "add" /\ rows' = rows \cup {t} /\ task' = At(j, t, Stored(k))
          /\ UNCHANGED <<node, pushes, buffer, confirmed, outputs, inputs, height, mode,
                         syncing, cache, queue, blk, chk, crashes>>
        BY <1>3 DEF AddTransaction
    <2>2. Stored(k) \in Tasks /\ Right(t, Stored(k), rows', outputs')
        BY <1>1, <2>1 DEF Tasks, Right, Stored
    <2>3. QED
        BY <1>1, <2>1, <2>2, TaskStep
<1>4. CASE SelectTransaction(j, t)
    <2>1. k.store = "select" /\ UNCHANGED <<node, db, crashes>>
        BY <1>4 DEF SelectTransaction
    <2>2. CASE t \in rows
        <3> DEFINE new == [k EXCEPT !.store = "add", !.id = "row"]
        <3>1. /\ task' = At(j, t, new)
              /\ UNCHANGED <<pushes, buffer, mode, syncing, cache, queue, blk, chk>>
            BY <1>4, <2>2 DEF SelectTransaction
        <3>2. new \in Tasks /\ Right(t, new, rows', outputs')
            BY <1>1, <2>1, <2>2 DEF Tasks, Right, db
        <3> HIDE DEF new
        <3>3. QED
            BY <1>1, <2>1, <3>1, <3>2, TaskStep DEF db
    <2>3. CASE t \notin rows
        <3>1. Dies
            BY <1>4, <2>3 DEF SelectTransaction
        <3>2. QED
            BY <2>1, <3>1, DeathStep
    <2>4. QED
        BY <2>2, <2>3
<1>5. QED
    BY <1>2, <1>3, <1>4

LEMMA InputsStep ==
    ASSUME TypeInv, NEW j \in Jobs, NEW t \in Txs, AddInputs(j, t)
    PROVE  TypeInv'
<1> DEFINE k == task[j][t]
           new == [k EXCEPT !.reads = {}, !.in = IF k.rivals = {} THEN "done" ELSE "lookup"]
<1>1. /\ k \in Tasks /\ Right(t, k, rows, outputs) /\ TypeOK
      /\ cache \in [Txs -> {"unknown", "yes", "no"}]
    BY TaskFacts DEF TypeOK
<1>2. k.in = "write" /\ UNCHANGED <<node, rows, confirmed, outputs, height, crashes>>
    BY DEF AddInputs
<1>3. CASE k.id = "row" /\ k.stale = FALSE
    <2>1. /\ inputs' = inputs \cup ({t} \X k.reads) /\ task' = At(j, t, new)
          /\ UNCHANGED <<pushes, buffer, mode, syncing, cache, queue, blk, chk>>
        BY <1>3 DEF AddInputs
    <2>2. t \in rows /\ k.reads \subseteq outputs /\ k.reads \subseteq Spends[t]
        BY <1>1, <1>3 DEF Right
    <2>3. new \in Tasks /\ Right(t, new, rows', outputs')
        <3>1. {} \in SUBSET Outs /\ (IF k.rivals = {} THEN "done" ELSE "lookup") \in {"done", "lookup"}
            OBVIOUS
        <3>2. new \in Tasks
            BY <1>1, <3>1 DEF Tasks
        <3>3. QED
            BY <1>1, <1>2, <3>2 DEF Right, Tasks
    <2> HIDE DEF new, k
    <2>4. QED
        BY <1>1, <1>2, <2>1, <2>2, <2>3, TaskStep
<1>4. CASE ~(k.id = "row" /\ k.stale = FALSE)
    <2>1. ~(k.id = "row" /\ ~k.stale)
        BY <1>1, <1>4 DEF Tasks
    <2>2. Dies /\ UNCHANGED inputs
        BY <2>1 DEF AddInputs
    <2>3. QED
        BY <1>2, <2>2, DeathStep DEF db
<1>5. QED
    BY <1>3, <1>4

\* The double spends are deleted; the outputs are written.
LEMMA RivalsStep ==
    ASSUME TypeInv, NEW j \in Jobs, NEW t \in Txs, ForgetRivals(j, t) \/ DeleteRivals(j, t)
    PROVE  TypeInv'
<1> DEFINE k == task[j][t]
<1>1. /\ k \in Tasks /\ Right(t, k, rows, outputs) /\ TypeOK /\ InputsSpend
      /\ cache \in [Txs -> {"unknown", "yes", "no"}] /\ task \in [Jobs -> [Txs -> Tasks]]
    BY TaskFacts DEF TypeOK
<1>2. CASE ForgetRivals(j, t)
    <2> DEFINE new == [k EXCEPT !.in = "delete"]
    <2>1. /\ k.in = "lookup" /\ task' = At(j, t, new)
          /\ cache' = [s \in Txs |-> IF s \in k.rivals THEN "unknown" ELSE cache[s]]
          /\ UNCHANGED <<node, pushes, buffer, db, mode, syncing, queue, blk, chk, crashes>>
        BY <1>2 DEF ForgetRivals
    <2>2. new \in Tasks /\ Right(t, new, rows', outputs')
        BY <1>1, <2>1 DEF Tasks, Right, db
    <2>3. cache' \in [Txs -> {"unknown", "yes", "no"}]
        BY <1>1, <2>1
    <2> HIDE DEF new
    <2>4. QED
        BY <2>1, <2>2, <2>3, TaskStep DEF db
<1>3. CASE DeleteRivals(j, t)
    <2> DEFINE new == [k EXCEPT !.in = "done"]
               T == At(j, t, new)
    <2>1. /\ DeleteTransactions(k.rivals, T)
          /\ UNCHANGED <<node, pushes, buffer, mode, syncing, cache, queue, blk, chk, crashes>>
        BY <1>3 DEF DeleteRivals
    <2>2. new \in Tasks /\ Right(t, new, rows, outputs) /\ k.rivals \in SUBSET Txs
        BY <1>1 DEF Tasks, Right
    <2>3. T \in [Jobs -> [Txs -> Tasks]] /\ \A i \in Jobs, s \in Txs : Right(s, T[i][s], rows, outputs)
        <3> HIDE DEF new
        <3>1. /\ T \in [Jobs -> [Txs -> Tasks]] /\ T[j][t] = Settled(new)
              /\ \A i \in Jobs, s \in Txs : i # j \/ s # t => T[i][s] = task[i][s]
            BY <1>1, <2>2, AtIs
        <3>2. Right(t, Settled(new), rows, outputs)
            BY <2>2, SettledRight
        <3>3. \A i \in Jobs, s \in Txs : Right(s, task[i][s], rows, outputs)
            BY TaskFacts
        <3> HIDE DEF T
        <3>4. ASSUME NEW i \in Jobs, NEW s \in Txs PROVE Right(s, T[i][s], rows, outputs)
            <4>1. CASE i = j /\ s = t
                BY <3>1, <3>2, <4>1
            <4>2. CASE i # j \/ s # t
                BY <3>1, <3>3, <4>2
            <4>3. QED
                BY <4>1, <4>2
        <3>5. QED
            BY <3>1, <3>4
    <2>4. QED
        <3> HIDE DEF T
        <3>1. chk' \in [missing : SUBSET Txs, found : SUBSET Txs]
            BY <1>1, <2>1 DEF TypeOK
        <3>2. QED
            BY <2>1, <2>2, <2>3, <3>1, DeletionStep
<1>4. QED
    BY <1>2, <1>3

LEMMA OutputsStep ==
    ASSUME TypeInv, NEW j \in Jobs, NEW t \in Txs, AddOutputs(j, t)
    PROVE  TypeInv'
<1> DEFINE k == task[j][t]
           new == [k EXCEPT !.out = "done"]
<1>1. /\ k \in Tasks /\ Right(t, k, rows, outputs) /\ cache \in [Txs -> {"unknown", "yes", "no"}]
    BY TaskFacts DEF TypeOK
<1>2. /\ k.out = "write" /\ outputs' = outputs \cup NewOutputs(t, k.id) /\ task' = At(j, t, new)
      /\ UNCHANGED <<node, pushes, buffer, rows, confirmed, inputs, height, mode,
                     syncing, cache, queue, blk, chk, crashes>>
    BY DEF AddOutputs
<1>3. outputs' \in {outputs, outputs \cup Pays[t]} /\ (outputs' # outputs => t \in rows')
    BY <1>1, <1>2 DEF NewOutputs, Right
<1>4. new \in Tasks /\ Right(t, new, rows', outputs')
    BY <1>1, <1>2, <1>3 DEF Tasks, Right
<1> HIDE DEF new
<1>5. QED
    BY <1>1, <1>2, <1>3, <1>4, TaskStep

LEMMA CheckSteps ==
    ASSUME TypeInv, NEW j \in Jobs, NEW t \in Txs, CheckStep(j, t)
    PROVE  TypeInv'
BY ReadStep, RowStep, InputsStep, RivalsStep, OutputsStep DEF CheckStep

-----------------------------------------------------------------------------
(* Loops and pushers *)

LEMMA LeastOf ==
    ASSUME NEW S \in SUBSET Nat, S # {}
    PROVE  \E x \in S : \A y \in S : x <= y
<1>1. IsWellFoundedOn(OpToRel(<, Nat), Nat)
    BY NatLessThanWellFounded
<1>2. PICK x \in S : \A y \in S : ~(<<y, x>> \in OpToRel(<, Nat))
    BY <1>1, WFMin
<1>3. \A y \in S : ~(y < x)
    BY <1>2 DEF OpToRel
<1>4. QED
    BY <1>3

\* Resume goes on with a transaction that is not in the cache, or ends.
LEMMA ResumeIs ==
    ASSUME NEW w \in Checkers, NEW q \in Seq(Txs), NEW c \in [Txs -> {"unknown", "yes", "no"}],
           queue \in [Checkers -> Seq(Txs)], task \in [Jobs -> [Txs -> Tasks]], Resume(w, q, c)
    PROVE  /\ queue' \in [Checkers -> Seq(Txs)] /\ task' \in [Jobs -> [Txs -> Tasks]]
           /\ \A v \in Checkers \ {w} : queue'[v] = queue[v]
           /\ \A j \in Jobs \ {w} : task'[j] = task[j]
           /\ \/ queue'[w] = <<>> /\ task'[w] = NoTasks
              \/ /\ queue'[w] # <<>> /\ Range(queue'[w]) \subseteq Range(q)
                 /\ Head(queue'[w]) \in Txs
                 /\ task'[w] = [NoTasks EXCEPT ![Head(queue'[w])] = Opened(Head(queue'[w]))]
<1> DEFINE Is(t) == c[t] = "unknown"
           I == {n \in 1 .. Len(q) : Is(q[n])}
           i == SelectInSeq(q, Is)
<1>1. i = IF I = {} THEN 0 ELSE Min(I)
    BY DEF SelectInSeq
<1>2. i \in 0 .. Len(q)
    <2>1. CASE I = {}
        BY <1>1, <2>1
    <2>2. CASE I # {}
        <3>1. I \in SUBSET Nat
            OBVIOUS
        <3>2. \E x \in I : \A y \in I : x <= y
            BY <2>2, <3>1, LeastOf
        <3>3. Min(I) \in I
            BY <3>2 DEF Min
        <3>4. QED
            BY <1>1, <2>2, <3>3
    <2>3. QED
        BY <2>1, <2>2
<1>3. /\ queue' = [queue EXCEPT ![w] = IF i = 0 THEN <<>> ELSE SubSeq(q, i, Len(q))]
      /\ task' = [task EXCEPT ![w] =
                     IF i = 0 THEN NoTasks ELSE [NoTasks EXCEPT ![q[i]] = Opened(q[i])]]
    BY DEF Resume
<1> HIDE DEF i
<1>4. w \in Jobs
    BY DEF Jobs
<1>5. CASE i = 0
    BY <1>3, <1>4, <1>5, TaskTypes
<1>6. CASE i # 0
    <2>1. i \in 1 .. Len(q) /\ q[i] \in Txs /\ Len(q) \in Nat
        BY <1>2, <1>6
    <2> DEFINE r == SubSeq(q, i, Len(q))
    <2>2. /\ r \in Seq(Txs) /\ Len(r) = Len(q) - i + 1
          /\ \A n \in 1 .. Len(r) : r[n] = q[i + n - 1]
        BY <2>1
    <2>3. r # <<>> /\ Head(r) = q[i]
        <3> HIDE DEF r
        <3>1. Len(r) >= 1 /\ r[1] = q[i]
            BY <2>1, <2>2
        <3>2. QED
            BY <2>2, <3>1
    <2>4. Range(r) \subseteq Range(q)
        <3>1. ASSUME NEW n \in 1 .. Len(r) PROVE r[n] \in Range(q)
            BY <2>1, <2>2 DEF Range
        <3>2. QED
            BY <2>2, <3>1 DEF Range
    <2>5. [NoTasks EXCEPT ![q[i]] = Opened(q[i])] \in [Txs -> Tasks]
        BY <2>1, TaskTypes
    <2> HIDE DEF r
    <2>6. queue' = [queue EXCEPT ![w] = r]
        BY <1>3, <1>6 DEF r
    <2>7. task' = [task EXCEPT ![w] = [NoTasks EXCEPT ![q[i]] = Opened(q[i])]]
        BY <1>3, <1>6
    <2>8. queue' \in [Checkers -> Seq(Txs)] /\ queue'[w] = r /\ \A v \in Checkers \ {w} : queue'[v] = queue[v]
        BY <2>2, <2>6
    <2>9. /\ task' \in [Jobs -> [Txs -> Tasks]] /\ \A j \in Jobs \ {w} : task'[j] = task[j]
          /\ task'[w] = [NoTasks EXCEPT ![q[i]] = Opened(q[i])]
        BY <1>4, <2>5, <2>7
    <2>10. QED
        BY <2>1, <2>3, <2>4, <2>8, <2>9
<1>7. QED
    BY <1>5, <1>6

\* The tasks that Resume leaves are right.
LEMMA ResumeRight ==
    ASSUME TypeInv, NEW w \in Checkers, NEW q \in Seq(Txs),
           NEW c \in [Txs -> {"unknown", "yes", "no"}], Resume(w, q, c),
           UNCHANGED <<rows, outputs>>
    PROVE  queue' \in [Checkers -> Seq(Txs)] /\ TaskOK'
<1>1. /\ queue \in [Checkers -> Seq(Txs)] /\ task \in [Jobs -> [Txs -> Tasks]] /\ TasksRight
    BY DEF TypeInv, TypeOK
<1>2. /\ queue' \in [Checkers -> Seq(Txs)] /\ task' \in [Jobs -> [Txs -> Tasks]]
      /\ \A j \in Jobs \ {w} : task'[j] = task[j]
      /\ \/ task'[w] = NoTasks
         \/ \E s \in Txs : task'[w] = [NoTasks EXCEPT ![s] = Opened(s)]
    BY <1>1, ResumeIs
<1>3. ASSUME NEW j \in Jobs, NEW t \in Txs PROVE Right(t, task'[j][t], rows', outputs')
    <2>1. CASE j # w
        BY <1>1, <1>2, <2>1 DEF TasksRight
    <2>2. CASE j = w
        <3>1. task'[w][t] = NoTask \/ task'[w][t] = Opened(t)
            BY <1>2 DEF NoTasks
        <3>2. QED
            BY <2>2, <3>1, NewIsRight
    <2>3. QED
        BY <2>1, <2>2
<1>4. TasksRight'
    BY <1>3 DEF TasksRight, Right
<1>5. QED
    BY <1>2, <1>4 DEF TaskOK

LEMMA CheckerSteps ==
    ASSUME TypeInv, NEW w \in Checkers, CheckerStep(w)
    PROVE  TypeInv'
<1>1. MemoryOK /\ NodeOK /\ DbOK /\ HeightOK /\ TaskOK
    BY TypeParts
<1>2. CASE ProcessMempool(w)
    <2>1. /\ buffer' = <<>> /\ Resume(w, buffer, cache)
          /\ UNCHANGED <<node, pushes, db, mode, syncing, cache, blk, chk, crashes>>
        BY <1>2 DEF ProcessMempool
    <2>2. queue' \in [Checkers -> Seq(Txs)] /\ TaskOK'
        BY <1>1, <2>1, ResumeRight DEF MemoryOK, db
    <2>3. MemoryOK' /\ NodeOK' /\ DbOK' /\ HeightOK'
        BY <1>1, <2>1, <2>2, SameDb, SameHeight DEF MemoryOK, NodeOK, node, db
    <2>4. QED
        BY <2>2, <2>3, PartsNext
<1>3. ASSUME NEW t \in Txs, OnPushTx(w, t)
      PROVE  TypeInv'
    <2>1. /\ pushes' = pushes \ {t} /\ Resume(w, <<t>>, cache)
          /\ UNCHANGED <<node, buffer, db, mode, syncing, cache, blk, chk, crashes>>
        BY <1>3 DEF OnPushTx
    <2>2. <<t>> \in Seq(Txs)
        OBVIOUS
    <2>3. queue' \in [Checkers -> Seq(Txs)] /\ TaskOK'
        BY <1>1, <2>1, <2>2, ResumeRight DEF MemoryOK, db
    <2>4. MemoryOK' /\ NodeOK' /\ DbOK' /\ HeightOK'
        BY <1>1, <2>1, <2>3, SameDb, SameHeight DEF MemoryOK, NodeOK, node, db
    <2>5. QED
        BY <2>3, <2>4, PartsNext
<1>4. CASE FinishCheck(w)
    <2> DEFINE t == Head(queue[w])
    <2>1. /\ queue[w] # <<>> /\ Resume(w, Tail(queue[w]), cache')
          /\ cache' = [cache EXCEPT ![t] = IF task[w][t].broadcast THEN "yes" ELSE "no"]
          /\ UNCHANGED <<node, pushes, buffer, db, mode, syncing, blk, chk, crashes>>
        BY <1>4 DEF FinishCheck
    <2>2. Tail(queue[w]) \in Seq(Txs) /\ cache' \in [Txs -> {"unknown", "yes", "no"}]
        BY <1>1, <2>1 DEF MemoryOK
    <2>3. queue' \in [Checkers -> Seq(Txs)] /\ TaskOK'
        BY <1>1, <2>1, <2>2, ResumeRight DEF db
    <2>4. MemoryOK' /\ NodeOK' /\ DbOK' /\ HeightOK'
        BY <1>1, <2>1, <2>2, <2>3, SameDb, SameHeight DEF MemoryOK, NodeOK, node, db
    <2>5. QED
        BY <2>3, <2>4, PartsNext
<1>5. ASSUME NEW t \in Txs, CheckStep(w, t)
      PROVE  TypeInv'
    BY <1>5, CheckSteps DEF Jobs
<1>6. QED
    BY <1>2, <1>3, <1>4, <1>5 DEF CheckerStep

-----------------------------------------------------------------------------
(* Blocks and the check of unconfirmed transactions *)

\* Every task of the block is right after a step that leaves the others alone.
LEMMA BlockTasks ==
    ASSUME TypeInv, NEW f \in [Txs -> Tasks], task' = [task EXCEPT ![Block] = f],
           \A t \in Txs : Right(t, f[t], rows, outputs), UNCHANGED <<rows, outputs>>
    PROVE  TaskOK'
<1>1. task \in [Jobs -> [Txs -> Tasks]] /\ TasksRight /\ Block \in Jobs
    BY DEF TypeInv, TypeOK, Jobs
<1>2. task' \in [Jobs -> [Txs -> Tasks]] /\ task'[Block] = f
    BY <1>1
<1>3. ASSUME NEW j \in Jobs, NEW t \in Txs PROVE Right(t, task'[j][t], rows', outputs')
    <2>1. CASE j = Block
        BY <1>2, <2>1
    <2>2. CASE j # Block
        BY <1>1, <2>2 DEF TasksRight
    <2>3. QED
        BY <2>1, <2>2
<1>4. TasksRight'
    BY <1>3 DEF TasksRight, Right
<1>5. QED
    BY <1>2, <1>4 DEF TaskOK

LEMMA BlockSteps ==
    ASSUME TypeInv, BlockStep
    PROVE  TypeInv'
<1>1. MemoryOK /\ NodeOK /\ DbOK /\ HeightOK /\ TaskOK /\ Block \in Jobs
    BY TypeParts DEF Jobs
<1>2. height \in Nat /\ Len(mined) \in Nat /\ 1 <= height /\ height <= Len(mined)
    BY <1>1 DEF HeightOK, NodeOK
<1>3. CASE StartBlock
    <2> DEFINE ts == mined[height + 1]
               f == [t \in Txs |-> IF t \in ts /\ cache[t] # "no" THEN [Opened(t) EXCEPT !.in = "wait"]
                                   ELSE NoTask]
    <2>1. /\ height < Len(mined) /\ task' = [task EXCEPT ![Block] = f]
          /\ blk' = [step |-> "filter", seen |-> {t \in ts : cache[t] = "yes"},
                     unseen |-> {t \in ts : cache[t] = "unknown"}]
          /\ UNCHANGED <<node, pushes, buffer, db, mode, syncing, cache, queue, chk, crashes>>
        BY <1>3 DEF StartBlock
    <2>2. ts \subseteq Txs
        BY <1>1, <1>2, <2>1 DEF NodeOK
    <2>3. f \in [Txs -> Tasks] /\ \A t \in Txs : Right(t, f[t], rows, outputs)
        BY TaskTypes, NewIsRight
    <2> HIDE DEF f
    <2>4. TaskOK'
        BY <2>1, <2>3, BlockTasks DEF db
    <2>5. MemoryOK'
        <3>1. blk' \in [step : {"off", "filter", "run", "confirm"}, seen : SUBSET Txs, unseen : SUBSET Txs]
            BY <2>1, <2>2
        <3>2. QED
            BY <1>1, <2>1, <3>1 DEF MemoryOK
    <2>6. NodeOK' /\ DbOK' /\ HeightOK'
        BY <1>1, <2>1, SameDb DEF NodeOK, HeightOK, BlockAhead, node, db
    <2>7. QED
        BY <2>4, <2>5, <2>6, PartsNext
<1>4. CASE FilterInputs
    <2> DEFINE found == blk.seen \cup {t \in blk.unseen : Spends[t] \cap outputs # {}}
               f == [t \in Txs |-> IF task[Block][t].in # "wait" THEN task[Block][t]
                                   ELSE [task[Block][t] EXCEPT !.in = IF t \in found THEN "read"
                                                                      ELSE "done"]]
    <2>1. /\ blk.step = "filter" /\ blk' = [BlkOff EXCEPT !.step = "run"]
          /\ task' = [task EXCEPT ![Block] = f]
          /\ UNCHANGED <<node, pushes, buffer, db, mode, syncing, cache, queue, chk, crashes>>
        BY <1>4 DEF FilterInputs
    <2>2. ASSUME NEW t \in Txs PROVE f[t] \in Tasks /\ Right(t, f[t], rows, outputs)
        <3>1. task[Block][t] \in Tasks /\ Right(t, task[Block][t], rows, outputs)
            BY <1>1, TaskFacts
        <3>2. (IF t \in found THEN "read" ELSE "done") \in {"read", "done"}
            OBVIOUS
        <3> HIDE DEF found
        <3>3. QED
            BY <3>1, <3>2 DEF Tasks, Right
    <2>3. f \in [Txs -> Tasks] /\ \A t \in Txs : Right(t, f[t], rows, outputs)
        BY <2>2
    <2> HIDE DEF f
    <2>4. TaskOK'
        BY <2>1, <2>3, BlockTasks DEF db
    <2>5. MemoryOK' /\ blk'.step = "run"
        BY <1>1, <2>1 DEF MemoryOK, BlkOff
    <2>6. NodeOK' /\ DbOK' /\ HeightOK'
        BY <1>1, <2>1, <2>5, SameDb DEF NodeOK, HeightOK, BlockAhead, node, db
    <2>7. QED
        BY <2>4, <2>5, <2>6, PartsNext
<1>5. CASE RegisterBlock
    <2>1. /\ blk.step = "run" /\ height' = height + 1 /\ blk' = [blk EXCEPT !.step = "confirm"]
          /\ UNCHANGED <<node, pushes, buffer, rows, confirmed, outputs, inputs, mode, syncing,
                         cache, queue, task, chk, crashes>>
        BY <1>5 DEF RegisterBlock
    <2>2. MemoryOK' /\ blk'.step = "confirm"
        BY <1>1, <2>1 DEF MemoryOK
    <2>3. HeightOK'
        BY <1>1, <1>2, <2>1, <2>2 DEF HeightOK, BlockAhead, node
    <2>4. NodeOK' /\ DbOK' /\ TaskOK'
        BY <1>1, <2>1, SameDb, SameTasks DEF NodeOK, node
    <2>5. QED
        BY <2>2, <2>3, <2>4, PartsNext
<1>6. CASE ConfirmBlock
    <2>1. /\ confirmed' = confirmed \cup {t \in rows : task[Block][t].broadcast}
          /\ blk' = BlkOff /\ task' = [task EXCEPT ![Block] = NoTasks]
          /\ UNCHANGED <<node, pushes, buffer, rows, outputs, inputs, height, mode, syncing,
                         cache, queue, chk, crashes>>
        BY <1>6 DEF ConfirmBlock
    <2>2. NoTasks \in [Txs -> Tasks] /\ \A t \in Txs : Right(t, NoTasks[t], rows, outputs)
        BY TaskTypes, NewIsRight DEF NoTasks
    <2>3. TaskOK'
        BY <2>1, <2>2, BlockTasks
    <2>4. MemoryOK' /\ blk'.step = "off"
        BY <1>1, <2>1 DEF MemoryOK, BlkOff
    <2>5. NodeOK' /\ DbOK' /\ HeightOK'
        BY <1>1, <2>1, <2>4, SameHeight DEF NodeOK, DbOK, InputsSpend, node
    <2>6. QED
        BY <2>3, <2>4, <2>5, PartsNext
<1>7. ASSUME NEW t \in Txs, CheckStep(Block, t)
      PROVE  TypeInv'
    BY <1>1, <1>7, CheckSteps
<1>8. QED
    BY <1>3, <1>4, <1>5, <1>6, <1>7 DEF BlockStep

LEMMA UnconfirmedSteps ==
    ASSUME TypeInv, UnconfirmedStep
    PROVE  TypeInv'
<1>1. MemoryOK /\ NodeOK /\ DbOK /\ HeightOK /\ TaskOK
    BY TypeParts
<1>2. CASE CheckUnconfirmed
    <2>1. /\ chk' = [missing |-> Unconfirmed \ Alive, found |-> Unconfirmed \cap Chain]
          /\ cache' = [t \in Txs |-> IF t \in chk'.missing THEN "unknown" ELSE cache[t]]
          /\ UNCHANGED <<node, pushes, buffer, db, mode, syncing, queue, task, blk, crashes>>
        BY <1>2 DEF CheckUnconfirmed
    <2>2. Unconfirmed \subseteq Txs
        BY <1>1 DEF Unconfirmed, DbOK
    <2>3. /\ chk' \in [missing : SUBSET Txs, found : SUBSET Txs]
          /\ cache' \in [Txs -> {"unknown", "yes", "no"}]
        BY <1>1, <2>1, <2>2 DEF MemoryOK
    <2>4. MemoryOK'
        BY <1>1, <2>1, <2>3 DEF MemoryOK
    <2>5. NodeOK' /\ DbOK' /\ HeightOK' /\ TaskOK'
        BY <1>1, <2>1, SameDb, SameHeight, SameTasks DEF NodeOK, node, db
    <2>6. QED
        BY <2>4, <2>5, PartsNext
<1>3. ASSUME NEW t \in Txs, DeleteMissing(t)
      PROVE  TypeInv'
    <2>1. /\ chk' = [chk EXCEPT !.missing = @ \ {t}] /\ DeleteTransactions({t}, task)
          /\ UNCHANGED <<node, pushes, buffer, mode, syncing, cache, queue, blk, crashes>>
        BY <1>3 DEF DeleteMissing
    <2>2. /\ task \in [Jobs -> [Txs -> Tasks]]
          /\ \A j \in Jobs, s \in Txs : Right(s, task[j][s], rows, outputs)
        BY TaskFacts DEF TypeInv, TypeOK
    <2>3. chk' \in [missing : SUBSET Txs, found : SUBSET Txs]
        BY <1>1, <2>1 DEF MemoryOK
    <2>4. {t} \in SUBSET Txs
        OBVIOUS
    <2>5. QED
        BY <2>1, <2>2, <2>3, <2>4, DeletionStep
<1>4. ASSUME NEW t \in Txs, ConfirmFound(t)
      PROVE  TypeInv'
    <2>1. /\ chk' = [chk EXCEPT !.found = @ \ {t}]
          /\ confirmed' = IF t \in rows /\ \E h \in 1 .. height : t \in mined[h]
                          THEN confirmed \cup {t} ELSE confirmed
          /\ UNCHANGED <<node, pushes, buffer, rows, outputs, inputs, height, mode, syncing,
                         cache, queue, task, blk, crashes>>
        BY <1>4 DEF ConfirmFound
    <2>2. MemoryOK'
        BY <1>1, <2>1 DEF MemoryOK
    <2>3. DbOK'
        BY <1>1, <2>1 DEF DbOK, InputsSpend
    <2>4. NodeOK' /\ HeightOK' /\ TaskOK'
        BY <1>1, <2>1, SameHeight, SameTasks DEF NodeOK, node
    <2>5. QED
        BY <2>2, <2>3, <2>4, PartsNext
<1>5. QED
    BY <1>2, <1>3, <1>4 DEF UnconfirmedStep

LEMMA TypeInit == Init => TypeInv
<1> SUFFICES ASSUME Init PROVE TypeInv
    OBVIOUS
<1>1. Genesis \subseteq Txs /\ \A t \in Genesis : Parents(t) \subseteq Genesis
    BY TransactionsAssumption
<1>2. MemoryOK
    BY DEF Init, MemoryOK, BlkOff, ChkOff
<1>3. NodeOK /\ HeightOK
    BY <1>1, TransactionsAssumption DEF Init, NodeOK, HeightOK, BlockAhead, BlkOff
<1>4. DbOK
    <2>1. /\ rows = Genesis /\ confirmed = Genesis /\ outputs = UNION {Pays[t] : t \in Genesis}
          /\ inputs = UNION {{t} \X Spends[t] : t \in Genesis}
        BY DEF Init
    <2>2. ASSUME NEW i \in inputs PROVE i \in rows \X outputs /\ i[2] \in Spends[i[1]]
        <3>1. PICK t \in Genesis : i \in {t} \X Spends[t]
            BY <2>1
        <3>2. PICK o \in Spends[t] : i = <<t, o>>
            BY <3>1
        <3>3. Creator(o) \in Genesis /\ o \in Pays[Creator(o)]
            BY <1>1, <3>2, PaysAndSpends DEF Parents
        <3>4. QED
            BY <2>1, <3>2, <3>3
    <2>3. QED
        BY <1>1, <2>1, <2>2 DEF DbOK, InputsSpend
<1>5. TaskOK
    <2>1. task = [j \in Jobs |-> NoTasks]
        BY DEF Init
    <2>2. task \in [Jobs -> [Txs -> Tasks]] /\ \A j \in Jobs, t \in Txs : task[j][t] = NoTask
        BY <2>1, TaskTypes DEF NoTasks
    <2>3. QED
        BY <2>2, NewIsRight DEF TaskOK, TasksRight
<1>6. QED
    BY <1>2, <1>3, <1>4, <1>5, TypeParts

LEMMA TypeNext == TypeInv /\ [Next]_vars => TypeInv'
<1> SUFFICES ASSUME TypeInv, [Next]_vars PROVE TypeInv'
    OBVIOUS
<1>1. CASE UNCHANGED vars
    BY <1>1 DEF vars, TypeInv, TypeOK, TasksRight, Right, InputsSpend, BlockAhead
<1>2. CASE Environment
    BY <1>2, NodeStep, ProcessStep DEF Environment
<1>3. CASE MempoolStep
    BY <1>3, ProcessStep
<1>4. CASE BlockStep
    BY <1>4, BlockSteps
<1>5. CASE UnconfirmedStep
    BY <1>5, UnconfirmedSteps
<1>6. CASE \E w \in Checkers : CheckerStep(w)
    BY <1>6, CheckerSteps
<1>7. QED
    BY <1>1, <1>2, <1>3, <1>4, <1>5, <1>6 DEF Next

\* The types, and the foreign keys of inputs and outputs: whoever stores and deletes rows at
\* once, an input and an output have their row, and an input the output that it spends.
THEOREM ForeignKeys == Spec => []TypeOK
<1>1. TypeInv => TypeOK
    BY DEF TypeInv
<1>2. QED
    BY <1>1, TypeInit, TypeNext, PTL DEF Spec

-----------------------------------------------------------------------------
(* What a step of a check does *)

\* Two tasks are alike but for what a deletion changes.
Agrees(a, b, deleted) ==
    /\ a.in = b.in /\ a.out = b.out /\ a.store = b.store
    /\ a.broadcast = b.broadcast /\ a.reads = b.reads
    /\ ~deleted => a.id = b.id

\* From old to new, the task of t keeps its verdict, knows what it read, and has written
\* what it has done.
Moves(t, old, new) ==
    /\ old.broadcast = TRUE => new.broadcast = TRUE
    /\ new.in \in {"wait", "read"} => new.in = old.in
    /\ old.in = "read" /\ new.in # "read" /\ new.broadcast = FALSE => Spends[t] \cap outputs = {}
    /\ new.id = "gone" => old.id = "gone"
    /\ new.out = "done" => old.out = "done" \/ old.id = "gone" \/ Pays[t] \subseteq outputs'
    /\ new.in \in {"store", "write"} =>
         \/ old.in \in {"store", "write"} /\ new.reads = old.reads
         \/ old.in = "read" /\ new.reads = Spends[t] \cap outputs
    /\ new.in \in {"done", "lookup", "delete"} =>
         \/ old.in \in {"done", "lookup", "delete"}
         \/ old.in = "read" /\ Spends[t] \cap outputs = {}
         \/ old.in = "write" /\ {t} \X old.reads \subseteq inputs'

\* The task of t in j becomes new, and the rows of ts are deleted.
Effect(j, t, new, ts) ==
    /\ Working(task[j][t]) /\ Moves(t, task[j][t], new)
    /\ \A s \in ts : Conflict(s, t)
    /\ \A i \in Jobs, s \in Txs :
         Agrees(task'[i][s], IF i = j /\ s = t THEN Settled(new) ELSE task[i][s], s \in ts)
    /\ rows' \subseteq rows \cup {t} /\ confirmed' \subseteq confirmed
    /\ \A s \in Txs \ ts : Pays[s] \cap outputs \subseteq outputs'
    /\ \A i \in inputs : i[1] \notin ts /\ Creator(i[2]) \notin ts => i \in inputs'
    /\ \A s \in Txs : cache'[s] \in {cache[s], "unknown"}
    /\ UNCHANGED <<node, pushes, buffer, height, mode, syncing, queue, blk, chk, crashes>>

\* A step that deletes nothing
LEMMA PlainEffect ==
    ASSUME TypeInv, NEW j \in Jobs, NEW t \in Txs, NEW new \in Tasks,
           Working(task[j][t]), Moves(t, task[j][t], new), task' = At(j, t, new),
           rows' \subseteq rows \cup {t}, confirmed' \subseteq confirmed,
           outputs \subseteq outputs', inputs \subseteq inputs',
           \A s \in Txs : cache'[s] \in {cache[s], "unknown"},
           UNCHANGED <<node, pushes, buffer, height, mode, syncing, queue, blk, chk, crashes>>
    PROVE  Effect(j, t, new, {})
<1>1. task \in [Jobs -> [Txs -> Tasks]]
    BY TaskFacts
<1>2. /\ task'[j][t] = Settled(new)
      /\ \A i \in Jobs, s \in Txs : i # j \/ s # t => task'[i][s] = task[i][s]
    BY <1>1, AtIs
<1>3. ASSUME NEW i \in Jobs, NEW s \in Txs
      PROVE  Agrees(task'[i][s], IF i = j /\ s = t THEN Settled(new) ELSE task[i][s], s \in {})
    <2>1. task'[i][s] = IF i = j /\ s = t THEN Settled(new) ELSE task[i][s]
        BY <1>2
    <2>2. QED
        BY <2>1 DEF Agrees
<1>4. QED
    BY <1>3 DEF Effect

LEMMA PurgedAgrees ==
    ASSUME NEW T \in [Jobs -> [Txs -> Tasks]], NEW ts, NEW j \in Jobs, NEW t \in Txs
    PROVE  Agrees(Purged(T, ts)[j][t], T[j][t], t \in ts)
<1>1. T[j][t] \in Tasks
    OBVIOUS
<1> DEFINE lost == \E o \in T[j][t].reads : Creator(o) \in ts
<1>2. Purged(T, ts)[j][t] =
        [T[j][t] EXCEPT !.id = IF t \in ts /\ @ = "row" THEN "gone" ELSE @,
                        !.stale = @ \/ lost, !.rivals = @ \ ts]
    BY DEF Purged
<1> HIDE DEF lost
<1>3. QED
    BY <1>1, <1>2 DEF Agrees, Tasks

LEMMA CheckEffect ==
    ASSUME TypeInv, NEW j \in Jobs, NEW t \in Txs, CheckStep(j, t)
    PROVE  \/ Dies /\ UNCHANGED <<node, db, crashes>>
           \/ \E new \in Tasks, ts \in SUBSET Txs : Effect(j, t, new, ts)
<1> DEFINE k == task[j][t]
<1>1. /\ k \in Tasks /\ Right(t, k, rows, outputs) /\ task \in [Jobs -> [Txs -> Tasks]]
    BY TaskFacts
<1>2. rows \subseteq Txs /\ Spends[t] \subseteq Outs
    BY PaysAndSpends DEF TypeInv, TypeOK
<1>3. CASE ReadSpends(j, t)
    <2> DEFINE known == Spends[t] \cap outputs
               rivals == {s \in rows \ {t} : \E o \in known : <<s, o>> \in inputs}
               new == IF known = {} THEN [k EXCEPT !.in = "done"]
                      ELSE [k EXCEPT !.in = AfterRead(k), !.reads = known, !.rivals = rivals,
                                     !.broadcast = TRUE]
    <2>1. /\ k.in = "read" /\ task' = At(j, t, new)
          /\ UNCHANGED <<node, pushes, buffer, db, mode, syncing, cache, queue, blk, chk, crashes>>
        BY <1>3 DEF ReadSpends
    <2>2. rivals \in SUBSET Txs /\ known \in SUBSET Outs /\ AfterRead(k) \in {"write", "store"}
        BY <1>2 DEF AfterRead
    <2>3. new \in Tasks /\ Moves(t, k, new)
        <3>1. CASE known = {}
            <4>1. new = [k EXCEPT !.in = "done"]
                BY <3>1
            <4> HIDE DEF new, k, rivals
            <4>2. QED
                BY <1>1, <2>1, <3>1, <4>1 DEF Tasks, Moves
        <3>2. CASE known # {}
            <4>1. new = [k EXCEPT !.in = AfterRead(k), !.reads = known, !.rivals = rivals,
                                  !.broadcast = TRUE]
                BY <3>2
            <4> HIDE DEF new, k, rivals
            <4>2. QED
                BY <1>1, <2>1, <2>2, <4>1 DEF Tasks, Moves
        <3>3. QED
            BY <3>1, <3>2
    <2> HIDE DEF new
    <2>4. Effect(j, t, new, {})
        BY <2>1, <2>3, PlainEffect DEF db, Working
    <2>5. QED
        BY <2>3, <2>4
<1>4. CASE InsertTransaction(j, t)
    <2> DEFINE new == IF t \in rows THEN [k EXCEPT !.store = "select"]
                      ELSE [k EXCEPT !.store = "add", !.id = "row"]
    <2>1. /\ k.store = "no" /\ "store" \in {k.in, k.out} /\ rows' = rows \cup {t}
          /\ task' = At(j, t, new)
          /\ UNCHANGED <<node, pushes, buffer, confirmed, outputs, inputs, height, mode,
                         syncing, cache, queue, blk, chk, crashes>>
        BY <1>4 DEF InsertTransaction
    <2>2. new \in Tasks /\ Moves(t, k, new)
        <3>1. CASE t \in rows
            BY <1>1, <2>1, <3>1 DEF Tasks, Moves
        <3>2. CASE t \notin rows
            BY <1>1, <2>1, <3>2 DEF Tasks, Moves
        <3>3. QED
            BY <3>1, <3>2
    <2> HIDE DEF new
    <2>3. Effect(j, t, new, {})
        BY <2>1, <2>2, PlainEffect DEF Working
    <2>4. QED
        BY <2>2, <2>3
<1>5. CASE SelectTransaction(j, t)
    <2>1. k.store = "select" /\ UNCHANGED <<node, db, crashes>>
        BY <1>5 DEF SelectTransaction
    <2>2. CASE t \in rows
        <3> DEFINE new == [k EXCEPT !.store = "add", !.id = "row"]
        <3>1. /\ task' = At(j, t, new)
              /\ UNCHANGED <<pushes, buffer, mode, syncing, cache, queue, blk, chk>>
            BY <1>5, <2>2 DEF SelectTransaction
        <3>2. new \in Tasks /\ Moves(t, k, new)
            BY <1>1, <2>1, <2>2 DEF Tasks, Moves
        <3> HIDE DEF new
        <3>3. Effect(j, t, new, {})
            BY <2>1, <3>1, <3>2, PlainEffect DEF Working, db
        <3>4. QED
            BY <3>2, <3>3
    <2>3. CASE t \notin rows
        BY <1>5, <2>1, <2>3 DEF SelectTransaction
    <2>4. QED
        BY <2>2, <2>3
<1>6. CASE AddTransaction(j, t)
    <2>1. /\ k.store = "add" /\ rows' = rows \cup {t} /\ task' = At(j, t, Stored(k))
          /\ UNCHANGED <<node, pushes, buffer, confirmed, outputs, inputs, height, mode,
                         syncing, cache, queue, blk, chk, crashes>>
        BY <1>6 DEF AddTransaction
    <2>2. Stored(k) \in Tasks /\ Moves(t, k, Stored(k))
        BY <1>1, <2>1 DEF Tasks, Moves, Stored
    <2>3. Effect(j, t, Stored(k), {})
        BY <2>1, <2>2, PlainEffect DEF Working
    <2>4. QED
        BY <2>2, <2>3
<1>7. CASE AddInputs(j, t)
    <2> DEFINE new == [k EXCEPT !.reads = {}, !.in = IF k.rivals = {} THEN "done" ELSE "lookup"]
    <2>1. k.in = "write" /\ UNCHANGED <<node, rows, confirmed, outputs, height, crashes>>
        BY <1>7 DEF AddInputs
    <2>2. CASE k.id = "row" /\ ~k.stale
        <3>1. /\ inputs' = inputs \cup ({t} \X k.reads) /\ task' = At(j, t, new)
              /\ UNCHANGED <<pushes, buffer, mode, syncing, cache, queue, blk, chk>>
            BY <1>7, <2>2 DEF AddInputs
        <3>2. new \in Tasks /\ Moves(t, k, new)
            <4>1. {} \in SUBSET Outs /\ (IF k.rivals = {} THEN "done" ELSE "lookup") \in {"done", "lookup"}
                OBVIOUS
            <4>2. new \in Tasks
                BY <1>1, <4>1 DEF Tasks
            <4>3. QED
                BY <1>1, <2>1, <3>1, <4>2 DEF Moves, Tasks
        <3> HIDE DEF new
        <3>3. Effect(j, t, new, {})
            BY <2>1, <3>1, <3>2, PlainEffect DEF Working
        <3>4. QED
            BY <3>2, <3>3
    <2>3. CASE ~(k.id = "row" /\ ~k.stale)
        BY <1>7, <2>1, <2>3 DEF AddInputs, db
    <2>4. QED
        BY <2>2, <2>3
<1>8. CASE ForgetRivals(j, t)
    <2> DEFINE new == [k EXCEPT !.in = "delete"]
    <2>1. /\ k.in = "lookup" /\ task' = At(j, t, new)
          /\ cache' = [s \in Txs |-> IF s \in k.rivals THEN "unknown" ELSE cache[s]]
          /\ UNCHANGED <<node, pushes, buffer, db, mode, syncing, queue, blk, chk, crashes>>
        BY <1>8 DEF ForgetRivals
    <2>2. new \in Tasks /\ Moves(t, k, new)
        BY <1>1, <2>1 DEF Tasks, Moves
    <2>3. \A s \in Txs : cache'[s] \in {cache[s], "unknown"}
        BY <2>1
    <2> HIDE DEF new
    <2>4. Effect(j, t, new, {})
        BY <2>1, <2>2, <2>3, PlainEffect DEF Working, db
    <2>5. QED
        BY <2>2, <2>4
<1>9. CASE DeleteRivals(j, t)
    <2> DEFINE new == [k EXCEPT !.in = "done"]
               T == At(j, t, new)
               ts == k.rivals
    <2>1. /\ k.in = "delete" /\ DeleteTransactions(ts, T)
          /\ UNCHANGED <<node, pushes, buffer, mode, syncing, cache, queue, blk, chk, crashes>>
        BY <1>9 DEF DeleteRivals
    <2>2. new \in Tasks /\ Moves(t, k, new) /\ ts \in SUBSET Txs /\ \A s \in ts : Conflict(s, t)
        BY <1>1, <2>1 DEF Tasks, Moves, Right
    <2> HIDE DEF new
    <2>3. /\ T \in [Jobs -> [Txs -> Tasks]] /\ T[j][t] = Settled(new)
          /\ \A i \in Jobs, s \in Txs : i # j \/ s # t => T[i][s] = task[i][s]
        BY <1>1, <2>2, AtIs
    <2> HIDE DEF T
    <2>4. /\ rows' = rows \ ts /\ confirmed' = confirmed \ ts /\ height' = height
          /\ outputs' = outputs \ UNION {Pays[s] : s \in ts}
          /\ inputs' = {i \in inputs : i[1] \notin ts /\ Creator(i[2]) \notin ts}
          /\ task' = Purged(T, ts)
        BY <2>1 DEF DeleteTransactions
    <2>5. ASSUME NEW i \in Jobs, NEW s \in Txs
          PROVE  Agrees(task'[i][s], IF i = j /\ s = t THEN Settled(new) ELSE task[i][s], s \in ts)
        <3>1. Agrees(task'[i][s], T[i][s], s \in ts)
            BY <2>3, <2>4, PurgedAgrees
        <3>2. T[i][s] = IF i = j /\ s = t THEN Settled(new) ELSE task[i][s]
            BY <2>3
        <3>3. QED
            BY <3>1, <3>2
    <2>6. ASSUME NEW s \in Txs \ ts PROVE Pays[s] \cap outputs \subseteq outputs'
        <3>1. ASSUME NEW o \in Pays[s], NEW u \in ts PROVE o \notin Pays[u]
            BY <2>2, <3>1, CreatorIs
        <3>2. QED
            BY <2>4, <3>1
    <2>7. Effect(j, t, new, ts)
        BY <2>1, <2>2, <2>4, <2>5, <2>6 DEF Effect, Working
    <2>8. QED
        BY <2>2, <2>7
<1>10. CASE AddOutputs(j, t)
    <2> DEFINE new == [k EXCEPT !.out = "done"]
    <2>1. /\ k.out = "write" /\ outputs' = outputs \cup NewOutputs(t, k.id) /\ task' = At(j, t, new)
          /\ UNCHANGED <<node, pushes, buffer, rows, confirmed, inputs, height, mode,
                         syncing, cache, queue, blk, chk, crashes>>
        BY <1>10 DEF AddOutputs
    <2>2. k.id = "gone" \/ Pays[t] \subseteq outputs'
        BY <1>1, <2>1 DEF NewOutputs, Right, Tasks
    <2>3. new \in Tasks /\ Moves(t, k, new)
        BY <1>1, <2>1, <2>2 DEF Tasks, Moves
    <2> HIDE DEF new
    <2>4. Effect(j, t, new, {})
        BY <2>1, <2>3, PlainEffect DEF Working
    <2>5. QED
        BY <2>3, <2>4
<1>11. QED
    BY <1>3, <1>4, <1>5, <1>6, <1>7, <1>8, <1>9, <1>10 DEF CheckStep

-----------------------------------------------------------------------------
(* What is known was announced *)

LEMMA ChainIs ==
    ASSUME mined \in Seq(SUBSET Txs)
    PROVE  \A t : t \in Chain <=> \E h \in 1 .. Len(mined) : t \in mined[h]
BY DEF Chain, Range

LEMMA ChainGrows ==
    ASSUME mined \in Seq(SUBSET Txs), NEW ts \in SUBSET Txs, mined' = Append(mined, ts)
    PROVE  Chain' = Chain \cup ts
<1>1. /\ Len(mined) \in Nat /\ DOMAIN mined = 1 .. Len(mined)
      /\ DOMAIN mined' = 1 .. Len(mined) + 1
      /\ \A h \in 1 .. Len(mined) : mined'[h] = mined[h]
      /\ mined'[Len(mined) + 1] = ts
    OBVIOUS
<1>2. ASSUME NEW t \in Chain' PROVE t \in Chain \cup ts
    <2>1. PICK h \in 1 .. Len(mined) + 1 : t \in mined'[h]
        BY <1>1 DEF Chain, Range
    <2>2. QED
        BY <1>1, <2>1 DEF Chain, Range
<1>3. ASSUME NEW t \in Chain PROVE t \in Chain'
    <2>1. PICK h \in 1 .. Len(mined) : t \in mined[h]
        BY <1>1 DEF Chain, Range
    <2>2. h \in DOMAIN mined' /\ t \in mined'[h]
        BY <1>1, <2>1
    <2>3. QED
        BY <2>2 DEF Chain, Range
<1>4. ts \subseteq Chain'
    <2>1. Len(mined) + 1 \in DOMAIN mined' /\ mined'[Len(mined) + 1] = ts
        BY <1>1
    <2>2. QED
        BY <2>1 DEF Chain, Range
<1>5. QED
    BY <1>2, <1>3, <1>4

LEMMA RangeOfJoin ==
    ASSUME NEW S, NEW p \in Seq(S), NEW q \in Seq(S)
    PROVE  Range(p \o q) = Range(p) \cup Range(q)
<1>1. /\ DOMAIN p = 1 .. Len(p) /\ DOMAIN q = 1 .. Len(q) /\ Len(p) \in Nat /\ Len(q) \in Nat
      /\ DOMAIN (p \o q) = 1 .. Len(p) + Len(q)
      /\ \A i \in 1 .. Len(p) : (p \o q)[i] = p[i]
      /\ \A i \in 1 .. Len(q) : (p \o q)[Len(p) + i] = q[i]
    OBVIOUS
<1> DEFINE r == p \o q
<1> HIDE DEF r
<1>2. ASSUME NEW x \in Range(r) PROVE x \in Range(p) \cup Range(q)
    <2>1. PICK i \in 1 .. Len(p) + Len(q) : x = r[i]
        BY <1>1 DEF Range, r
    <2>2. CASE i <= Len(p)
        BY <1>1, <2>1, <2>2 DEF Range, r
    <2>3. CASE i > Len(p)
        <3>1. i - Len(p) \in 1 .. Len(q) /\ i = Len(p) + (i - Len(p))
            BY <1>1, <2>1, <2>3
        <3>2. x = q[i - Len(p)]
            BY <1>1, <2>1, <3>1 DEF r
        <3>3. QED
            BY <1>1, <3>1, <3>2 DEF Range
    <2>4. QED
        BY <1>1, <2>1, <2>2, <2>3
<1>3. ASSUME NEW x \in Range(p) PROVE x \in Range(r)
    <2>1. PICK i \in 1 .. Len(p) : x = p[i]
        BY <1>1 DEF Range
    <2>2. i \in 1 .. Len(p) + Len(q) /\ r[i] = x
        BY <1>1, <2>1 DEF r
    <2>3. QED
        BY <1>1, <2>2 DEF Range, r
<1>4. ASSUME NEW x \in Range(q) PROVE x \in Range(r)
    <2>1. PICK i \in 1 .. Len(q) : x = q[i]
        BY <1>1 DEF Range
    <2>2. Len(p) + i \in 1 .. Len(p) + Len(q) /\ r[Len(p) + i] = x
        BY <1>1, <2>1 DEF r
    <2>3. QED
        BY <1>1, <2>2 DEF Range, r
<1>5. QED
    BY <1>2, <1>3, <1>4 DEF r

LEMMA RangeOfOne == ASSUME NEW x PROVE Range(<<x>>) = {x} /\ Range(<<>>) = {}
BY DEF Range

LEMMA InitAnnounced == Init => Announced
<1> SUFFICES ASSUME Init PROVE Announced
    OBVIOUS
<1>1. Chain = Genesis
    <2>1. mined = <<Genesis>>
        BY DEF Init
    <2>2. QED
        BY <2>1, RangeOfOne DEF Chain
<1>2. \A j \in Jobs, t \in Txs : ~Working(task[j][t])
    BY DEF Init, NoTasks, NoTask, Working
<1>3. Range(buffer) = {} /\ \A w \in Checkers : Range(queue[w]) = {}
    BY RangeOfOne DEF Init
<1>4. QED
    BY <1>1, <1>2, <1>3 DEF Init, Announced, ChkOff

LEMMA NodeAnnounced ==
    ASSUME TypeInv, Announced, \/ \E t \in Txs : Accept(t) \/ Evict(t) \/ LosePush(t)
                               \/ \E ts \in SUBSET Txs : Mine(ts)
    PROVE  Announced'
<1>1. /\ mined \in Seq(SUBSET Txs) /\ buffer \in Seq(Txs)
      /\ mempool \cup Chain \cup pushes \cup syncing \cup rows \subseteq announced
      /\ Range(buffer) \subseteq announced
      /\ \A w \in Checkers : Range(queue[w]) \subseteq announced
      /\ \A j \in Jobs, t \in Txs : Working(task[j][t]) => t \in announced
      /\ chk.missing \subseteq announced \ Alive
    BY DEF TypeInv, TypeOK, Announced
<1>2. ASSUME NEW txs \in Seq(Txs) PROVE Range(Received(txs)) \subseteq Range(buffer) \cup Range(txs)
    BY <1>1, RangeOfJoin DEF Received
<1>3. ASSUME NEW t \in Txs, Accept(t) PROVE Announced'
    <2>1. /\ t \notin announced /\ mempool' \subseteq mempool \cup {t} /\ announced' = announced \cup {t}
          /\ buffer' = Received(<<t>>) /\ pushes' \subseteq pushes \cup {t}
          /\ UNCHANGED <<mined, db, syncing, queue, task, chk>>
        BY <1>3 DEF Accept
    <2>2. Range(buffer') \subseteq announced'
        <3>1. <<t>> \in Seq(Txs) /\ Range(<<t>>) = {t}
            BY RangeOfOne
        <3>2. QED
            BY <1>1, <1>2, <2>1, <3>1
    <2>3. Chain' = Chain
        BY <2>1 DEF Chain
    <2>4. QED
        BY <1>1, <2>1, <2>2, <2>3 DEF Announced, Alive, Working, db
<1>4. ASSUME NEW t \in Txs, Evict(t) \/ LosePush(t) PROVE Announced'
    <2>1. /\ mempool' \subseteq mempool /\ pushes' \subseteq pushes
          /\ UNCHANGED <<mined, announced, buffer, db, syncing, queue, task, chk>>
        BY <1>4 DEF Evict, LosePush, node
    <2>2. Chain' = Chain
        BY <2>1 DEF Chain
    <2>3. QED
        BY <1>1, <2>1, <2>2 DEF Announced, Alive, Working, db
<1>5. ASSUME NEW ts \in SUBSET Txs, Mine(ts) PROVE Announced'
    <2>1. /\ mined' = Append(mined, ts) /\ announced' = announced \cup ts
          /\ mempool' \subseteq mempool /\ ts \subseteq mempool \cup (OnlyMined \ announced)
          /\ UNCHANGED <<pushes, db, syncing, queue, task, chk>>
        BY <1>5 DEF Mine
    <2>2. Range(buffer') \subseteq announced'
        <3>1. PICK txs \in BlockOrders(ts) : buffer' = Received(txs)
            BY <1>5 DEF Mine
        <3>2. txs \in Seq(Txs) /\ Range(txs) \subseteq ts
            BY OrdersOfBlock
        <3>3. QED
            BY <1>1, <1>2, <2>1, <3>1, <3>2
    <2>3. Chain' = Chain \cup ts
        BY <1>1, <2>1, ChainGrows
    <2>4. QED
        BY <1>1, <2>1, <2>2, <2>3 DEF Announced, Alive, Working, db
<1>6. QED
    BY <1>3, <1>4, <1>5

\* The process dies, or goes on without a new transaction.
LEMMA DeathAnnounced ==
    ASSUME TypeInv, Announced, Dies, UNCHANGED <<node, db>>
    PROVE  Announced'
<1>1. /\ syncing' = {} /\ pushes' = {} /\ chk'.missing = {}
      /\ buffer' = <<>> /\ queue' = [w \in Checkers |-> <<>>]
      /\ task' = [j \in Jobs |-> NoTasks]
    BY DEF Dies, ChkOff
<1>2. \A j \in Jobs, t \in Txs : ~Working(task'[j][t])
    BY <1>1 DEF NoTasks, NoTask, Working
<1>3. Range(buffer') = {} /\ \A w \in Checkers : Range(queue'[w]) = {}
    BY <1>1, RangeOfOne
<1>4. Chain' = Chain
    BY DEF Chain, node
<1>5. QED
    BY <1>1, <1>2, <1>3, <1>4 DEF Announced, Working, node, db

LEMMA CheckAnnounced ==
    ASSUME TypeInv, Announced, NEW j \in Jobs, NEW t \in Txs, CheckStep(j, t)
    PROVE  Announced'
<1>1. CASE Dies /\ UNCHANGED <<node, db, crashes>>
    BY <1>1, DeathAnnounced
<1>2. ASSUME NEW new \in Tasks, NEW ts \in SUBSET Txs, Effect(j, t, new, ts) PROVE Announced'
    <2>1. /\ Working(task[j][t]) /\ rows' \subseteq rows \cup {t}
          /\ UNCHANGED <<node, pushes, buffer, syncing, queue, chk>>
          /\ \A i \in Jobs, s \in Txs :
               Agrees(task'[i][s], IF i = j /\ s = t THEN Settled(new) ELSE task[i][s], s \in ts)
        BY <1>2 DEF Effect
    <2>2. t \in announced
        BY <2>1 DEF Announced
    <2>3. ASSUME NEW i \in Jobs, NEW s \in Txs, Working(task'[i][s]) PROVE s \in announced
        <3>1. CASE i = j /\ s = t
            BY <2>2, <3>1
        <3>2. CASE ~(i = j /\ s = t)
            <4>1. Agrees(task'[i][s], task[i][s], s \in ts)
                BY <2>1, <3>2
            <4>2. Working(task[i][s])
                BY <2>3, <4>1 DEF Agrees, Working
            <4>3. QED
                BY <4>2 DEF Announced
        <3>3. QED
            BY <3>1, <3>2
    <2>4. Chain' = Chain
        BY <2>1 DEF Chain, node
    <2>5. QED
        BY <2>1, <2>2, <2>3, <2>4 DEF Announced, Alive, Working, node
<1>3. QED
    BY <1>1, <1>2, CheckEffect

LEMMA ResumeAnnounced ==
    ASSUME TypeInv, Announced, NEW w \in Checkers, NEW q \in Seq(Txs),
           NEW c \in [Txs -> {"unknown", "yes", "no"}], Resume(w, q, c),
           Range(q) \subseteq announced, UNCHANGED announced
    PROVE  /\ \A v \in Checkers : Range(queue'[v]) \subseteq announced'
           /\ \A j \in Jobs, t \in Txs : Working(task'[j][t]) => t \in announced'
<1>1. queue \in [Checkers -> Seq(Txs)] /\ task \in [Jobs -> [Txs -> Tasks]]
    BY DEF TypeInv, TypeOK
<1>2. /\ queue' \in [Checkers -> Seq(Txs)]
      /\ \A v \in Checkers \ {w} : queue'[v] = queue[v]
      /\ \A j \in Jobs \ {w} : task'[j] = task[j]
      /\ \/ queue'[w] = <<>> /\ task'[w] = NoTasks
         \/ /\ queue'[w] # <<>> /\ Range(queue'[w]) \subseteq Range(q)
            /\ Head(queue'[w]) \in Txs
            /\ task'[w] = [NoTasks EXCEPT ![Head(queue'[w])] = Opened(Head(queue'[w]))]
    BY <1>1, ResumeIs
<1>3. Range(queue'[w]) \subseteq announced
    BY <1>2, RangeOfOne
<1>4. ASSUME NEW v \in Checkers PROVE Range(queue'[v]) \subseteq announced
    BY <1>2, <1>3 DEF Announced
<1>5. ASSUME NEW j \in Jobs, NEW t \in Txs, Working(task'[j][t]) PROVE t \in announced
    <2>1. CASE j # w
        BY <1>2, <1>5, <2>1 DEF Announced
    <2>2. CASE j = w
        <3>1. ~Working(NoTask)
            BY DEF NoTask, Working
        <3>2. queue'[w] # <<>> /\ t = Head(queue'[w])
            BY <1>2, <1>5, <2>2, <3>1 DEF NoTasks
        <3>3. queue'[w] \in Seq(Txs)
            BY <1>2
        <3>4. t \in Range(queue'[w])
            BY <3>2, <3>3 DEF Range
        <3>5. QED
            BY <1>3, <3>4
    <2>3. QED
        BY <2>1, <2>2
<1>6. QED
    BY <1>4, <1>5

LEMMA CheckerAnnounced ==
    ASSUME TypeInv, Announced, NEW w \in Checkers, CheckerStep(w)
    PROVE  Announced'
<1>1. /\ queue \in [Checkers -> Seq(Txs)] /\ buffer \in Seq(Txs) /\ pushes \subseteq announced
      /\ cache \in [Txs -> {"unknown", "yes", "no"}]
      /\ Range(buffer) \subseteq announced /\ \A v \in Checkers : Range(queue[v]) \subseteq announced
    BY DEF TypeInv, TypeOK, Announced
<1>2. ASSUME NEW q \in Seq(Txs), NEW c \in [Txs -> {"unknown", "yes", "no"}], Resume(w, q, c),
             Range(q) \subseteq announced, pushes' \subseteq pushes, Range(buffer') \subseteq announced,
             UNCHANGED <<node, db, syncing, chk>>
      PROVE  Announced'
    <2>1. /\ \A v \in Checkers : Range(queue'[v]) \subseteq announced'
          /\ \A j \in Jobs, t \in Txs : Working(task'[j][t]) => t \in announced'
        BY <1>2, ResumeAnnounced DEF node
    <2>2. Chain' = Chain
        BY <1>2 DEF Chain, node
    <2>3. QED
        BY <1>2, <2>1, <2>2 DEF Announced, Alive, Working, node, db
<1>3. CASE ProcessMempool(w)
    <2>1. buffer' = <<>> /\ Resume(w, buffer, cache) /\ UNCHANGED <<node, pushes, db, syncing, chk>>
        BY <1>3 DEF ProcessMempool
    <2>2. Range(buffer') = {}
        BY <2>1, RangeOfOne
    <2>3. QED
        BY <1>1, <1>2, <2>1, <2>2
<1>4. ASSUME NEW t \in Txs, OnPushTx(w, t) PROVE Announced'
    <2>1. /\ t \in pushes /\ pushes' \subseteq pushes /\ Resume(w, <<t>>, cache)
          /\ UNCHANGED <<node, buffer, db, syncing, chk>>
        BY <1>4 DEF OnPushTx
    <2>2. <<t>> \in Seq(Txs) /\ Range(<<t>>) = {t}
        BY RangeOfOne
    <2>3. QED
        BY <1>1, <1>2, <2>1, <2>2
<1>5. CASE FinishCheck(w)
    <2>1. /\ queue[w] # <<>> /\ Resume(w, Tail(queue[w]), cache')
          /\ cache' = [cache EXCEPT ![Head(queue[w])] =
                         IF task[w][Head(queue[w])].broadcast THEN "yes" ELSE "no"]
          /\ UNCHANGED <<node, pushes, buffer, db, syncing, chk>>
        BY <1>5 DEF FinishCheck
    <2>2. cache' \in [Txs -> {"unknown", "yes", "no"}]
        BY <1>1, <2>1
    <2>3. Tail(queue[w]) \in Seq(Txs) /\ Range(Tail(queue[w])) \subseteq Range(queue[w])
        <3> DEFINE q == queue[w]
        <3>1. q \in Seq(Txs) /\ q # <<>>
            BY <1>1, <2>1
        <3> HIDE DEF q
        <3>2. /\ Tail(q) \in Seq(Txs) /\ Len(Tail(q)) = Len(q) - 1 /\ Len(q) \in Nat
              /\ \A i \in 1 .. Len(Tail(q)) : Tail(q)[i] = q[i + 1]
            BY <3>1
        <3>3. ASSUME NEW i \in 1 .. Len(Tail(q)) PROVE Tail(q)[i] \in Range(q)
            BY <3>1, <3>2 DEF Range
        <3>4. QED
            BY <3>2, <3>3 DEF Range, q
    <2>4. QED
        BY <1>1, <1>2, <2>1, <2>2, <2>3
<1>6. ASSUME NEW t \in Txs, CheckStep(w, t) PROVE Announced'
    BY <1>6, CheckAnnounced DEF Jobs
<1>7. QED
    BY <1>3, <1>4, <1>5, <1>6 DEF CheckerStep

LEMMA BlockAnnounced ==
    ASSUME TypeInv, Announced, BlockStep
    PROVE  Announced'
<1>1. /\ task \in [Jobs -> [Txs -> Tasks]] /\ Block \in Jobs /\ mined \in Seq(SUBSET Txs)
      /\ height \in 1 .. Len(mined) /\ Len(mined) \in Nat
    BY DEF TypeInv, TypeOK, Jobs
<1>2. ASSUME NEW f \in [Txs -> Tasks], task' = [task EXCEPT ![Block] = f],
             \A t \in Txs : Working(f[t]) => t \in announced,
             UNCHANGED <<node, pushes, buffer, rows, syncing, queue, chk>>
      PROVE  Announced'
    <2>1. \A j \in Jobs, t \in Txs : Working(task'[j][t]) => t \in announced
        BY <1>1, <1>2 DEF Announced
    <2>2. Chain' = Chain
        BY <1>2 DEF Chain, node
    <2>3. QED
        BY <1>2, <2>1, <2>2 DEF Announced, Alive, Working, node
<1>3. ~Working(NoTask)
    BY DEF NoTask, Working
<1>4. CASE StartBlock
    <2> DEFINE ts == mined[height + 1]
               f == [t \in Txs |-> IF t \in ts /\ cache[t] # "no" THEN [Opened(t) EXCEPT !.in = "wait"]
                                   ELSE NoTask]
    <2>1. /\ height < Len(mined) /\ task' = [task EXCEPT ![Block] = f]
          /\ UNCHANGED <<node, pushes, buffer, rows, syncing, queue, chk>>
        BY <1>4 DEF StartBlock, db
    <2>2. f \in [Txs -> Tasks]
        BY TaskTypes
    <2>3. ASSUME NEW t \in Txs, Working(f[t]) PROVE t \in announced
        <3>1. t \in ts
            BY <1>3, <2>3
        <3>2. t \in Chain
            BY <1>1, <2>1, <3>1, ChainIs
        <3>3. QED
            BY <3>2 DEF Announced
    <2> HIDE DEF f
    <2>4. QED
        BY <1>2, <2>1, <2>2, <2>3
<1>5. CASE FilterInputs
    <2> DEFINE found == blk.seen \cup {t \in blk.unseen : Spends[t] \cap outputs # {}}
               f == [t \in Txs |-> IF task[Block][t].in # "wait" THEN task[Block][t]
                                   ELSE [task[Block][t] EXCEPT !.in = IF t \in found THEN "read"
                                                                      ELSE "done"]]
    <2>1. /\ task' = [task EXCEPT ![Block] = f]
          /\ UNCHANGED <<node, pushes, buffer, rows, syncing, queue, chk>>
        BY <1>5 DEF FilterInputs, db
    <2>2. ASSUME NEW t \in Txs PROVE f[t] \in Tasks /\ (Working(f[t]) => t \in announced)
        <3>1. task[Block][t] \in Tasks /\ (Working(task[Block][t]) => t \in announced)
            BY <1>1 DEF Announced
        <3>2. (IF t \in found THEN "read" ELSE "done") \in {"read", "done"}
            OBVIOUS
        <3> HIDE DEF found
        <3>3. QED
            BY <3>1, <3>2 DEF Tasks, Working
    <2>3. f \in [Txs -> Tasks]
        BY <2>2
    <2> HIDE DEF f
    <2>4. QED
        BY <1>2, <2>1, <2>2, <2>3
<1>6. CASE RegisterBlock
    <2>1. UNCHANGED <<node, pushes, buffer, rows, syncing, queue, task, chk>>
        BY <1>6 DEF RegisterBlock
    <2>2. Chain' = Chain
        BY <2>1 DEF Chain, node
    <2>3. QED
        BY <2>1, <2>2 DEF Announced, Alive, Working, node
<1>7. CASE ConfirmBlock
    <2>1. /\ task' = [task EXCEPT ![Block] = NoTasks]
          /\ UNCHANGED <<node, pushes, buffer, rows, syncing, queue, chk>>
        BY <1>7 DEF ConfirmBlock
    <2>2. NoTasks \in [Txs -> Tasks] /\ \A t \in Txs : ~Working(NoTasks[t])
        BY <1>3, TaskTypes DEF NoTasks
    <2>3. QED
        BY <1>2, <2>1, <2>2
<1>8. ASSUME NEW t \in Txs, CheckStep(Block, t) PROVE Announced'
    BY <1>1, <1>8, CheckAnnounced
<1>9. QED
    BY <1>4, <1>5, <1>6, <1>7, <1>8 DEF BlockStep

LEMMA UnconfirmedAnnounced ==
    ASSUME TypeInv, Announced, UnconfirmedStep
    PROVE  Announced'
<1>1. task \in [Jobs -> [Txs -> Tasks]] /\ chk \in [missing : SUBSET Txs, found : SUBSET Txs]
    BY DEF TypeInv, TypeOK
<1>2. ASSUME UNCHANGED <<node, pushes, buffer, syncing, queue>>, rows' \subseteq rows,
             \A j \in Jobs, t \in Txs : Working(task'[j][t]) => Working(task[j][t]),
             chk'.missing \subseteq announced \ Alive
      PROVE  Announced'
    <2>1. Chain' = Chain
        BY <1>2 DEF Chain, node
    <2>2. \A j \in Jobs, t \in Txs : Working(task'[j][t]) => t \in announced
        BY <1>2 DEF Announced
    <2>3. QED
        BY <1>2, <2>1, <2>2 DEF Announced, Alive, Working, node
<1>3. CASE CheckUnconfirmed
    <2>1. /\ chk'.missing = Unconfirmed \ Alive
          /\ UNCHANGED <<node, pushes, buffer, db, syncing, queue, task>>
        BY <1>3 DEF CheckUnconfirmed
    <2>2. QED
        BY <1>2, <2>1 DEF Announced, Unconfirmed, db
<1>4. ASSUME NEW t \in Txs, DeleteMissing(t) PROVE Announced'
    <2>1. /\ chk' = [chk EXCEPT !.missing = @ \ {t}] /\ rows' = rows \ {t}
          /\ task' = Purged(task, {t}) /\ UNCHANGED <<node, pushes, buffer, syncing, queue>>
        BY <1>4 DEF DeleteMissing, DeleteTransactions
    <2>2. ASSUME NEW j \in Jobs, NEW s \in Txs, Working(task'[j][s]) PROVE Working(task[j][s])
        <3>1. Agrees(task'[j][s], task[j][s], s \in {t})
            BY <1>1, <2>1, PurgedAgrees
        <3>2. QED
            BY <2>2, <3>1 DEF Agrees, Working
    <2>3. chk'.missing \subseteq announced \ Alive
        BY <1>1, <2>1 DEF Announced
    <2>4. QED
        BY <1>2, <2>1, <2>2, <2>3
<1>5. ASSUME NEW t \in Txs, ConfirmFound(t) PROVE Announced'
    <2>1. /\ chk' = [chk EXCEPT !.found = @ \ {t}]
          /\ UNCHANGED <<node, pushes, buffer, rows, syncing, queue, task>>
        BY <1>5 DEF ConfirmFound
    <2>2. chk'.missing \subseteq announced \ Alive
        BY <1>1, <2>1 DEF Announced
    <2>3. QED
        BY <1>2, <2>1, <2>2
<1>6. QED
    BY <1>3, <1>4, <1>5 DEF UnconfirmedStep

LEMMA MempoolAnnounced ==
    ASSUME TypeInv, Announced, MempoolStep
    PROVE  Announced'
<1>1. /\ buffer \in Seq(Txs) /\ mempool \subseteq announced /\ syncing \subseteq announced
      /\ Range(buffer) \subseteq announced
    BY DEF TypeInv, TypeOK, Announced
<1>2. ASSUME UNCHANGED <<node, pushes, rows, queue, task, chk>>, syncing' \subseteq announced,
             Range(buffer') \subseteq announced
      PROVE  Announced'
    <2>1. Chain' = Chain
        BY <1>2 DEF Chain, node
    <2>2. QED
        BY <1>2, <2>1 DEF Announced, Alive, Working, node
<1>3. CASE StartMempool \/ Activate \/ SyncMempool
    BY <1>1, <1>2, <1>3 DEF StartMempool, Activate, SyncMempool, db
<1>4. ASSUME NEW t \in Txs, SyncTx(t) PROVE Announced'
    <2>1. /\ t \in syncing /\ syncing' = syncing \ {t} /\ buffer' \in {buffer, Append(buffer, t)}
          /\ UNCHANGED <<node, pushes, rows, queue, task, chk>>
        BY <1>4 DEF SyncTx, db
    <2>2. Append(buffer, t) = buffer \o <<t>> /\ <<t>> \in Seq(Txs)
        BY <1>1
    <2>3. Range(Append(buffer, t)) = Range(buffer) \cup {t}
        <3>1. Range(buffer \o <<t>>) = Range(buffer) \cup Range(<<t>>)
            BY <1>1, <2>2, RangeOfJoin
        <3>2. QED
            BY <2>2, <3>1, RangeOfOne
    <2>4. QED
        BY <1>1, <1>2, <2>1, <2>3
<1>5. QED
    BY <1>3, <1>4 DEF MempoolStep

LEMMA NextAnnounced == TypeInv /\ Announced /\ [Next]_vars => Announced'
<1> SUFFICES ASSUME TypeInv, Announced, [Next]_vars PROVE Announced'
    OBVIOUS
<1>1. CASE UNCHANGED vars
    <2>1. Chain' = Chain
        BY <1>1 DEF vars, Chain
    <2>2. QED
        BY <1>1, <2>1 DEF vars, Announced, Alive, Working
<1>2. CASE Environment
    BY <1>2, NodeAnnounced, DeathAnnounced DEF Environment, Crash
<1>3. CASE MempoolStep
    BY <1>3, MempoolAnnounced
<1>4. CASE BlockStep
    BY <1>4, BlockAnnounced
<1>5. CASE UnconfirmedStep
    BY <1>5, UnconfirmedAnnounced
<1>6. CASE \E w \in Checkers : CheckerStep(w)
    BY <1>6, CheckerAnnounced
<1>7. QED
    BY <1>1, <1>2, <1>3, <1>4, <1>5, <1>6 DEF Next

-----------------------------------------------------------------------------
(* A transaction without a rival is whole *)

LEMMA KnownIs == \A o \in KnownFromStart : \E g \in Genesis : o \in Pays[g] /\ Creator(o) = g
<1>1. Genesis \subseteq Txs
    BY TransactionsAssumption
<1>2. QED
    BY <1>1, CreatorIs DEF KnownFromStart

LEMMA AloneStays ==
    ASSUME announced \subseteq announced', NEW t, Alone(t)'
    PROVE  Alone(t)
BY DEF Alone

\* What stays when ts is deleted, none of which is there from the start
LEMMA OthersStay ==
    ASSUME StartStays, NEW ts \in SUBSET Txs, Genesis \cap ts = {},
           \A s \in Txs \ ts : Pays[s] \cap outputs \subseteq outputs',
           \A i \in inputs : i[1] \notin ts /\ Creator(i[2]) \notin ts => i \in inputs'
    PROVE  /\ KnownFromStart \subseteq outputs'
           /\ \A x \in Txs \ ts : Pays[x] \subseteq outputs => Pays[x] \subseteq outputs'
           /\ \A x \in Txs \ ts : {x} \X (Spends[x] \cap KnownFromStart) \subseteq inputs
                => {x} \X (Spends[x] \cap KnownFromStart) \subseteq inputs'
<1>1. KnownFromStart \subseteq outputs'
    <2>1. ASSUME NEW o \in KnownFromStart PROVE o \in outputs'
        <3>1. PICK g \in Genesis : o \in Pays[g]
            BY KnownIs
        <3>2. g \in Txs \ ts
            BY TransactionsAssumption
        <3>3. QED
            BY <3>1, <3>2 DEF StartStays
    <2>2. QED
        BY <2>1
<1>2. \A x \in Txs \ ts : Pays[x] \subseteq outputs => Pays[x] \subseteq outputs'
    OBVIOUS
<1>3. ASSUME NEW x \in Txs \ ts, {x} \X (Spends[x] \cap KnownFromStart) \subseteq inputs
      PROVE  {x} \X (Spends[x] \cap KnownFromStart) \subseteq inputs'
    <2>1. ASSUME NEW o \in Spends[x] \cap KnownFromStart PROVE <<x, o>> \in inputs'
        <3>1. Creator(o) \in Genesis
            BY KnownIs
        <3>2. <<x, o>> \in inputs /\ Creator(o) \notin ts
            BY <1>3, <3>1
        <3>3. QED
            BY <3>2
    <2>2. QED
        BY <2>1
<1>4. QED
    BY <1>1, <1>2, <1>3

\* A step that leaves the tracker alone, and of what it adds to the node, nothing is a rival
\* of the transactions of the start
LEMMA QuietStep ==
    ASSUME CompleteInv, UNCHANGED <<db, cache, queue, task, blk>>, announced \subseteq announced',
           \A h \in 1 .. Len(mined) : mined'[h] = mined[h],
           Genesis \subseteq Chain', \A g \in Genesis : Alone(g)'
    PROVE  StartStays' /\ CacheRight' /\ HeadsRight' /\ BlockRight' /\ BlockOwns' /\ AloneIsComplete'
<1>1. /\ TypeInv /\ StartStays /\ CacheRight /\ HeadsRight /\ BlockRight /\ BlockOwns /\ AloneIsComplete
    BY DEF CompleteInv
<1>2. /\ height \in 1 .. Len(mined) /\ Len(mined) \in Nat
      /\ blk.step \in {"filter", "run"} => height < Len(mined)
    BY <1>1 DEF TypeInv, TypeOK, BlockAhead
<1>3. \A t : Alone(t)' => Alone(t)
    BY AloneStays
<1>4. StartStays'
    BY <1>1 DEF StartStays, db
<1>5. CacheRight' /\ HeadsRight'
    BY <1>1 DEF CacheRight, HeadsRight, Indifferent
<1>6. mined'[height] = mined[height] /\ (blk.step \in {"filter", "run"} => mined'[height + 1] = mined[height + 1])
    BY <1>2
<1>7. BlockRight'
    <2>1. ASSUME blk.step \in {"filter", "run"}, NEW t \in mined'[height + 1], Alone(t)'
          PROVE  HalvesRight(t, task[Block][t], outputs, inputs)
        BY <1>1, <1>3, <1>6, <2>1 DEF BlockRight
    <2>2. ASSUME blk.step = "filter", NEW t \in mined'[height + 1], task[Block][t].in = "wait"
          PROVE  t \in blk.seen \cup blk.unseen
        BY <1>1, <1>6, <2>2 DEF BlockRight
    <2>3. QED
        BY <2>1, <2>2 DEF BlockRight, HalvesRight, db
<1>8. BlockOwns'
    BY <1>1, <1>6 DEF BlockOwns, Working, db
<1>9. AloneIsComplete'
    BY <1>1, <1>2, <1>3 DEF AloneIsComplete, db
<1>10. QED
    BY <1>4, <1>5, <1>7, <1>8, <1>9

LEMMA InitComplete == Init => CompleteInv
<1> SUFFICES ASSUME Init PROVE CompleteInv
    OBVIOUS
<1>1. TypeInv /\ Announced
    BY TypeInit, InitAnnounced
<1>2. /\ mined = <<Genesis>> /\ announced = Genesis /\ height = 1 /\ confirmed = Genesis
      /\ outputs = KnownFromStart /\ inputs = UNION {{t} \X Spends[t] : t \in Genesis}
      /\ cache = [t \in Txs |-> "unknown"] /\ queue = [w \in Checkers |-> <<>>]
      /\ task = [j \in Jobs |-> NoTasks] /\ blk.step = "off"
    BY DEF Init, KnownFromStart, BlkOff
<1>3. StartStays
    <2>1. Chain = Genesis
        BY <1>2, RangeOfOne DEF Chain
    <2>2. \A g \in Genesis : Alone(g)
        BY <1>2, TransactionsAssumption DEF Alone
    <2>3. QED
        BY <1>2, <2>1, <2>2 DEF StartStays
<1>4. CacheRight /\ HeadsRight /\ BlockRight
    BY <1>2 DEF CacheRight, HeadsRight, BlockRight
<1>5. BlockOwns
    BY <1>2 DEF BlockOwns, Working, NoTasks, NoTask, Jobs
<1>6. AloneIsComplete
    <2>1. \A t \in Genesis : Pays[t] \subseteq outputs /\ {t} \X (Spends[t] \cap KnownFromStart) \subseteq inputs
        BY <1>2 DEF KnownFromStart
    <2>2. QED
        BY <1>2, <2>1 DEF AloneIsComplete
<1>7. QED
    BY <1>1, <1>3, <1>4, <1>5, <1>6 DEF CompleteInv

\* Conflict is mutual.
LEMMA Mutual == \A s, t : Conflict(s, t) => Conflict(t, s)
BY DEF Conflict

LEMMA NodeComplete ==
    ASSUME CompleteInv, \/ \E t \in Txs : Accept(t) \/ Evict(t) \/ LosePush(t)
                        \/ \E ts \in SUBSET Txs : Mine(ts)
                        \/ MempoolStep
    PROVE  StartStays' /\ CacheRight' /\ HeadsRight' /\ BlockRight' /\ BlockOwns' /\ AloneIsComplete'
<1>1. StartStays /\ mined \in Seq(SUBSET Txs) /\ Genesis \subseteq Chain
    BY DEF CompleteInv, StartStays, TypeInv, TypeOK
<1>2. ASSUME NEW ts, announced' = announced \cup ts, \A s \in Chain, t \in ts : ~Conflict(s, t)
      PROVE  \A g \in Genesis : Alone(g)'
    BY <1>1, <1>2, Mutual DEF StartStays, Alone
<1>3. ASSUME NEW t \in Txs, Accept(t)
      PROVE  StartStays' /\ CacheRight' /\ HeadsRight' /\ BlockRight' /\ BlockOwns' /\ AloneIsComplete'
    <2>1. /\ announced' = announced \cup {t} /\ \A s \in Chain : ~Conflict(s, t)
          /\ UNCHANGED <<db, cache, queue, task, blk, mined>>
        BY <1>3 DEF Accept
    <2>2. \A g \in Genesis : Alone(g)'
        BY <1>1, <2>1, Mutual DEF StartStays, Alone
    <2>3. Chain' = Chain
        BY <2>1 DEF Chain
    <2>4. QED
        BY <1>1, <2>1, <2>2, <2>3, QuietStep
<1>4. ASSUME NEW ts \in SUBSET Txs, Mine(ts)
      PROVE  StartStays' /\ CacheRight' /\ HeadsRight' /\ BlockRight' /\ BlockOwns' /\ AloneIsComplete'
    <2>1. /\ announced' = announced \cup ts /\ \A s \in Chain, t \in ts : ~Conflict(s, t)
          /\ mined' = Append(mined, ts) /\ UNCHANGED <<db, cache, queue, task, blk>>
        BY <1>4 DEF Mine
    <2>2. \A g \in Genesis : Alone(g)'
        BY <1>2, <2>1
    <2>3. Chain' = Chain \cup ts /\ \A h \in 1 .. Len(mined) : mined'[h] = mined[h]
        BY <1>1, <2>1, ChainGrows
    <2>4. QED
        BY <1>1, <2>1, <2>2, <2>3, QuietStep
<1>5. ASSUME UNCHANGED <<announced, mined, db, cache, queue, task, blk>>
      PROVE  StartStays' /\ CacheRight' /\ HeadsRight' /\ BlockRight' /\ BlockOwns' /\ AloneIsComplete'
    <2>1. Chain' = Chain /\ \A g \in Genesis : Alone(g)'
        BY <1>1, <1>5 DEF Chain, StartStays, Alone
    <2>2. QED
        BY <1>1, <1>5, <2>1, QuietStep
<1>6. ASSUME NEW t \in Txs, Evict(t) \/ LosePush(t)
      PROVE  UNCHANGED <<announced, mined, db, cache, queue, task, blk>>
    BY <1>6 DEF Evict, LosePush, node
<1>7. ASSUME MempoolStep
      PROVE  UNCHANGED <<announced, mined, db, cache, queue, task, blk>>
    BY <1>7 DEF MempoolStep, StartMempool, Activate, SyncMempool, SyncTx, node
<1>8. QED
    BY <1>3, <1>4, <1>5, <1>6, <1>7

LEMMA DeathComplete ==
    ASSUME CompleteInv, Dies, UNCHANGED <<node, db>>
    PROVE  StartStays' /\ CacheRight' /\ HeadsRight' /\ BlockRight' /\ BlockOwns' /\ AloneIsComplete'
<1>1. StartStays /\ AloneIsComplete
    BY DEF CompleteInv
<1>2. /\ cache' = [t \in Txs |-> "unknown"] /\ queue' = [w \in Checkers |-> <<>>]
      /\ task' = [j \in Jobs |-> NoTasks] /\ blk'.step = "off"
    BY DEF Dies, BlkOff
<1>3. Chain' = Chain /\ announced' = announced /\ mined' = mined
    BY DEF Chain, node
<1>4. StartStays'
    BY <1>1, <1>3 DEF StartStays, Alone, db
<1>5. CacheRight' /\ HeadsRight' /\ BlockRight'
    BY <1>2 DEF CacheRight, HeadsRight, BlockRight
<1>6. BlockOwns'
    BY <1>2 DEF BlockOwns, Working, NoTasks, NoTask, Jobs
<1>7. AloneIsComplete'
    BY <1>1, <1>3 DEF AloneIsComplete, Alone, db
<1>8. QED
    BY <1>4, <1>5, <1>6, <1>7

LEMMA CheckComplete ==
    ASSUME CompleteInv, NEW j \in Jobs, NEW t \in Txs, CheckStep(j, t)
    PROVE  StartStays' /\ CacheRight' /\ HeadsRight' /\ BlockRight' /\ BlockOwns' /\ AloneIsComplete'
<1>1. /\ TypeInv /\ StartStays /\ CacheRight /\ HeadsRight /\ BlockRight /\ BlockOwns /\ AloneIsComplete
      /\ Announced
    BY DEF CompleteInv
<1>2. /\ task \in [Jobs -> [Txs -> Tasks]] /\ queue \in [Checkers -> Seq(Txs)]
      /\ mined \in Seq(SUBSET Txs) /\ height \in 1 .. Len(mined) /\ Len(mined) \in Nat
      /\ blk.step \in {"filter", "run"} => height < Len(mined)
    BY <1>1 DEF TypeInv, TypeOK, BlockAhead
<1>3. CASE Dies /\ UNCHANGED <<node, db, crashes>>
    BY <1>3, DeathComplete
<1>4. ASSUME NEW new \in Tasks, NEW ts \in SUBSET Txs, Effect(j, t, new, ts)
      PROVE  StartStays' /\ CacheRight' /\ HeadsRight' /\ BlockRight' /\ BlockOwns' /\ AloneIsComplete'
    <2> DEFINE k == task[j][t]
    <2>1. /\ Working(k) /\ Moves(t, k, new) /\ \A s \in ts : Conflict(s, t)
          /\ UNCHANGED <<mined, announced, height, queue, blk>> /\ confirmed' \subseteq confirmed
          /\ \A s \in Txs : cache'[s] \in {cache[s], "unknown"}
        BY <1>4 DEF Effect, node
    <2>2. ASSUME NEW i \in Jobs, NEW s \in Txs
          PROVE  /\ i = j /\ s = t => Agrees(task'[i][s], Settled(new), s \in ts)
                 /\ ~(i = j /\ s = t) => Agrees(task'[i][s], task[i][s], s \in ts)
        BY <1>4 DEF Effect
    <2>3. t \in announced
        BY <1>1, <2>1 DEF Announced
    <2>4. \A x : Alone(x) => x \notin ts
        BY <2>1, <2>3, Mutual DEF Alone
    <2>5. Genesis \cap ts = {}
        BY <1>1, <2>4 DEF StartStays
    <2>6. /\ KnownFromStart \subseteq outputs'
          /\ \A x \in Txs \ ts : Pays[x] \subseteq outputs => Pays[x] \subseteq outputs'
          /\ \A x \in Txs \ ts : {x} \X (Spends[x] \cap KnownFromStart) \subseteq inputs
               => {x} \X (Spends[x] \cap KnownFromStart) \subseteq inputs'
        <3>1. /\ \A s \in Txs \ ts : Pays[s] \cap outputs \subseteq outputs'
              /\ \A i \in inputs : i[1] \notin ts /\ Creator(i[2]) \notin ts => i \in inputs'
            BY <1>4 DEF Effect
        <3>2. QED
            BY <1>1, <2>5, <3>1, OthersStay
    <2>7. k \in Tasks /\ KnownFromStart \subseteq outputs
        BY <1>1, <1>2 DEF StartStays
    <2>8. /\ Settled(new).in = new.in /\ Settled(new).out = new.out
          /\ Settled(new).broadcast = new.broadcast
          /\ Working(Settled(new)) => Working(new)
          /\ Settled(new).id = "gone" => new.id = "gone"
          /\ new.in \in {"store", "write"} => Settled(new).reads = new.reads
        BY DEF Settled, NoTask, Working, Tasks
    <2>9. StartStays'
        <3>1. Chain' = Chain
            BY <2>1 DEF Chain
        <3>2. QED
            BY <1>1, <2>1, <2>6, <3>1 DEF StartStays, Alone
    <2>10. CacheRight'
        BY <1>1, <2>1 DEF CacheRight, Indifferent
    <2>11. HeadsRight'
        <3>1. ASSUME NEW w \in Checkers, queue[w] # <<>>, task'[w][Head(queue[w])].broadcast = FALSE
              PROVE  /\ Pays[Head(queue[w])] = {}
                     /\ task'[w][Head(queue[w])].in # "read" =>
                          Spends[Head(queue[w])] \cap KnownFromStart = {}
            <4> DEFINE h == Head(queue[w])
            <4>1. w \in Jobs /\ h \in Txs
                BY <1>2, <3>1 DEF Jobs
            <4>2. task[w][h].broadcast = FALSE =>
                    Pays[h] = {} /\ (task[w][h].in # "read" => Spends[h] \cap KnownFromStart = {})
                BY <1>1, <3>1 DEF HeadsRight
            <4> HIDE DEF h
            <4>3. CASE w = j /\ h = t
                <5>1. task'[w][h].broadcast = new.broadcast /\ task'[w][h].in = new.in
                    BY <2>2, <2>8, <4>1, <4>3 DEF Agrees
                <5>2. new.broadcast = FALSE
                    BY <3>1, <5>1 DEF h
                <5>3. k.broadcast = FALSE
                    BY <2>1, <2>7, <5>2 DEF Moves, Tasks
                <5>4. new.in # "read" /\ k.in = "read" => Spends[t] \cap outputs = {}
                    BY <2>1, <5>2 DEF Moves
                <5>5. QED
                    BY <2>7, <4>2, <4>3, <5>1, <5>3, <5>4 DEF h
            <4>4. CASE ~(w = j /\ h = t)
                <5>1. task'[w][h].broadcast = task[w][h].broadcast /\ task'[w][h].in = task[w][h].in
                    BY <2>2, <4>1, <4>4 DEF Agrees
                <5>2. QED
                    BY <3>1, <4>2, <5>1 DEF h
            <4>5. QED
                BY <4>3, <4>4
        <3>2. QED
            BY <2>1, <3>1 DEF HeadsRight
    <2>12. BlockOwns'
        <3>1. ASSUME NEW s \in Txs, Working(task'[Block][s]) \/ task'[Block][s].broadcast = TRUE
              PROVE  Working(task[Block][s]) \/ task[Block][s].broadcast = TRUE
            <4>1. Block \in Jobs
                BY DEF Jobs
            <4>2. CASE Block = j /\ s = t
                BY <2>1, <4>2
            <4>3. CASE ~(Block = j /\ s = t)
                BY <2>2, <3>1, <4>1, <4>3 DEF Agrees, Working
            <4>4. QED
                BY <4>2, <4>3
        <3>2. ASSUME NEW s \in Txs, Working(task'[Block][s]) \/ task'[Block][s].broadcast
              PROVE  Working(task[Block][s]) \/ task[Block][s].broadcast = TRUE
            BY <3>1, <3>2, Zenon
        <3>3. QED
            BY <1>1, <2>1, <3>2 DEF BlockOwns, Working
    <2>13. BlockRight'
        <3>1. ASSUME blk.step \in {"filter", "run"}, NEW x \in mined[height + 1], Alone(x)
              PROVE  HalvesRight(x, task'[Block][x], outputs', inputs')
            <4>1. x \in Txs /\ Block \in Jobs
                BY <1>2, <3>1 DEF Jobs
            <4>2. HalvesRight(x, task[Block][x], outputs, inputs) /\ x \notin ts
                BY <1>1, <2>4, <3>1 DEF BlockRight
            <4>3. CASE Block = j /\ x = t
                <5>1. Agrees(task'[Block][x], Settled(new), FALSE)
                    BY <2>2, <4>1, <4>2, <4>3 DEF Agrees
                <5>2. task'[Block][x].id # "gone"
                    BY <2>1, <2>8, <4>2, <4>3, <5>1 DEF Agrees, Moves, HalvesRight
                <5>3. task'[Block][x].out = "done" => Pays[x] \subseteq outputs'
                    BY <2>1, <2>6, <2>8, <4>1, <4>2, <4>3, <5>1 DEF Agrees, Moves, HalvesRight
                <5>4. task'[Block][x].in \in {"store", "write"} =>
                        Spends[x] \cap KnownFromStart \subseteq task'[Block][x].reads
                    BY <2>1, <2>7, <2>8, <4>2, <4>3, <5>1 DEF Agrees, Moves, HalvesRight
                <5>5. ASSUME task'[Block][x].in \in {"done", "lookup", "delete"}
                      PROVE  {x} \X (Spends[x] \cap KnownFromStart) \subseteq inputs'
                    <6>1. \/ k.in \in {"done", "lookup", "delete"}
                          \/ Spends[x] \cap outputs = {}
                          \/ k.in = "write" /\ {x} \X k.reads \subseteq inputs'
                        BY <2>1, <2>8, <4>3, <5>1, <5>5 DEF Agrees, Moves
                    <6>2. CASE k.in \in {"done", "lookup", "delete"}
                        BY <2>6, <4>1, <4>2, <4>3, <6>2 DEF HalvesRight
                    <6>3. CASE Spends[x] \cap outputs = {}
                        BY <2>7, <6>3
                    <6>4. CASE k.in = "write" /\ {x} \X k.reads \subseteq inputs'
                        BY <4>2, <4>3, <6>4 DEF HalvesRight
                    <6>5. QED
                        BY <6>1, <6>2, <6>3, <6>4
                <5>6. QED
                    BY <5>2, <5>3, <5>4, <5>5 DEF HalvesRight
            <4>4. CASE ~(Block = j /\ x = t)
                <5>1. Agrees(task'[Block][x], task[Block][x], FALSE)
                    BY <2>2, <4>1, <4>2, <4>4 DEF Agrees
                <5>2. QED
                    BY <2>6, <4>1, <4>2, <5>1 DEF Agrees, HalvesRight
            <4>5. QED
                BY <4>3, <4>4
        <3>2. ASSUME blk.step = "filter", NEW x \in mined[height + 1], task'[Block][x].in = "wait"
              PROVE  x \in blk.seen \cup blk.unseen
            <4>1. x \in Txs /\ Block \in Jobs
                BY <1>2, <3>2 DEF Jobs
            <4>2. task[Block][x].in = "wait"
                BY <2>1, <2>2, <2>8, <3>2, <4>1 DEF Agrees, Moves
            <4>3. QED
                BY <1>1, <3>2, <4>2 DEF BlockRight
        <3>3. QED
            BY <2>1, <3>1, <3>2 DEF BlockRight, HalvesRight, Alone
    <2>14. AloneIsComplete'
        <3>1. ASSUME NEW h \in 1 .. height, NEW x \in mined[h], Alone(x)
              PROVE  Pays[x] \subseteq outputs' /\ {x} \X (Spends[x] \cap KnownFromStart) \subseteq inputs'
            <4>1. x \in Txs \ ts
                BY <1>2, <2>4, <3>1
            <4>2. Pays[x] \subseteq outputs /\ {x} \X (Spends[x] \cap KnownFromStart) \subseteq inputs
                BY <1>1, <3>1 DEF AloneIsComplete
            <4>3. QED
                BY <2>6, <4>1, <4>2
        <3>2. \A x \in confirmed' : \E h \in 1 .. height : x \in mined[h]
            BY <1>1, <2>1 DEF AloneIsComplete
        <3>3. QED
            BY <2>1, <3>1, <3>2 DEF AloneIsComplete, Alone
    <2>15. QED
        BY <2>9, <2>10, <2>11, <2>12, <2>13, <2>14
<1>5. QED
    BY <1>1, <1>3, <1>4, CheckEffect

\* A checker takes the next transaction, perhaps with a verdict on the last one.
LEMMA ResumeComplete ==
    ASSUME CompleteInv, NEW w \in Checkers, NEW q \in Seq(Txs), Resume(w, q, cache'),
           cache' \in [Txs -> {"unknown", "yes", "no"}], CacheRight',
           UNCHANGED <<node, db, blk>>
    PROVE  StartStays' /\ CacheRight' /\ HeadsRight' /\ BlockRight' /\ BlockOwns' /\ AloneIsComplete'
<1>1. /\ TypeInv /\ StartStays /\ HeadsRight /\ BlockRight /\ BlockOwns /\ AloneIsComplete
    BY DEF CompleteInv
<1>2. queue \in [Checkers -> Seq(Txs)] /\ task \in [Jobs -> [Txs -> Tasks]]
    BY <1>1 DEF TypeInv, TypeOK
<1>3. /\ queue' \in [Checkers -> Seq(Txs)]
      /\ \A v \in Checkers \ {w} : queue'[v] = queue[v]
      /\ \A j \in Jobs \ {w} : task'[j] = task[j]
      /\ \/ queue'[w] = <<>> /\ task'[w] = NoTasks
         \/ /\ queue'[w] # <<>> /\ Range(queue'[w]) \subseteq Range(q)
            /\ Head(queue'[w]) \in Txs
            /\ task'[w] = [NoTasks EXCEPT ![Head(queue'[w])] = Opened(Head(queue'[w]))]
    BY <1>2, ResumeIs
<1>4. task'[Block] = task[Block]
    BY <1>3, TransactionsAssumption DEF Jobs
<1>5. HeadsRight'
    <2>1. ASSUME NEW v \in Checkers, queue'[v] # <<>>, task'[v][Head(queue'[v])].broadcast = FALSE
          PROVE  /\ Pays[Head(queue'[v])] = {}
                 /\ task'[v][Head(queue'[v])].in # "read" =>
                      Spends[Head(queue'[v])] \cap KnownFromStart = {}
        <3>1. CASE v = w
            <4>1. task'[w][Head(queue'[w])] = Opened(Head(queue'[w]))
                BY <1>3, <2>1, <3>1 DEF NoTasks
            <4> DEFINE h == Head(queue'[w])
            <4>2. task'[w][h].in = "read" /\ task'[w][h].broadcast = (Pays[h] # {})
                BY <4>1 DEF Opened, NoTask
            <4>3. Pays[h] = {}
                BY <2>1, <3>1, <4>2
            <4>4. QED
                BY <3>1, <4>2, <4>3
        <3>2. CASE v # w
            <4>1. queue'[v] = queue[v] /\ task'[v] = task[v]
                BY <1>3, <3>2 DEF Jobs
            <4>2. QED
                BY <1>1, <2>1, <4>1 DEF HeadsRight
        <3>3. QED
            BY <3>1, <3>2
    <2>2. QED
        BY <2>1 DEF HeadsRight
<1>6. StartStays'
    <2>1. Chain' = Chain
        BY DEF Chain, node
    <2>2. QED
        BY <1>1, <2>1 DEF StartStays, Alone, node, db
<1>7. BlockRight' /\ BlockOwns' /\ AloneIsComplete'
    <2>1. BlockRight'
        BY <1>1, <1>4 DEF BlockRight, HalvesRight, Alone, node, db
    <2>2. BlockOwns'
        BY <1>1, <1>4 DEF BlockOwns, Working, node, db
    <2>3. AloneIsComplete'
        BY <1>1 DEF AloneIsComplete, Alone, node, db
    <2>4. QED
        BY <2>1, <2>2, <2>3
<1>8. QED
    BY <1>5, <1>6, <1>7

LEMMA CheckerComplete ==
    ASSUME CompleteInv, NEW w \in Checkers, CheckerStep(w)
    PROVE  StartStays' /\ CacheRight' /\ HeadsRight' /\ BlockRight' /\ BlockOwns' /\ AloneIsComplete'
<1>1. TypeInv /\ CacheRight /\ HeadsRight
    BY DEF CompleteInv
<1>2. /\ queue \in [Checkers -> Seq(Txs)] /\ buffer \in Seq(Txs)
      /\ cache \in [Txs -> {"unknown", "yes", "no"}] /\ task \in [Jobs -> [Txs -> Tasks]]
    BY <1>1 DEF TypeInv, TypeOK
<1>3. UNCHANGED cache => CacheRight'
    BY <1>1 DEF CacheRight, Indifferent
<1>4. CASE ProcessMempool(w)
    <2>1. Resume(w, buffer, cache) /\ UNCHANGED <<node, db, blk, cache>>
        BY <1>4 DEF ProcessMempool
    <2>2. Resume(w, buffer, cache') /\ CacheRight' /\ cache' \in [Txs -> {"unknown", "yes", "no"}]
        BY <1>2, <1>3, <2>1
    <2>3. QED
        BY <1>2, <2>1, <2>2, ResumeComplete
<1>5. ASSUME NEW t \in Txs, OnPushTx(w, t)
      PROVE  StartStays' /\ CacheRight' /\ HeadsRight' /\ BlockRight' /\ BlockOwns' /\ AloneIsComplete'
    <2>1. Resume(w, <<t>>, cache) /\ UNCHANGED <<node, db, blk, cache>>
        BY <1>5 DEF OnPushTx
    <2>2. Resume(w, <<t>>, cache') /\ CacheRight' /\ cache' \in [Txs -> {"unknown", "yes", "no"}]
        BY <1>2, <1>3, <2>1
    <2>3. <<t>> \in Seq(Txs)
        OBVIOUS
    <2>4. QED
        BY <2>1, <2>2, <2>3, ResumeComplete
<1>6. CASE FinishCheck(w)
    <2> DEFINE t == Head(queue[w])
    <2>1. /\ queue[w] # <<>> /\ Resume(w, Tail(queue[w]), cache')
          /\ task[w][t].in = "done" /\ task[w][t].out = "done"
          /\ cache' = [cache EXCEPT ![t] = IF task[w][t].broadcast THEN "yes" ELSE "no"]
          /\ UNCHANGED <<node, db, blk>>
        BY <1>6 DEF FinishCheck
    <2>2. t \in Txs /\ Tail(queue[w]) \in Seq(Txs) /\ w \in Jobs
        BY <1>2, <2>1 DEF Jobs
    <2>3. task[w][t].broadcast = FALSE => Pays[t] = {} /\ Spends[t] \cap KnownFromStart = {}
        BY <1>1, <2>1 DEF HeadsRight
    <2>4. task[w][t].broadcast \in BOOLEAN
        BY <1>2, <2>2 DEF Tasks
    <2> HIDE DEF t
    <2>5. CacheRight'
        BY <1>1, <1>2, <2>1, <2>3, <2>4 DEF CacheRight, Indifferent
    <2>6. cache' \in [Txs -> {"unknown", "yes", "no"}]
        BY <1>2, <2>1
    <2>7. QED
        BY <2>1, <2>2, <2>5, <2>6, ResumeComplete
<1>7. ASSUME NEW t \in Txs, CheckStep(w, t)
      PROVE  StartStays' /\ CacheRight' /\ HeadsRight' /\ BlockRight' /\ BlockOwns' /\ AloneIsComplete'
    BY <1>7, CheckComplete DEF Jobs
<1>8. QED
    BY <1>4, <1>5, <1>6, <1>7 DEF CheckerStep

\* A step of the block that leaves the tables of inputs and outputs alone
LEMMA BlockStays ==
    ASSUME CompleteInv, NEW f \in [Txs -> Tasks], task' = [task EXCEPT ![Block] = f],
           UNCHANGED <<node, outputs, inputs, cache, queue>>
    PROVE  StartStays' /\ CacheRight' /\ HeadsRight' /\ task'[Block] = f
<1>1. TypeInv /\ StartStays /\ CacheRight /\ HeadsRight
    BY DEF CompleteInv
<1>2. task \in [Jobs -> [Txs -> Tasks]] /\ Block \in Jobs /\ Block \notin Checkers
    BY <1>1, TransactionsAssumption DEF TypeInv, TypeOK, Jobs
<1>3. \A w \in Checkers : task'[w] = task[w]
    BY <1>2 DEF Jobs
<1>4. HeadsRight'
    BY <1>1, <1>3 DEF HeadsRight
<1>5. StartStays'
    <2>1. Chain' = Chain
        BY DEF Chain, node
    <2>2. QED
        BY <1>1, <2>1 DEF StartStays, Alone, node
<1>6. CacheRight'
    BY <1>1 DEF CacheRight, Indifferent
<1>7. QED
    BY <1>2, <1>4, <1>5, <1>6

LEMMA BlockComplete ==
    ASSUME CompleteInv, BlockStep
    PROVE  StartStays' /\ CacheRight' /\ HeadsRight' /\ BlockRight' /\ BlockOwns' /\ AloneIsComplete'
<1>1. /\ TypeInv /\ StartStays /\ CacheRight /\ HeadsRight /\ BlockRight /\ BlockOwns /\ AloneIsComplete
    BY DEF CompleteInv
<1>2. /\ task \in [Jobs -> [Txs -> Tasks]] /\ Block \in Jobs /\ mined \in Seq(SUBSET Txs)
      /\ height \in 1 .. Len(mined) /\ Len(mined) \in Nat
      /\ cache \in [Txs -> {"unknown", "yes", "no"}]
    BY <1>1 DEF TypeInv, TypeOK, Jobs
<1>3. UNCHANGED <<node, db>> => AloneIsComplete'
    BY <1>1 DEF AloneIsComplete, Alone, node, db
<1>4. CASE StartBlock
    <2> DEFINE ts == mined[height + 1]
               f == [t \in Txs |-> IF t \in ts /\ cache[t] # "no" THEN [Opened(t) EXCEPT !.in = "wait"]
                                   ELSE NoTask]
    <2>1. /\ height < Len(mined) /\ task' = [task EXCEPT ![Block] = f]
          /\ blk' = [step |-> "filter", seen |-> {t \in ts : cache[t] = "yes"},
                     unseen |-> {t \in ts : cache[t] = "unknown"}]
          /\ UNCHANGED <<node, db, cache, queue>>
        BY <1>4 DEF StartBlock
    <2>2. f \in [Txs -> Tasks]
        BY TaskTypes
    <2>3. ASSUME NEW t \in Txs
          PROVE  /\ t \in ts /\ cache[t] # "no" =>
                      /\ f[t].in = "wait" /\ f[t].id = "null"
                      /\ f[t].out = "done" => Pays[t] = {}
                 /\ ~(t \in ts /\ cache[t] # "no") => f[t] = NoTask
        <3>1. /\ t \in ts /\ cache[t] # "no" => f[t] = [Opened(t) EXCEPT !.in = "wait"]
              /\ ~(t \in ts /\ cache[t] # "no") => f[t] = NoTask
            OBVIOUS
        <3> DEFINE k == [Opened(t) EXCEPT !.in = "wait"]
        <3>2. k.in = "wait" /\ k.id = "null" /\ (k.out = "done" => Pays[t] = {})
            BY DEF Opened, NoTask
        <3> HIDE DEF k, f
        <3>3. QED
            BY <3>1, <3>2 DEF k
    <2>4. ts \subseteq Txs
        BY <1>2, <2>1
    <2> HIDE DEF f
    <2>5. StartStays' /\ CacheRight' /\ HeadsRight' /\ task'[Block] = f
        BY <2>1, <2>2, BlockStays DEF db
    <2>6. ASSUME NEW t \in ts PROVE HalvesRight(t, f[t], outputs, inputs)
        <3>0. t \in Txs
            BY <2>4
        <3>1. CASE cache[t] # "no"
            <4>1. f[t].in = "wait" /\ f[t].id = "null" /\ (f[t].out = "done" => Pays[t] = {})
                BY <2>3, <3>0, <3>1
            <4>2. QED
                BY <4>1 DEF HalvesRight
        <3>2. CASE cache[t] = "no"
            <4>1. Pays[t] = {} /\ Spends[t] \cap KnownFromStart = {}
                BY <1>1, <2>4, <3>2 DEF CacheRight, Indifferent
            <4>2. f[t] = NoTask
                BY <2>3, <3>0, <3>2
            <4>3. QED
                BY <4>1, <4>2 DEF HalvesRight, NoTask
        <3>3. QED
            BY <3>1, <3>2
    <2>7. BlockRight'
        <3>1. ASSUME NEW t \in ts, f[t].in = "wait" PROVE cache[t] \in {"yes", "unknown"}
            <4>1. t \in Txs /\ NoTask.in = "done"
                BY <2>4 DEF NoTask
            <4>2. cache[t] # "no"
                BY <2>3, <3>1, <4>1
            <4>3. QED
                BY <1>2, <4>1, <4>2
        <3>2. blk'.step = "filter" /\ \A t \in ts : f[t].in = "wait" => t \in blk'.seen \cup blk'.unseen
            BY <2>1, <3>1
        <3>3. mined'[height' + 1] = ts /\ outputs' = outputs /\ inputs' = inputs
            BY <2>1 DEF node, db
        <3> HIDE DEF ts
        <3>4. QED
            BY <2>5, <2>6, <3>2, <3>3 DEF BlockRight, HalvesRight
    <2>8. BlockOwns'
        <3>1. ASSUME NEW t \in Txs, Working(f[t]) \/ f[t].broadcast PROVE t \in ts
            <4>1. ~Working(NoTask) /\ ~NoTask.broadcast
                BY DEF Working, NoTask
            <4>2. f[t] # NoTask
                BY <3>1, <4>1
            <4>3. QED
                BY <2>3, <4>2
        <3>2. mined'[height' + 1] = ts /\ blk'.step = "filter"
            BY <2>1 DEF node, db
        <3> HIDE DEF ts
        <3>3. QED
            BY <2>5, <3>1, <3>2 DEF BlockOwns, Working
    <2>9. QED
        BY <1>3, <2>1, <2>5, <2>7, <2>8
<1>5. CASE FilterInputs
    <2> DEFINE found == blk.seen \cup {t \in blk.unseen : Spends[t] \cap outputs # {}}
               f == [t \in Txs |-> IF task[Block][t].in # "wait" THEN task[Block][t]
                                   ELSE [task[Block][t] EXCEPT !.in = IF t \in found THEN "read"
                                                                      ELSE "done"]]
    <2>1. /\ blk.step = "filter" /\ blk'.step = "run" /\ task' = [task EXCEPT ![Block] = f]
          /\ UNCHANGED <<node, db, cache, queue>>
        BY <1>5 DEF FilterInputs, BlkOff
    <2>2. ASSUME NEW t \in Txs
          PROVE  /\ f[t] \in Tasks
                 /\ task[Block][t].in # "wait" => f[t] = task[Block][t]
                 /\ task[Block][t].in = "wait" =>
                      /\ f[t].in = (IF t \in found THEN "read" ELSE "done")
                      /\ f[t].out = task[Block][t].out /\ f[t].id = task[Block][t].id
                      /\ f[t].broadcast = task[Block][t].broadcast
        <3>1. task[Block][t] \in Tasks /\ (IF t \in found THEN "read" ELSE "done") \in {"read", "done"}
            BY <1>2
        <3> HIDE DEF found
        <3>2. QED
            BY <3>1 DEF Tasks
    <2>3. f \in [Txs -> Tasks]
        BY <2>2
    <2> HIDE DEF f
    <2>4. StartStays' /\ CacheRight' /\ HeadsRight' /\ task'[Block] = f
        BY <2>1, <2>3, BlockStays DEF db
    <2>5. /\ mined'[height' + 1] = mined[height + 1] /\ outputs' = outputs /\ inputs' = inputs
          /\ announced' = announced /\ mined[height + 1] \subseteq Txs
        BY <1>1, <1>2, <2>1 DEF node, db, TypeInv, BlockAhead
    <2>6. ASSUME NEW t \in mined[height + 1], Alone(t) PROVE HalvesRight(t, f[t], outputs, inputs)
        <3>1. HalvesRight(t, task[Block][t], outputs, inputs) /\ t \in Txs
            BY <1>1, <2>1, <2>5, <2>6 DEF BlockRight
        <3>2. CASE task[Block][t].in # "wait"
            BY <2>2, <3>1, <3>2
        <3>3. CASE task[Block][t].in = "wait"
            <4>1. t \in found \/ Spends[t] \cap KnownFromStart = {}
                BY <1>1, <2>1, <3>3 DEF BlockRight, StartStays
            <4> HIDE DEF found
            <4>2. QED
                BY <2>2, <3>1, <3>3, <4>1 DEF HalvesRight
        <3>4. QED
            BY <3>2, <3>3
    <2>7. BlockRight'
        BY <2>1, <2>4, <2>5, <2>6 DEF BlockRight, HalvesRight, Alone
    <2>8. BlockOwns'
        <3>1. ASSUME NEW t \in Txs, Working(f[t]) \/ f[t].broadcast PROVE t \in mined[height + 1]
            <4>1. CASE Working(f[t])
                <5>1. Working(task[Block][t])
                    BY <2>2, <4>1 DEF Working
                <5>2. QED
                    BY <1>1, <2>1, <5>1 DEF BlockOwns
            <4>2. CASE f[t].broadcast
                <5>1. f[t].broadcast = task[Block][t].broadcast
                    BY <2>2
                <5>2. task[Block][t].broadcast
                    BY <4>2, <5>1, Zenon
                <5>3. QED
                    BY <1>1, <2>1, <5>2 DEF BlockOwns
            <4>3. QED
                BY <3>1, <4>1, <4>2
        <3>2. QED
            BY <2>1, <2>4, <2>5, <3>1 DEF BlockOwns, Working
    <2>9. QED
        BY <1>3, <2>1, <2>4, <2>7, <2>8
<1>6. CASE RegisterBlock
    <2>1. /\ blk.step = "run" /\ height' = height + 1 /\ blk'.step = "confirm"
          /\ \A t \in Txs : task[Block][t].in = "done" /\ task[Block][t].out = "done"
          /\ UNCHANGED <<node, confirmed, outputs, inputs, cache, queue, task>>
        <3>1. blk \in [step : {"off", "filter", "run", "confirm"}, seen : SUBSET Txs, unseen : SUBSET Txs]
            BY <1>1 DEF TypeInv, TypeOK
        <3>2. QED
            BY <1>6, <3>1 DEF RegisterBlock
    <2>2. height + 1 \in 1 .. Len(mined) /\ mined[height + 1] \subseteq Txs
        BY <1>1, <1>2, <2>1 DEF TypeInv, BlockAhead
    <2>3. StartStays'
        <3>1. Chain' = Chain
            BY <2>1 DEF Chain, node
        <3>2. QED
            BY <1>1, <2>1, <3>1 DEF StartStays, Alone, node
    <2>4. CacheRight' /\ HeadsRight' /\ BlockRight'
        BY <1>1, <2>1 DEF CacheRight, Indifferent, HeadsRight, BlockRight
    <2>5. BlockOwns'
        BY <1>1, <2>1 DEF BlockOwns, Working, node
    <2>6. AloneIsComplete'
        <3>1. ASSUME NEW t \in mined[height + 1], Alone(t)
              PROVE  Pays[t] \subseteq outputs /\ {t} \X (Spends[t] \cap KnownFromStart) \subseteq inputs
            BY <1>1, <2>1, <2>2, <3>1 DEF BlockRight, HalvesRight
        <3>2. ASSUME NEW h \in 1 .. height + 1, NEW t \in mined[h], Alone(t)
              PROVE  Pays[t] \subseteq outputs /\ {t} \X (Spends[t] \cap KnownFromStart) \subseteq inputs
            <4>1. CASE h = height + 1
                BY <3>1, <3>2, <4>1
            <4>2. CASE h # height + 1
                <5>1. h \in 1 .. height
                    BY <1>2, <4>2
                <5>2. QED
                    BY <1>1, <3>2, <5>1 DEF AloneIsComplete
            <4>3. QED
                BY <4>1, <4>2
        <3>3. 1 .. height \subseteq 1 .. height + 1
            BY <1>2
        <3>4. \A t \in confirmed : \E h \in 1 .. height + 1 : t \in mined[h]
            BY <1>1, <3>3 DEF AloneIsComplete
        <3>5. QED
            BY <2>1, <3>2, <3>4 DEF AloneIsComplete, Alone, node
    <2>7. QED
        BY <2>3, <2>4, <2>5, <2>6
<1>7. CASE ConfirmBlock
    <2>1. /\ blk.step = "confirm" /\ blk'.step = "off"
          /\ confirmed' = confirmed \cup {t \in rows : task[Block][t].broadcast}
          /\ task' = [task EXCEPT ![Block] = NoTasks]
          /\ UNCHANGED <<node, outputs, inputs, height, cache, queue>>
        BY <1>7 DEF ConfirmBlock, BlkOff
    <2>2. NoTasks \in [Txs -> Tasks]
        BY TaskTypes
    <2>3. StartStays' /\ CacheRight' /\ HeadsRight' /\ task'[Block] = NoTasks
        BY <2>1, <2>2, BlockStays
    <2>4. BlockRight' /\ BlockOwns'
        <3>1. BlockRight'
            BY <2>1 DEF BlockRight
        <3>2. \A t \in Txs : ~Working(NoTasks[t]) /\ ~NoTasks[t].broadcast
            BY DEF NoTasks, NoTask, Working
        <3>3. QED
            BY <2>3, <3>1, <3>2 DEF BlockOwns, Working
    <2>5. AloneIsComplete'
        <3>1. ASSUME NEW t \in rows, task[Block][t].broadcast PROVE t \in mined[height]
            <4>1. t \in Txs
                BY <1>1 DEF TypeInv, TypeOK
            <4>2. QED
                BY <1>1, <2>1, <3>1, <4>1 DEF BlockOwns
        <3>2. \A t \in confirmed' : \E h \in 1 .. height : t \in mined[h]
            BY <1>1, <1>2, <2>1, <3>1 DEF AloneIsComplete
        <3>3. QED
            BY <1>1, <2>1, <3>2 DEF AloneIsComplete, Alone, node
    <2>6. QED
        BY <2>3, <2>4, <2>5
<1>8. ASSUME NEW t \in Txs, CheckStep(Block, t)
      PROVE  StartStays' /\ CacheRight' /\ HeadsRight' /\ BlockRight' /\ BlockOwns' /\ AloneIsComplete'
    BY <1>2, <1>8, CheckComplete
<1>9. QED
    BY <1>4, <1>5, <1>6, <1>7, <1>8 DEF BlockStep

LEMMA UnconfirmedComplete ==
    ASSUME CompleteInv, UnconfirmedStep
    PROVE  StartStays' /\ CacheRight' /\ HeadsRight' /\ BlockRight' /\ BlockOwns' /\ AloneIsComplete'
<1>1. /\ TypeInv /\ StartStays /\ CacheRight /\ HeadsRight /\ BlockRight /\ BlockOwns /\ AloneIsComplete
      /\ Announced
    BY DEF CompleteInv
<1>2. /\ task \in [Jobs -> [Txs -> Tasks]] /\ Block \in Jobs /\ queue \in [Checkers -> Seq(Txs)]
      /\ mined \in Seq(SUBSET Txs) /\ height \in 1 .. Len(mined) /\ Len(mined) \in Nat
      /\ blk.step \in {"filter", "run"} => height < Len(mined)
    BY <1>1 DEF TypeInv, TypeOK, Jobs, BlockAhead
<1>3. CASE CheckUnconfirmed
    <2>1. /\ cache' = [t \in Txs |-> IF t \in chk'.missing THEN "unknown" ELSE cache[t]]
          /\ UNCHANGED <<node, db, queue, task, blk>>
        BY <1>3 DEF CheckUnconfirmed
    <2>2. CacheRight'
        BY <1>1, <2>1 DEF CacheRight, Indifferent
    <2>3. StartStays'
        <3>1. Chain' = Chain
            BY <2>1 DEF Chain, node
        <3>2. QED
            BY <1>1, <2>1, <3>1 DEF StartStays, Alone, node, db
    <2>4. HeadsRight' /\ BlockRight'
        BY <1>1, <2>1 DEF HeadsRight, BlockRight, HalvesRight, Alone, node, db
    <2>5. BlockOwns' /\ AloneIsComplete'
        BY <1>1, <2>1 DEF BlockOwns, Working, AloneIsComplete, Alone, node, db
    <2>6. QED
        BY <2>2, <2>3, <2>4, <2>5
<1>4. ASSUME NEW t \in Txs, DeleteMissing(t)
      PROVE  StartStays' /\ CacheRight' /\ HeadsRight' /\ BlockRight' /\ BlockOwns' /\ AloneIsComplete'
    <2>1. /\ t \in chk.missing /\ task' = Purged(task, {t}) /\ confirmed' = confirmed \ {t}
          /\ outputs' = outputs \ UNION {Pays[s] : s \in {t}}
          /\ inputs' = {i \in inputs : i[1] \notin {t} /\ Creator(i[2]) \notin {t}}
          /\ UNCHANGED <<node, height, cache, queue, blk>>
        BY <1>4 DEF DeleteMissing, DeleteTransactions
    <2>2. t \notin Chain
        BY <1>1, <2>1 DEF Announced, Alive
    <2>3. Genesis \cap {t} = {}
        BY <1>1, <2>2 DEF StartStays
    <2>4. \A h \in 1 .. Len(mined) : t \notin mined[h]
        BY <1>2, <2>2, ChainIs
    <2>5. /\ KnownFromStart \subseteq outputs'
          /\ \A x \in Txs \ {t} : Pays[x] \subseteq outputs => Pays[x] \subseteq outputs'
          /\ \A x \in Txs \ {t} : {x} \X (Spends[x] \cap KnownFromStart) \subseteq inputs
               => {x} \X (Spends[x] \cap KnownFromStart) \subseteq inputs'
        <3>1. ASSUME NEW s \in Txs \ {t} PROVE Pays[s] \cap outputs \subseteq outputs'
            <4>1. ASSUME NEW o \in Pays[s] PROVE o \notin Pays[t]
                BY <4>1, CreatorIs
            <4>2. QED
                BY <2>1, <4>1
        <3>2. \A i \in inputs : i[1] \notin {t} /\ Creator(i[2]) \notin {t} => i \in inputs'
            BY <2>1
        <3>3. {t} \in SUBSET Txs
            OBVIOUS
        <3> DEFINE gone == {t}
        <3>4. /\ StartStays /\ gone \in SUBSET Txs /\ Genesis \cap gone = {}
              /\ \A s \in Txs \ gone : Pays[s] \cap outputs \subseteq outputs'
              /\ \A i \in inputs : i[1] \notin gone /\ Creator(i[2]) \notin gone => i \in inputs'
            BY <1>1, <2>3, <3>1, <3>2, <3>3
        <3> HIDE DEF gone
        <3>5. /\ KnownFromStart \subseteq outputs'
              /\ \A x \in Txs \ gone : Pays[x] \subseteq outputs => Pays[x] \subseteq outputs'
              /\ \A x \in Txs \ gone : {x} \X (Spends[x] \cap KnownFromStart) \subseteq inputs
                   => {x} \X (Spends[x] \cap KnownFromStart) \subseteq inputs'
            BY <3>4, OthersStay
        <3>6. QED
            BY <3>5 DEF gone
    <2>6. \A j \in Jobs, s \in Txs : Agrees(task'[j][s], task[j][s], s \in {t})
        BY <1>2, <2>1, PurgedAgrees
    <2>7. StartStays' /\ CacheRight'
        <3>1. Chain' = Chain
            BY <2>1 DEF Chain, node
        <3>2. QED
            BY <1>1, <2>1, <2>5, <3>1 DEF StartStays, Alone, CacheRight, Indifferent, node
    <2>8. HeadsRight'
        <3>1. ASSUME NEW w \in Checkers, queue[w] # <<>>
              PROVE  /\ task'[w][Head(queue[w])].in = task[w][Head(queue[w])].in
                     /\ task'[w][Head(queue[w])].broadcast = task[w][Head(queue[w])].broadcast
            <4>1. w \in Jobs /\ Head(queue[w]) \in Txs
                BY <1>2, <3>1 DEF Jobs
            <4>2. QED
                BY <2>6, <4>1 DEF Agrees
        <3>2. QED
            BY <1>1, <2>1, <3>1 DEF HeadsRight
    <2>9. BlockOwns'
        <3>1. ASSUME NEW s \in Txs
              PROVE  /\ Working(task'[Block][s]) => Working(task[Block][s])
                     /\ task'[Block][s].broadcast = task[Block][s].broadcast
            BY <1>2, <2>6 DEF Agrees, Working
        <3>2. ASSUME NEW s \in Txs, Working(task'[Block][s]) \/ task'[Block][s].broadcast
              PROVE  Working(task[Block][s]) \/ task[Block][s].broadcast
            BY <3>1, <3>2, Zenon
        <3>3. QED
            BY <1>1, <2>1, <3>2 DEF BlockOwns, Working, node
    <2>10. BlockRight'
        <3>1. ASSUME blk.step \in {"filter", "run"}, NEW x \in mined[height + 1]
              PROVE  /\ Alone(x) => HalvesRight(x, task'[Block][x], outputs', inputs')
                     /\ task'[Block][x].in = task[Block][x].in
            <4>1. x \in Txs \ {t}
                BY <1>2, <2>4, <3>1
            <4>2. Agrees(task'[Block][x], task[Block][x], FALSE)
                BY <1>2, <2>6, <4>1 DEF Agrees
            <4>3. Alone(x) => HalvesRight(x, task[Block][x], outputs, inputs)
                BY <1>1, <3>1 DEF BlockRight
            <4>4. QED
                BY <2>5, <4>1, <4>2, <4>3 DEF Agrees, HalvesRight
        <3>2. ASSUME blk.step \in {"filter", "run"}, NEW x \in mined[height + 1], Alone(x)
              PROVE  HalvesRight(x, task'[Block][x], outputs', inputs')
            BY <3>1, <3>2
        <3>3. ASSUME blk.step = "filter", NEW x \in mined[height + 1], task'[Block][x].in = "wait"
              PROVE  x \in blk.seen \cup blk.unseen
            BY <1>1, <3>1, <3>3 DEF BlockRight
        <3>4. QED
            BY <2>1, <3>2, <3>3 DEF BlockRight, HalvesRight, Alone, node
    <2>11. AloneIsComplete'
        <3>1. ASSUME NEW h \in 1 .. height, NEW x \in mined[h], Alone(x)
              PROVE  Pays[x] \subseteq outputs' /\ {x} \X (Spends[x] \cap KnownFromStart) \subseteq inputs'
            <4>1. x \in Txs \ {t}
                BY <1>2, <2>4
            <4>2. Pays[x] \subseteq outputs /\ {x} \X (Spends[x] \cap KnownFromStart) \subseteq inputs
                BY <1>1, <3>1 DEF AloneIsComplete
            <4>3. QED
                BY <2>5, <4>1, <4>2
        <3>2. QED
            BY <1>1, <2>1, <3>1 DEF AloneIsComplete, Alone, node
    <2>12. QED
        BY <2>7, <2>8, <2>9, <2>10, <2>11
<1>5. ASSUME NEW t \in Txs, ConfirmFound(t)
      PROVE  StartStays' /\ CacheRight' /\ HeadsRight' /\ BlockRight' /\ BlockOwns' /\ AloneIsComplete'
    <2>1. /\ confirmed' = IF t \in rows /\ \E h \in 1 .. height : t \in mined[h]
                          THEN confirmed \cup {t} ELSE confirmed
          /\ UNCHANGED <<node, outputs, inputs, height, cache, queue, task, blk>>
        BY <1>5 DEF ConfirmFound
    <2>2. StartStays' /\ CacheRight'
        <3>1. Chain' = Chain
            BY <2>1 DEF Chain, node
        <3>2. QED
            BY <1>1, <2>1, <3>1 DEF StartStays, Alone, CacheRight, Indifferent, node
    <2>3. HeadsRight' /\ BlockRight'
        BY <1>1, <2>1 DEF HeadsRight, BlockRight, HalvesRight, Alone, node
    <2>4. BlockOwns' /\ AloneIsComplete'
        BY <1>1, <2>1 DEF BlockOwns, Working, AloneIsComplete, Alone, node
    <2>5. QED
        BY <2>2, <2>3, <2>4
<1>6. QED
    BY <1>3, <1>4, <1>5 DEF UnconfirmedStep

LEMMA CompleteNext == CompleteInv /\ [Next]_vars => CompleteInv'
<1> SUFFICES ASSUME CompleteInv, [Next]_vars PROVE CompleteInv'
    OBVIOUS
<1>1. TypeInv' /\ Announced'
    BY TypeNext, NextAnnounced DEF CompleteInv
<1>2. StartStays' /\ CacheRight' /\ HeadsRight' /\ BlockRight' /\ BlockOwns' /\ AloneIsComplete'
    <2>1. CASE UNCHANGED vars
        <3>1. /\ StartStays /\ CacheRight /\ HeadsRight /\ BlockRight /\ BlockOwns /\ AloneIsComplete
              /\ Chain' = Chain
            BY <2>1 DEF CompleteInv, vars, Chain
        <3>2. StartStays' /\ CacheRight' /\ HeadsRight'
            BY <2>1, <3>1 DEF vars, StartStays, Alone, CacheRight, Indifferent, HeadsRight
        <3>3. BlockRight' /\ BlockOwns' /\ AloneIsComplete'
            BY <2>1, <3>1 DEF vars, BlockRight, HalvesRight, BlockOwns, Working, AloneIsComplete, Alone
        <3>4. QED
            BY <3>2, <3>3
    <2>2. CASE Environment
        BY <2>2, NodeComplete, DeathComplete DEF Environment, Crash
    <2>3. CASE MempoolStep
        BY <2>3, NodeComplete
    <2>4. CASE BlockStep
        BY <2>4, BlockComplete
    <2>5. CASE UnconfirmedStep
        BY <2>5, UnconfirmedComplete
    <2>6. CASE \E w \in Checkers : CheckerStep(w)
        BY <2>6, CheckerComplete
    <2>7. QED
        BY <2>1, <2>2, <2>3, <2>4, <2>5, <2>6 DEF Next
<1>3. QED
    BY <1>1, <1>2 DEF CompleteInv

\* A transaction that has no rival is there whole, outputs and inputs, from the moment its
\* block is registered, however many loops, pushers, blocks and deletions were at work at
\* once and wherever the tracker crashed; and nothing else is shown as confirmed.
THEOREM AloneComplete == Spec => []AloneIsComplete
<1>1. CompleteInv => AloneIsComplete
    BY DEF CompleteInv
<1>2. QED
    BY <1>1, InitComplete, CompleteNext, PTL DEF Spec
=============================================================================
