------------------------------ MODULE TxTracking ------------------------------
(***************************************************************************)
(* How the tracker registers transactions of interest: the buffer of the   *)
(* mempool and its loops, the transactions announced by pushtx, the blocks *)
(* and the check of unconfirmed transactions all write the same rows, each *)
(* in several awaited calls, and share a cache of verdicts.                *)
(*                                                                         *)
(* BlockSync has one row per transaction and the whole protocol of blocks; *)
(* here blocks come in order, without reorganisation, and a transaction is *)
(* its row, its inputs and its outputs. An output stands for an output     *)
(* that pays a tracked address; those of others are of no interest.        *)
(***************************************************************************)
EXTENDS Integers, FiniteSets, Sequences, SequencesExt

CONSTANTS
    Order,          \* the transactions, none before one whose output it spends
    Pays,           \* outputs of each transaction that pay a tracked address
    Spends,         \* outputs of that kind that each transaction spends
    Pushed,         \* transactions that reach bitcoind through pushtx
    OnlyMined,      \* transactions that bitcoind first sees in a block
    Genesis,        \* transactions registered and confirmed from the start
    Loops, Pushers, \* concurrent calls of processMempool, of onPushTx
    Block,          \* the call of processBlock
    MaxBlocks, MaxEvictions, MaxCrashes  \* bounds of the environment

Txs == Range(Order)
Outs == UNION {Pays[t] : t \in Txs}
Checkers == Loops \cup Pushers
Jobs == Checkers \cup {Block}

Creator(o) == CHOOSE t \in Txs : o \in Pays[t]
Parents(t) == {Creator(o) : o \in Spends[t]}
Conflict(s, t) == s # t /\ Spends[s] \cap Spends[t] # {}

\* The transactions in Genesis are those of a chain: with what they spend, and no two of
\* them spend the same output.
ASSUME TransactionsAssumption ==
    /\ Order \in Seq(Range(Order))
    /\ Pays \in [Txs -> SUBSET Outs] /\ Spends \in [Txs -> SUBSET Outs]
    /\ \A s, t \in Txs : s # t => Pays[s] \cap Pays[t] = {}
    /\ \A i, j \in DOMAIN Order : i < j => Order[j] \notin Parents(Order[i])
    /\ Pushed \cup OnlyMined \cup Genesis \subseteq Txs
    /\ \A t \in Genesis : Parents(t) \subseteq Genesis
    /\ \A s, t \in Genesis : ~Conflict(s, t)
    /\ Block \notin Checkers /\ Loops \cap Pushers = {}
    /\ {MaxBlocks, MaxEvictions, MaxCrashes} \subseteq Nat

VARIABLES
    \* bitcoind
    mempool, mined,     \* mined: a sequence of blocks, sets of transactions
    announced,          \* transactions that have been in the mempool or mined
    \* messages
    pushes,             \* txids sent by pushtx and not received yet
    buffer,             \* mempoolBuffer
    \* database
    rows, confirmed,    \* rows of `transactions`; those with a blockID
    outputs, inputs,    \* rows of `outputs`, of `inputs`
    height,             \* blocks with a row in `blocks`
    \* memory of the tracker
    mode,               \* "catchup", then "started", "active" and "synced"
    syncing,            \* txids that syncMempool has still to look at
    cache,              \* TransactionsCache
    queue,              \* transactions each checker has still to check
    task,               \* task[j][t]: the object Transaction of t in job j
    blk, chk,           \* locals of processBlock and of checkUnconfirmed
    evictions, crashes

node == <<mempool, mined, announced, evictions>>
db == <<rows, confirmed, outputs, inputs, height>>
vars == <<mempool, mined, announced, evictions, pushes, buffer, rows, confirmed,
          outputs, inputs, height, mode, syncing, cache, queue, task, blk, chk,
          crashes>>

Chain == UNION Range(mined)
Alive == mempool \cup Chain

\* Transaction: where processInputs and processOutputs are, the call that
\* ensures the row (shared: storingTransaction), its id, what was read.
NoTask == [in |-> "done", out |-> "done", store |-> "no", id |-> "null",
           reads |-> {}, stale |-> FALSE, rivals |-> {}, broadcast |-> FALSE]
NoTasks == [t \in Txs |-> NoTask]
BlkOff == [step |-> "off", seen |-> {}, unseen |-> {}]
ChkOff == [missing |-> {}, found |-> {}]

Init ==
    /\ mempool = {} /\ mined = <<Genesis>> /\ announced = Genesis
    /\ pushes = {} /\ buffer = <<>>
    /\ rows = Genesis /\ confirmed = Genesis /\ height = 1
    /\ outputs = UNION {Pays[t] : t \in Genesis}
    /\ inputs = UNION {{t} \X Spends[t] : t \in Genesis}
    /\ mode = "catchup" /\ syncing = {}
    /\ cache = [t \in Txs |-> "unknown"]
    /\ queue = [w \in Checkers |-> <<>>]
    /\ task = [j \in Jobs |-> NoTasks]
    /\ blk = BlkOff /\ chk = ChkOff
    /\ evictions = 0 /\ crashes = 0

-----------------------------------------------------------------------------
(* bitcoind, and the messages it sends *)

\* ts and what spends its outputs, directly or not
WithDescendants(ts) ==
    LET upTo[i \in 0 .. Len(Order)] ==
            IF i = 0 THEN ts
            ELSE upTo[i - 1] \cup {t \in {Order[i]} : Parents(t) \cap upTo[i - 1] # {}}
    IN upTo[Len(Order)]

\* what cannot stay in the mempool beside ts
Displaced(ts) == WithDescendants({s \in Txs : \E t \in ts : Conflict(s, t)})

\* the orders in which a block may hold ts: none before one whose output it spends
BlockOrders(ts) ==
    {txs \in [1 .. Cardinality(ts) -> ts] :
        \A i, j \in DOMAIN txs : i < j => txs[i] # txs[j] /\ txs[j] \notin Parents(txs[i])}

Listening == mode # "catchup"
IsActive == mode \in {"active", "synced"}

\* onTx
Received(txs) == IF IsActive THEN buffer \o txs ELSE buffer

\* A transaction enters the mempool, and replaces those that it conflicts with.
Accept(t) ==
    /\ t \notin announced \cup OnlyMined
    /\ Parents(t) \subseteq Alive
    /\ \A s \in Chain : ~Conflict(s, t)
    /\ mempool' = (mempool \ Displaced({t})) \cup {t}
    /\ announced' = announced \cup {t}
    /\ buffer' = Received(<<t>>)
    /\ pushes' = pushes \cup ({t} \cap Pushed)
    /\ UNCHANGED <<mined, evictions, db, mode, syncing, cache, queue, task, blk, chk,
                   crashes>>

\* Mined transactions are announced again by `rawtx`.
Mine(ts) ==
    /\ Len(mined) <= MaxBlocks
    /\ ts # {} /\ ts \subseteq mempool \cup (OnlyMined \ announced)
    /\ \A t \in ts : Parents(t) \subseteq Chain \cup ts
    /\ \A s \in Chain \cup ts, t \in ts : ~Conflict(s, t)
    /\ mined' = Append(mined, ts)
    /\ mempool' = mempool \ (ts \cup Displaced(ts))
    /\ announced' = announced \cup ts
    /\ \E txs \in BlockOrders(ts) : buffer' = Received(txs)
    /\ UNCHANGED <<evictions, pushes, db, mode, syncing, cache, queue, task, blk, chk,
                   crashes>>

Evict(t) ==
    /\ evictions < MaxEvictions
    /\ t \in mempool
    /\ mempool' = mempool \ WithDescendants({t})
    /\ evictions' = evictions + 1
    /\ UNCHANGED <<mined, announced, pushes, buffer, db, mode, syncing, cache, queue,
                   task, blk, chk, crashes>>

\* A message of pushtx that finds nobody listening.
LosePush(t) ==
    /\ ~Listening /\ t \in pushes
    /\ pushes' = pushes \ {t}
    /\ UNCHANGED <<node, buffer, db, mode, syncing, cache, queue, task, blk, chk, crashes>>

-----------------------------------------------------------------------------
(* The process *)

\* The memory is lost. An error that no caller handles ends the process too.
Dies ==
    /\ mode' = "catchup" /\ syncing' = {}
    /\ buffer' = <<>> /\ pushes' = {}
    /\ cache' = [t \in Txs |-> "unknown"]
    /\ queue' = [w \in Checkers |-> <<>>]
    /\ task' = [j \in Jobs |-> NoTasks]
    /\ blk' = BlkOff /\ chk' = ChkOff

Crash ==
    /\ crashes < MaxCrashes
    /\ crashes' = crashes + 1
    /\ Dies
    /\ UNCHANGED <<node, db>>

\* The blocks mined so far are processed before the mempool processor starts.
StartMempool ==
    /\ mode = "catchup" /\ blk = BlkOff /\ height = Len(mined)
    /\ mode' = "started"
    /\ UNCHANGED <<node, pushes, buffer, db, syncing, cache, queue, task, blk, chk, crashes>>

\* _refreshActiveStatus, at the head of the first processMempool
Activate ==
    /\ mode = "started"
    /\ mode' = "active"
    /\ UNCHANGED <<node, pushes, buffer, db, syncing, cache, queue, task, blk, chk, crashes>>

\* getrawmempool, once active
SyncMempool ==
    /\ mode = "active"
    /\ mode' = "synced" /\ syncing' = mempool
    /\ UNCHANGED <<node, pushes, buffer, db, cache, queue, task, blk, chk, crashes>>

\* What is neither in the cache nor in the database is fetched and buffered.
SyncTx(t) ==
    /\ t \in syncing
    /\ syncing' = syncing \ {t}
    /\ buffer' = IF cache[t] = "unknown" /\ t \notin rows /\ t \in Alive
                 THEN Append(buffer, t) ELSE buffer
    /\ UNCHANGED <<node, pushes, db, mode, cache, queue, task, blk, chk, crashes>>

-----------------------------------------------------------------------------
(* Statements on the tables *)

\* getUnconfirmedTransactionIds
Unconfirmed == rows \ confirmed

Purged(T, ts) ==
    [j \in Jobs |-> [t \in Txs |->
        [T[j][t] EXCEPT !.id = IF t \in ts /\ @ = "row" THEN "gone" ELSE @,
                        !.stale = @ \/ \E o \in T[j][t].reads : Creator(o) \in ts,
                        !.rivals = @ \ ts]]]

\* Mutant: no foreign key from outputs to transactions.
DeleteTransactions_KeepsOutputs(ts, T) ==
    /\ rows' = rows \ ts
    /\ confirmed' = confirmed \ ts
    /\ inputs' = {i \in inputs : i[1] \notin ts}
    /\ task' = Purged(T, ts)
    /\ UNCHANGED <<outputs, height>>

\* DELETE of transactions, with the foreign keys ON DELETE CASCADE. An id that
\* some job holds names no row from now on. T is the tasks after the step.
DeleteTransactions(ts, T) ==
    /\ rows' = rows \ ts
    /\ confirmed' = confirmed \ ts
    /\ outputs' = outputs \ UNION {Pays[t] : t \in ts}
    /\ inputs' = {i \in inputs : i[1] \notin ts /\ Creator(i[2]) \notin ts}
    /\ task' = Purged(T, ts)
    /\ UNCHANGED height

\* addOutputs: INSERT IGNORE, which skips rows that name a deleted transaction
NewOutputs(t, id) == IF id = "row" THEN Pays[t] ELSE {}

\* What a check has read is forgotten once both its parts are done.
At(j, t, k) ==
    [task EXCEPT ![j][t] = IF k.in = "done" /\ k.out = "done"
                           THEN [NoTask EXCEPT !.broadcast = k.broadcast] ELSE k]

\* A part that needs the row joins the call that stores it, or finds it done.
AfterRead(k) == IF k.store = "yes" THEN "write" ELSE "store"

Stored(k) == [k EXCEPT !.store = "yes",
                       !.in = IF @ = "store" THEN "write" ELSE @,
                       !.out = IF @ = "store" THEN "write" ELSE @]

-----------------------------------------------------------------------------
(* A transaction is checked: inputs and outputs concurrently *)

\* processInputs: getOutputSpends
ReadSpends(j, t) ==
    LET k == task[j][t]
        known == Spends[t] \cap outputs
        rivals == {s \in rows \ {t} : \E o \in known : <<s, o>> \in inputs}
    IN /\ k.in = "read"
       /\ task' = At(j, t, IF known = {} THEN [k EXCEPT !.in = "done"]
                           ELSE [k EXCEPT !.in = AfterRead(k), !.reads = known,
                                          !.rivals = rivals, !.broadcast = TRUE])
       /\ UNCHANGED <<node, pushes, buffer, db, mode, syncing, cache, queue, blk, chk, crashes>>

\* Mutant: a transaction that has a row is taken for stored.
InsertTransaction_KnownIsDone(j, t) ==
    LET k == task[j][t]
    IN /\ k.store = "no" /\ "store" \in {k.in, k.out}
       /\ rows' = rows \cup {t}
       /\ task' = At(j, t, IF t \in rows THEN [k EXCEPT !.in = "done", !.out = "done"]
                           ELSE [k EXCEPT !.store = "add", !.id = "row"])
       /\ UNCHANGED <<node, pushes, buffer, confirmed, outputs, inputs, height, mode,
                      syncing, cache, queue, blk, chk, crashes>>

\* ensureTransactionId: INSERT IGNORE
InsertTransaction(j, t) ==
    LET k == task[j][t]
    IN /\ k.store = "no" /\ "store" \in {k.in, k.out}
       /\ rows' = rows \cup {t}
       /\ task' = At(j, t, IF t \in rows THEN [k EXCEPT !.store = "select"]
                           ELSE [k EXCEPT !.store = "add", !.id = "row"])
       /\ UNCHANGED <<node, pushes, buffer, confirmed, outputs, inputs, height, mode,
                      syncing, cache, queue, blk, chk, crashes>>

\* ensureTransactionId: SELECT of a row that was there
SelectTransaction(j, t) ==
    LET k == task[j][t]
    IN /\ k.store = "select"
       /\ IF t \in rows
          THEN /\ task' = At(j, t, [k EXCEPT !.store = "add", !.id = "row"])
               /\ UNCHANGED <<pushes, buffer, mode, syncing, cache, queue, blk, chk>>
          ELSE Dies
       /\ UNCHANGED <<node, db, crashes>>

\* addTransaction: a row that is gone is inserted again, under another id
AddTransaction(j, t) ==
    LET k == task[j][t]
    IN /\ k.store = "add"
       /\ rows' = rows \cup {t}
       /\ task' = At(j, t, Stored(k))
       /\ UNCHANGED <<node, pushes, buffer, confirmed, outputs, inputs, height, mode,
                      syncing, cache, queue, blk, chk, crashes>>

\* addInputs: a row that names a deleted transaction or output is an error
AddInputs(j, t) ==
    LET k == task[j][t]
    IN /\ k.in = "write"
       /\ IF k.id = "row" /\ ~k.stale
          THEN /\ inputs' = inputs \cup ({t} \X k.reads)
               /\ task' = At(j, t, [k EXCEPT !.reads = {},
                                     !.in = IF k.rivals = {} THEN "done" ELSE "lookup"])
               /\ UNCHANGED <<pushes, buffer, mode, syncing, cache, queue, blk, chk>>
          ELSE Dies /\ UNCHANGED inputs
       /\ UNCHANGED <<node, rows, confirmed, outputs, height, crashes>>

\* The double spends: their txids leave the cache ...
ForgetRivals(j, t) ==
    LET k == task[j][t]
    IN /\ k.in = "lookup"
       /\ cache' = [s \in Txs |-> IF s \in k.rivals THEN "unknown" ELSE cache[s]]
       /\ task' = At(j, t, [k EXCEPT !.in = "delete"])
       /\ UNCHANGED <<node, pushes, buffer, db, mode, syncing, queue, blk, chk, crashes>>

\* ... and their rows the database.
DeleteRivals(j, t) ==
    LET k == task[j][t]
    IN /\ k.in = "delete"
       /\ DeleteTransactions(k.rivals, At(j, t, [k EXCEPT !.in = "done"]))
       /\ UNCHANGED <<node, pushes, buffer, mode, syncing, cache, queue, blk, chk, crashes>>

\* The rows go under the id that ensureTransactionId gave.
AddOutputs(j, t) ==
    LET k == task[j][t]
    IN /\ k.out = "write"
       /\ outputs' = outputs \cup NewOutputs(t, k.id)
       /\ task' = At(j, t, [k EXCEPT !.out = "done"])
       /\ UNCHANGED <<node, pushes, buffer, rows, confirmed, inputs, height, mode,
                      syncing, cache, queue, blk, chk, crashes>>

CheckStep(j, t) ==
    \/ ReadSpends(j, t)
    \/ InsertTransaction(j, t) \/ SelectTransaction(j, t) \/ AddTransaction(j, t)
    \/ AddInputs(j, t) \/ ForgetRivals(j, t) \/ DeleteRivals(j, t)
    \/ AddOutputs(j, t)

-----------------------------------------------------------------------------
(* Mempool loops and pushed transactions *)

\* checkTransaction begins
Opened(t) == [NoTask EXCEPT !.in = "read",
                            !.out = IF Pays[t] = {} THEN "done" ELSE "store",
                            !.broadcast = Pays[t] # {}]

\* w goes on with the first transaction of q that is not in cache c.
Resume(w, q, c) ==
    LET i == SelectInSeq(q, LAMBDA t : c[t] = "unknown")
    IN /\ queue' = [queue EXCEPT ![w] = IF i = 0 THEN <<>> ELSE SubSeq(q, i, Len(q))]
       /\ task' = [task EXCEPT ![w] =
                      IF i = 0 THEN NoTasks ELSE [NoTasks EXCEPT ![q[i]] = Opened(q[i])]]

\* The timer starts a loop on what is in the buffer, whether or not others run.
ProcessMempool(w) ==
    /\ w \in Loops /\ queue[w] = <<>>
    /\ IsActive /\ buffer # <<>>
    /\ buffer' = <<>>
    /\ Resume(w, buffer, cache)
    /\ UNCHANGED <<node, pushes, db, mode, syncing, cache, blk, chk, crashes>>

OnPushTx(w, t) ==
    /\ w \in Pushers /\ queue[w] = <<>>
    /\ Listening /\ t \in pushes
    /\ pushes' = pushes \ {t}
    /\ Resume(w, <<t>>, cache)
    /\ UNCHANGED <<node, buffer, db, mode, syncing, cache, blk, chk, crashes>>

\* Inputs and outputs are done: the verdict is cached, the next one is taken.
FinishCheck(w) ==
    /\ queue[w] # <<>>
    /\ LET t == Head(queue[w])
           k == task[w][t]
       IN /\ k.in = "done" /\ k.out = "done"
          /\ cache' = [cache EXCEPT ![t] = IF k.broadcast THEN "yes" ELSE "no"]
          /\ Resume(w, Tail(queue[w]), cache')
    /\ UNCHANGED <<node, pushes, buffer, db, mode, syncing, blk, chk, crashes>>

-----------------------------------------------------------------------------
(* Blocks *)

\* processBlock: the transactions the cache rules out are skipped. The addresses
\* are constant here, so that prefilterByOutputs is done at once.
StartBlock ==
    /\ blk = BlkOff /\ height < Len(mined)
    /\ LET ts == mined[height + 1]
       IN /\ blk' = [step |-> "filter", seen |-> {t \in ts : cache[t] = "yes"},
                     unseen |-> {t \in ts : cache[t] = "unknown"}]
          /\ task' = [task EXCEPT ![Block] = [t \in Txs |->
                         IF t \in ts /\ cache[t] # "no" THEN [Opened(t) EXCEPT !.in = "wait"]
                         ELSE NoTask]]
    /\ UNCHANGED <<node, pushes, buffer, db, mode, syncing, cache, queue, chk, crashes>>

\* prefilterByInputs, while outputs are already being stored. A transaction that
\* the cache knows to be of interest gets through whatever it spends.
FilterInputs ==
    /\ blk.step = "filter"
    /\ LET found == blk.seen \cup {t \in blk.unseen : Spends[t] \cap outputs # {}}
       IN task' = [task EXCEPT ![Block] = [t \in Txs |->
                      IF @[t].in # "wait" THEN @[t]
                      ELSE [@[t] EXCEPT !.in = IF t \in found THEN "read" ELSE "done"]]]
    /\ blk' = [BlkOff EXCEPT !.step = "run"]
    /\ UNCHANGED <<node, pushes, buffer, db, mode, syncing, cache, queue, chk, crashes>>

\* The row of the block is added once the transactions are stored.
RegisterBlock ==
    /\ blk.step = "run"
    /\ \A t \in Txs : task[Block][t].in = "done" /\ task[Block][t].out = "done"
    /\ height' = height + 1
    /\ blk' = [blk EXCEPT !.step = "confirm"]
    /\ UNCHANGED <<node, pushes, buffer, rows, confirmed, outputs, inputs, mode, syncing,
                   cache, queue, task, chk, crashes>>

\* confirmTransactions, of those that were of interest
ConfirmBlock ==
    /\ blk.step = "confirm"
    /\ confirmed' = confirmed \cup {t \in rows : task[Block][t].broadcast}
    /\ blk' = BlkOff
    /\ task' = [task EXCEPT ![Block] = NoTasks]
    /\ UNCHANGED <<node, pushes, buffer, rows, outputs, inputs, height, mode, syncing,
                   cache, queue, chk, crashes>>

-----------------------------------------------------------------------------
(* The check of unconfirmed transactions *)

\* Mutant: mined transactions are not looked up (no transaction index).
CheckUnconfirmed_NoTxIndex ==
    /\ chk = ChkOff /\ Listening
    /\ Unconfirmed # {}
    /\ chk' = [ChkOff EXCEPT !.missing = Unconfirmed \ mempool]
    /\ cache' = [t \in Txs |-> IF t \in chk'.missing THEN "unknown" ELSE cache[t]]
    /\ UNCHANGED <<node, pushes, buffer, db, mode, syncing, queue, task, blk, crashes>>

\* Mutant: transactions in the cache are not asked for again.
CheckUnconfirmed_SkipsCached ==
    /\ chk = ChkOff /\ Listening
    /\ Unconfirmed # {}
    /\ LET ids == {t \in Unconfirmed : cache[t] = "unknown"}
       IN chk' = [missing |-> ids \ Alive, found |-> ids \cap Chain]
    /\ UNCHANGED <<node, pushes, buffer, db, mode, syncing, cache, queue, task, blk, crashes>>

\* The unconfirmed rows, then getrawtransaction of each: the answers are about
\* bitcoind alone, so that the two calls are one step. What is unknown there
\* leaves the cache at once.
CheckUnconfirmed ==
    /\ chk = ChkOff /\ Listening
    /\ Unconfirmed # {}
    /\ chk' = [missing |-> Unconfirmed \ Alive,
               found |-> Unconfirmed \cap Chain]
    /\ cache' = [t \in Txs |-> IF t \in chk'.missing THEN "unknown" ELSE cache[t]]
    /\ UNCHANGED <<node, pushes, buffer, db, mode, syncing, queue, task, blk, crashes>>

DeleteMissing(t) ==
    /\ t \in chk.missing
    /\ chk' = [chk EXCEPT !.missing = @ \ {t}]
    /\ DeleteTransactions({t}, task)
    /\ UNCHANGED <<node, pushes, buffer, mode, syncing, cache, queue, blk, crashes>>

\* getBlockByHash and confirmTransactions
ConfirmFound(t) ==
    /\ t \in chk.found
    /\ chk' = [chk EXCEPT !.found = @ \ {t}]
    /\ confirmed' = IF t \in rows /\ \E h \in 1 .. height : t \in mined[h]
                    THEN confirmed \cup {t} ELSE confirmed
    /\ UNCHANGED <<node, pushes, buffer, rows, outputs, inputs, height, mode, syncing,
                   cache, queue, task, blk, crashes>>

-----------------------------------------------------------------------------
Environment ==
    \/ \E t \in Txs : Accept(t) \/ Evict(t) \/ LosePush(t)
    \/ \E ts \in SUBSET Txs : Mine(ts)
    \/ Crash

MempoolStep == StartMempool \/ Activate \/ SyncMempool \/ \E t \in Txs : SyncTx(t)

CheckerStep(w) ==
    \/ ProcessMempool(w) \/ FinishCheck(w)
    \/ \E t \in Txs : OnPushTx(w, t) \/ CheckStep(w, t)

BlockStep ==
    \/ StartBlock \/ FilterInputs \/ RegisterBlock \/ ConfirmBlock
    \/ \E t \in Txs : CheckStep(Block, t)

UnconfirmedStep ==
    \/ CheckUnconfirmed
    \/ \E t \in Txs : DeleteMissing(t) \/ ConfirmFound(t)

Next ==
    \/ Environment \/ MempoolStep \/ BlockStep \/ UnconfirmedStep
    \/ \E w \in Checkers : CheckerStep(w)

Spec == Init /\ [][Next]_vars

\* The event loop of the tracker runs what can run and its timers fire; the
\* node, pushtx and crashes are under no obligation.
FairSpec ==
    /\ Spec
    /\ WF_vars(MempoolStep) /\ WF_vars(BlockStep) /\ WF_vars(UnconfirmedStep)
    /\ \A w \in Checkers : WF_vars(CheckerStep(w))

-----------------------------------------------------------------------------
(* Properties *)

Interesting(t) == Pays[t] # {} \/ Spends[t] # {}

Complete(t) == t \in rows /\ Pays[t] \subseteq outputs /\ {t} \X Spends[t] \subseteq inputs

Tasks == [in : {"wait", "read", "store", "write", "lookup", "delete", "done"},
          out : {"store", "write", "done"},
          store : {"no", "select", "add", "yes"}, id : {"null", "row", "gone"},
          reads : SUBSET Outs, stale : BOOLEAN, rivals : SUBSET Txs, broadcast : BOOLEAN]

\* Types, and the foreign keys: inputs and outputs belong to rows, and an input
\* spends an output that has a row.
TypeOK ==
    /\ mempool \subseteq Txs /\ mined \in Seq(SUBSET Txs) /\ announced \subseteq Txs
    /\ pushes \subseteq Pushed /\ buffer \in Seq(Txs)
    /\ rows \subseteq Txs /\ confirmed \subseteq rows
    /\ outputs \subseteq UNION {Pays[t] : t \in rows} /\ inputs \subseteq rows \X outputs
    /\ height \in 1 .. Len(mined)
    /\ mode \in {"catchup", "started", "active", "synced"} /\ syncing \subseteq Txs
    /\ cache \in [Txs -> {"unknown", "yes", "no"}]
    /\ queue \in [Checkers -> Seq(Txs)] /\ task \in [Jobs -> [Txs -> Tasks]]
    /\ blk \in [step : {"off", "filter", "run", "confirm"},
                seen : SUBSET Txs, unseen : SUBSET Txs]
    /\ chk \in [missing : SUBSET Txs, found : SUBSET Txs]
    /\ evictions \in 0 .. MaxEvictions /\ crashes \in 0 .. MaxCrashes

\* No transaction that was announced spends an output that t spends.
Alone(t) == \A s \in announced : ~Conflict(s, t)

KnownFromStart == UNION {Pays[t] : t \in Genesis}

\* A transaction that has no rival, once its block is registered, is there whole, whoever
\* else was storing it and whatever crashed: its outputs that pay tracked addresses are
\* recorded, and its inputs that spend outputs known before it came (block.ts registers
\* the block after its two concurrent halves). And only what is in a registered block is
\* shown as confirmed.
AloneIsComplete ==
    /\ \A h \in 1 .. height : \A t \in mined[h] :
          Alone(t) => /\ Pays[t] \subseteq outputs
                      /\ {t} \X (Spends[t] \cap KnownFromStart) \subseteq inputs
    /\ \A t \in confirmed : \E h \in 1 .. height : t \in mined[h]

\* A registered block has its transactions of interest in the tables: "Register
\* the block and transactions of interest in db" (comment of processBlock).
BlockIsRegistered ==
    \A h \in 1 .. height : \A t \in mined[h] : Interesting(t) => Complete(t)

Registered(t) ==
    /\ t \in Chain => Complete(t) /\ t \in confirmed
    /\ t \in mempool /\ crashes = 0 => Complete(t)

\* In the end a mined transaction of interest is recorded, with its inputs and
\* outputs, and confirmed, whatever way or ways it was announced and after any
\* restart; and so is one of the mempool, confirmation apart, if there was no
\* crash: the row that a crash leaves without inputs and outputs makes syncMempool
\* pass the transaction over until it is mined.
EventuallyRegistered == \A t \in Txs : Interesting(t) => <>[]Registered(t)

\* In the end no transaction that bitcoind dropped or replaced is left, so that
\* no output is shown as spent twice (checkUnconfirmed and the double spends).
GhostsVanish == <>[](rows \subseteq Alive)

\* In the end a mined transaction of interest is in the table: "since the deepest
\* block keeps its transactions, this will eventually work itself out" (comment
\* on the deletion of double spends in processInputs).
DeepestBlockKeeps ==
    \A t \in Txs : Interesting(t) => <>[](t \in Chain => t \in rows)
=============================================================================
