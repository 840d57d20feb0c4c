-------------------------------- MODULE PushTx --------------------------------
(***************************************************************************)
(* The scheduled push of a sequence of transactions: the scheduler (the    *)
(* pushtx process: TransactionsScheduler.schedule) stores the entries of a *)
(* script in table scheduled_transactions, the orchestrator (a process of  *)
(* its own) pushes them as blocks arrive. They share nothing but the       *)
(* table and bitcoind; each step below is one awaited call of either, with *)
(* the synchronous code around it. PandoTx is off.                         *)
(*                                                                         *)
(* bitcoind is the environment: it mines what it accepted, may reorganise  *)
(* its last block, and may be unreachable for a while.                     *)
(***************************************************************************)
EXTENDS Integers, FiniteSets, Sequences

CONSTANTS
    Txs,          \* scheduled transactions
    NoTx,         \* no txid (SQL NULL)
    Requests,     \* calls of POST /pushtx/schedule
    Scripts,      \* scripts the clients may send: sequences of [tx, hop, nlocktime]
    LockTime,     \* field nLockTime of each transaction
    MaxEntries,   \* keys.txsScheduler.maxNbEntries
    MaxDelta,     \* keys.txsScheduler.maxDeltaHeight
    StartHeight,  \* height of the chain at the start
    MaxHeight,    \* bound: height of the chain
    MaxReorgs,    \* bound: reorganisations of one block
    MaxCrashes,   \* bound: crashes of the two processes
    MaxFaults     \* bound: failed SQL statements, transactions bitcoind rejects or
                  \* evicts, lost messages, losses of the connection to bitcoind

ASSUME ConfigAssumption ==
    /\ NoTx \notin Txs
    /\ LockTime \in [Txs -> Nat]
    /\ MaxEntries \in Nat /\ MaxDelta \in Nat
    /\ StartHeight \in Nat \ {0} /\ MaxHeight \in Nat /\ StartHeight <= MaxHeight
    /\ MaxReorgs \in Nat /\ MaxCrashes \in Nat /\ MaxFaults \in Nat

ASSUME ScriptsAssumption ==
    Scripts \subseteq Seq([tx : Txs, hop : Nat, nlocktime : Nat])

\* A transaction has one place in one script: a client that asks again sends the same one.
ASSUME OwnScriptAssumption ==
    \A s, u \in Scripts : \A i \in DOMAIN s, j \in DOMAIN u :
        s[i].tx = u[j].tx => s = u /\ i = j

VARIABLES
    height,     \* bitcoind: height of the best chain
    minedAt,    \* bitcoind: height of the block of each transaction (0: none)
    mempool,    \* bitcoind: transactions accepted and not mined
    up,         \* bitcoind answers
    inbox,      \* `hashblock` messages (heights) waiting for the semaphore
    rows,       \* table scheduled_transactions, by txid (schTxid is UNIQUE)
    nextId,     \* AUTO_INCREMENT of schID
    asked,      \* the script each client sends
    req,        \* program counter and locals of each call of schedule
    orch,       \* program counter and locals of onBlockHash
    crashes, faults, reorgs,
    \* history variables, read by no action of the code
    sentAt,     \* height of the chain when bitcoind accepted the transaction (0: never)
    early,      \* transactions handed to bitcoind before their nLockTime
    rejected,   \* transactions bitcoind answered it refuses
    unsent,     \* transactions whose push failed without an answer, as if rejected
    missed      \* no later event tells the orchestrator of some row

\* what is outside of Dojo: bitcoind and the requests of the clients
outside == <<height, minedAt, mempool, up, reorgs, asked>>
ghosts == <<sentAt, early, rejected, unsent>>
vars == <<height, minedAt, mempool, up, inbox, rows, nextId, asked, req, orch,
          crashes, faults, reorgs, sentAt, early, rejected, unsent, missed>>

NoId == 0
NoRow == [id |-> NoId, parent |-> NoId, parentTx |-> NoTx, delay |-> 0, trigger |-> 0]
Stored == {t \in Txs : rows[t] # NoRow}

OrchIdle == [step |-> "idle", height |-> 0, txs |-> {}, tx |-> NoTx, pushed |-> FALSE,
             shift |-> 0, cursor |-> NoId]
OrchDown == [OrchIdle EXCEPT !.step = "down"]

\* A call of schedule that has not begun, or is over.
Over(step) == [step |-> step, script |-> <<>>, last |-> 0, parentTx |-> NoTx,
               parentNlt |-> 0, parentId |-> NoId]

Init ==
    /\ height = StartHeight /\ minedAt = [t \in Txs |-> 0] /\ mempool = {} /\ up = TRUE
    /\ inbox = <<>>
    /\ rows = [t \in Txs |-> NoRow] /\ nextId = 1
    /\ asked \in [Requests -> Scripts]
    /\ req = [r \in Requests |-> Over("new")]
    /\ orch = OrchIdle
    /\ crashes = 0 /\ faults = 0 /\ reorgs = 0
    /\ sentAt = [t \in Txs |-> 0] /\ early = {} /\ rejected = {} /\ unsent = {}
    /\ missed = FALSE

-----------------------------------------------------------------------------
(* bitcoind *)

Known(t) == t \in mempool \/ minedAt[t] # 0
Confirmations(t) == IF minedAt[t] = 0 THEN 0 ELSE height - minedAt[t] + 1

\* A block that mines some of the mempool; its message arrives, or is lost.
NewBlock(mined, told) ==
    /\ height < MaxHeight
    /\ \/ told /\ orch.step # "down" /\ UNCHANGED faults
       \/ ~told /\ orch.step = "down" /\ UNCHANGED faults
       \/ ~told /\ orch.step # "down" /\ faults < MaxFaults /\ faults' = faults + 1
    /\ height' = height + 1
    /\ minedAt' = [t \in Txs |-> IF t \in mined THEN height + 1 ELSE minedAt[t]]
    /\ mempool' = mempool \ mined
    /\ inbox' = IF told THEN Append(inbox, height + 1) ELSE inbox
    /\ missed' = ~told
    /\ UNCHANGED <<up, reorgs, rows, nextId, asked, req, orch, crashes, ghosts>>

\* The last block is replaced by two empty ones; what it had mined waits again.
Reorg ==
    /\ reorgs < MaxReorgs
    /\ StartHeight < height /\ height < MaxHeight
    /\ LET undone == {t \in Txs : minedAt[t] = height}
       IN  /\ mempool' = mempool \cup undone
           /\ minedAt' = [t \in Txs |-> IF t \in undone THEN 0 ELSE minedAt[t]]
    /\ height' = height + 1
    /\ inbox' = IF orch.step = "down" THEN inbox ELSE Append(inbox, height + 1)
    /\ missed' = (orch.step = "down")
    /\ reorgs' = reorgs + 1
    /\ UNCHANGED <<up, rows, nextId, asked, req, orch, crashes, faults, ghosts>>

Disconnect ==
    /\ up /\ faults < MaxFaults
    /\ up' = FALSE
    /\ faults' = faults + 1
    /\ UNCHANGED <<height, minedAt, mempool, reorgs, inbox, rows, nextId, asked, req, orch,
                   crashes, ghosts, missed>>

Reconnect ==
    /\ ~up
    /\ up' = TRUE
    /\ UNCHANGED <<height, minedAt, mempool, reorgs, inbox, rows, nextId, asked, req, orch,
                   crashes, faults, ghosts, missed>>

\* bitcoind drops a transaction of its mempool: expiry, size limit, conflict.
Evict(t) ==
    /\ t \in mempool /\ faults < MaxFaults
    /\ mempool' = mempool \ {t}
    /\ faults' = faults + 1
    /\ UNCHANGED <<height, minedAt, up, reorgs, inbox, rows, nextId, asked, req, orch,
                   crashes, ghosts, missed>>

-----------------------------------------------------------------------------
(* pushTxProcessor.pushTx: getrawtransaction, then sendrawtransaction, whose *)
(* answers are those of one moment                                           *)

\* Already in the mempool or in a block, or accepted by sendrawtransaction.
PushAccepted(t) ==
    /\ up
    /\ Known(t) \/ height >= LockTime[t]
    /\ mempool' = IF Known(t) THEN mempool ELSE mempool \cup {t}
    /\ sentAt' = [sentAt EXCEPT ![t] = IF @ = 0 THEN height ELSE @]
    /\ UNCHANGED <<early, rejected, unsent, faults>>

\* sendrawtransaction answers with an error: not final, or any other reason.
PushRejected(t) ==
    /\ up /\ ~Known(t)
    /\ IF height < LockTime[t] THEN UNCHANGED faults
       ELSE faults < MaxFaults /\ faults' = faults + 1
    /\ early' = IF height < LockTime[t] THEN early \cup {t} ELSE early
    /\ rejected' = rejected \cup {t}
    /\ UNCHANGED <<mempool, sentAt, unsent>>

-----------------------------------------------------------------------------
(* TransactionsScheduler.schedule *)

\* Fault: the entries are stored as the client ordered them.
SortScript_Unsorted(s) == s

\* The order of script.sort, which is stable: by hop, then nLockTime, then place.
Before(s, i, j) ==
    \/ s[i].hop < s[j].hop
    \/ s[i].hop = s[j].hop /\ s[i].nlocktime < s[j].nlocktime
    \/ s[i].hop = s[j].hop /\ s[i].nlocktime = s[j].nlocktime /\ i < j

Place(s, j) == Cardinality({i \in DOMAIN s : Before(s, i, j)}) + 1

SortScript(s) == [k \in DOMAIN s |-> s[CHOOSE j \in DOMAIN s : Place(s, j) = k]]

SortedScripts == [s \in Scripts |-> SortScript(s)]
Script(r) == SortedScripts[asked[r]]

Nlt0(s) == s[1].nlocktime
Delta(s, i) == s[i].nlocktime - Nlt0(s)
BaseHeight(s, last) == IF last >= Nlt0(s) THEN last ELSE Nlt0(s)

\* nLockTime values of a script that starts in the past are moved to the last block.
Rebase(s, last) ==
    [i \in DOMAIN s |->
        [tx |-> s[i].tx, nlocktime |-> BaseHeight(s, last) + Delta(s, i), delta |-> Delta(s, i)]]

Valid(s, last) ==
    /\ Nlt0(s) <= last + MaxDelta
    /\ \A i \in DOMAIN s :
         /\ Delta(s, i) <= MaxDelta
         /\ LockTime[s[i].tx] # 0 /\ LockTime[s[i].tx] = s[i].nlocktime
         /\ i > 1 /\ s[i].hop # s[i - 1].hop => s[i].nlocktime >= s[i - 1].nlocktime

Schedule(r) ==
    /\ req[r].step = "new"
    /\ LET s == Script(r)
       IN  \/ /\ Len(s) \in 1 .. MaxEntries
              /\ up
              /\ Valid(s, height)
              /\ req' = [req EXCEPT ![r] =
                           [step |-> "first", script |-> Rebase(s, height), last |-> height,
                            parentTx |-> NoTx, parentNlt |-> BaseHeight(s, height),
                            parentId |-> NoId]]
           \* refused: size, heights, order, nLockTime, no answer of bitcoind, or
           \* an output that strict mode finds at fault, which any script may have
           \/ req' = [req EXCEPT ![r] = Over("failed")]
    /\ UNCHANGED <<outside, inbox, rows, nextId, orch, crashes, faults, ghosts, missed>>

IsFirst(r) ==
    /\ req[r].script # <<>>
    /\ req[r].script[1].nlocktime <= req[r].last
    /\ req[r].script[1].delta = 0

\* The first transactions are pushed immediately; an error aborts the request.
PushFirst(r) ==
    /\ req[r].step = "first" /\ IsFirst(r)
    /\ LET e == req[r].script[1]
       IN  \/ /\ PushAccepted(e.tx)
              /\ req' = [req EXCEPT ![r].script = Tail(@), ![r].parentTx = e.tx,
                                    ![r].parentNlt = e.nlocktime]
           \/ /\ PushRejected(e.tx)
              /\ req' = [req EXCEPT ![r] = Over("failed")]
           \/ /\ ~up
              /\ req' = [req EXCEPT ![r] = Over("failed")]
              /\ UNCHANGED <<mempool, faults, ghosts>>
    /\ UNCHANGED <<height, minedAt, up, reorgs, asked, inbox, rows, nextId, orch, crashes, missed>>

\* schDelay: relative to the previous transaction
DelayOf(r) == req[r].script[1].nlocktime - req[r].parentNlt

\* The txid is unique, the parent a foreign key.
Insertable(tx, parentId) ==
    rows[tx] = NoRow /\ (parentId = NoId \/ \E t \in Stored : rows[t].id = parentId)

AddScheduledTransaction(tx, parentId, parentTx, delay, trigger) ==
    /\ Insertable(tx, parentId)
    /\ rows' = [rows EXCEPT ![tx] = [id |-> nextId, parent |-> parentId, parentTx |-> parentTx,
                                    delay |-> delay, trigger |-> trigger]]
    /\ nextId' = nextId + 1

StoreEntry(r) ==
    /\ req[r].step = "first" => ~IsFirst(r)
    /\ req[r].step \in {"first", "store"} /\ req[r].script # <<>>
    /\ LET e == req[r].script[1]
       IN  \/ /\ AddScheduledTransaction(e.tx, req[r].parentId, req[r].parentTx, DelayOf(r),
                                         e.nlocktime)
              /\ req' = [req EXCEPT ![r] =
                           [@ EXCEPT !.step = "store", !.script = Tail(req[r].script),
                                     !.parentTx = e.tx, !.parentNlt = e.nlocktime,
                                     !.parentId = nextId]]
              /\ missed' = (missed \/ e.nlocktime <= height)
              /\ UNCHANGED faults
           \/ /\ ~Insertable(e.tx, req[r].parentId)
              /\ req' = [req EXCEPT ![r] = Over("failed")]
              /\ UNCHANGED <<rows, nextId, faults, missed>>
           \/ /\ faults < MaxFaults /\ faults' = faults + 1
              /\ req' = [req EXCEPT ![r] = Over("failed")]
              /\ UNCHANGED <<rows, nextId, missed>>
    /\ UNCHANGED <<outside, inbox, orch, crashes, ghosts>>

Scheduled(r) ==
    /\ req[r].step \in {"first", "store"} /\ req[r].script = <<>>
    /\ req' = [req EXCEPT ![r] = Over("done")]
    /\ UNCHANGED <<outside, inbox, rows, nextId, orch, crashes, faults, ghosts, missed>>

\* The pushtx process dies: the calls under way are lost.
SchedulerCrash ==
    /\ crashes < MaxCrashes
    /\ \E r \in Requests : req[r].step \in {"first", "store"}
    /\ req' = [r \in Requests |-> IF req[r].step \in {"first", "store"} THEN Over("failed")
                                  ELSE req[r]]
    /\ crashes' = crashes + 1
    /\ UNCHANGED <<outside, inbox, rows, nextId, orch, faults, ghosts, missed>>

-----------------------------------------------------------------------------
(* Orchestrator.onBlockHash, guarded by a semaphore *)

\* getblockheader answers, or the notification is dropped.
OnBlockHash ==
    /\ orch.step = "idle" /\ inbox # <<>>
    /\ inbox' = Tail(inbox)
    /\ IF up THEN /\ orch' = [OrchIdle EXCEPT !.step = "select", !.height = Head(inbox)]
                  /\ UNCHANGED missed
       ELSE orch' = OrchIdle /\ missed' = TRUE
    /\ UNCHANGED <<outside, rows, nextId, req, crashes, faults, ghosts>>

\* Fault: a row is taken one block too early.
Activated_OffByOne(h) == {t \in Stored : rows[t].trigger <= h + 1 /\ rows[t].parent = NoId}

\* getActivatedScheduledTransactions
Activated(h) == {t \in Stored : rows[t].trigger <= h /\ rows[t].parent = NoId}

SelectActivated ==
    /\ orch.step = "select"
    /\ \/ /\ orch' = IF Activated(orch.height) = {} THEN OrchIdle
                     ELSE [orch EXCEPT !.step = "loop", !.txs = Activated(orch.height),
                                       !.pushed = FALSE]
          /\ UNCHANGED <<faults, missed>>
       \/ /\ faults < MaxFaults /\ faults' = faults + 1
          /\ orch' = OrchIdle
          /\ missed' = TRUE
    /\ UNCHANGED <<outside, inbox, rows, nextId, req, crashes, ghosts>>

\* Fault: the parent only needs to be mined.
IsReady_NoDelay(t) == rows[t].parentTx # NoTx => Confirmations(rows[t].parentTx) > 0

\* Without a parent, or with a parent of at least schDelay confirmations: bitcoind
\* gives no number of confirmations for a transaction of the mempool.
IsReady(t) ==
    rows[t].parentTx # NoTx =>
        LET n == Confirmations(rows[t].parentTx) IN n > 0 /\ n >= rows[t].delay

\* The loop over the rows just read; getrawtransaction on the parent, if any.
NextActivated(t) ==
    /\ orch.step = "loop" /\ t \in orch.txs
    /\ LET ready == rows[t].parentTx = NoTx \/ (up /\ IsReady(t))
       IN  /\ orch' = IF ready THEN [orch EXCEPT !.step = "push", !.tx = t]
                      ELSE [orch EXCEPT !.txs = @ \ {t}]
           /\ missed' = (missed \/ (~ready /\ ~up))
    /\ UNCHANGED <<outside, inbox, rows, nextId, req, crashes, faults, ghosts>>

\* Fault: the next rows are read once only.
EndLoop_NoRetry ==
    /\ orch.step = "loop" /\ orch.txs = {}
    /\ orch' = OrchIdle
    /\ UNCHANGED <<outside, inbox, rows, nextId, req, crashes, faults, ghosts, missed>>

\* while (rpcConnOk && nbTxsPushed > 0)
EndLoop ==
    /\ orch.step = "loop" /\ orch.txs = {}
    /\ orch' = IF orch.pushed THEN [orch EXCEPT !.step = "select"] ELSE OrchIdle
    /\ UNCHANGED <<outside, inbox, rows, nextId, req, crashes, faults, ghosts, missed>>

\* Fault: the next transactions are shifted by one block too many.
AfterPush_OffByOne(t) ==
    orch' = [orch EXCEPT !.step = "shift", !.shift = orch.height - rows[t].trigger + 1,
                         !.cursor = rows[t].id]

\* What follows a push that is not seen as a connection issue.
AfterPush(t) ==
    orch' = IF rows[t].trigger < orch.height
            THEN [orch EXCEPT !.step = "shift", !.shift = orch.height - rows[t].trigger,
                              !.cursor = rows[t].id]
            ELSE [orch EXCEPT !.step = "delete"]

\* isConnectionError recognises a timeout and a rejection of the connection; not
\* a refused connection, nor an error that is not a string.
PushScheduled ==
    /\ orch.step = "push"
    /\ LET t == orch.tx
       IN  \/ PushAccepted(t) /\ AfterPush(t) /\ UNCHANGED missed
           \/ PushRejected(t) /\ AfterPush(t) /\ UNCHANGED missed
           \/ /\ ~up
              /\ orch' = OrchIdle
              /\ missed' = TRUE
              /\ UNCHANGED <<mempool, faults, ghosts>>
           \/ /\ ~up
              /\ AfterPush(t)
              /\ unsent' = IF sentAt[t] = 0 THEN unsent \cup {t} ELSE unsent
              /\ UNCHANGED <<mempool, faults, missed, sentAt, early, rejected>>
    /\ UNCHANGED <<height, minedAt, up, reorgs, asked, inbox, rows, nextId, req, crashes>>

NextScheduledTransactions(parentId) == {t \in Stored : rows[t].parent = parentId}

UpdateTrigger(t, trigger) == rows' = [rows EXCEPT ![t].trigger = trigger]

\* updateTriggers: the next rows are read, and updated, down the chain.
\* (A row has one successor at most: schedule hands each id to the next entry.)
ShiftNext ==
    /\ orch.step = "shift"
    /\ \E t \in NextScheduledTransactions(orch.cursor) :
         /\ UpdateTrigger(t, rows[t].trigger + orch.shift)
         /\ orch' = [orch EXCEPT !.cursor = rows[t].id]
    /\ UNCHANGED <<outside, inbox, nextId, req, crashes, faults, ghosts, missed>>

EndShift ==
    /\ orch.step = "shift"
    /\ \/ NextScheduledTransactions(orch.cursor) = {} /\ UNCHANGED faults
       \/ faults < MaxFaults /\ faults' = faults + 1
    /\ orch' = [orch EXCEPT !.step = "delete", !.cursor = NoId, !.shift = 0]
    /\ UNCHANGED <<outside, inbox, rows, nextId, req, crashes, ghosts, missed>>

\* Fault: the foreign key of schParentID is ON DELETE CASCADE.
DeleteRow_Cascade(t) ==
    rows' = [u \in Txs |-> IF u = t \/ (rows[t] # NoRow /\ rows[u].parent = rows[t].id)
                           THEN NoRow ELSE rows[u]]

\* ON DELETE SET NULL makes the next row a first one.
NullParentID(row, id) == IF row.parent = id THEN [row EXCEPT !.parent = NoId] ELSE row

\* deleteScheduledTransaction: by txid
DeleteRow(t) ==
    rows' = [u \in Txs |->
                IF u = t THEN NoRow
                ELSE IF rows[t] # NoRow THEN NullParentID(rows[u], rows[t].id)
                ELSE rows[u]]

DeleteScheduled ==
    /\ orch.step = "delete"
    /\ \/ /\ DeleteRow(orch.tx)
          /\ orch' = [orch EXCEPT !.step = "loop", !.txs = @ \ {orch.tx}, !.tx = NoTx,
                                  !.pushed = TRUE]
          /\ UNCHANGED <<faults, missed>>
       \/ /\ faults < MaxFaults /\ faults' = faults + 1
          /\ orch' = [orch EXCEPT !.step = "loop", !.txs = @ \ {orch.tx}, !.tx = NoTx]
          /\ missed' = TRUE
          /\ UNCHANGED rows
    /\ UNCHANGED <<outside, inbox, nextId, req, crashes, ghosts>>

OrchestratorCrash ==
    /\ crashes < MaxCrashes
    /\ orch.step # "down"
    /\ orch' = OrchDown
    /\ inbox' = <<>>
    /\ crashes' = crashes + 1
    /\ missed' = TRUE
    /\ UNCHANGED <<outside, rows, nextId, req, faults, ghosts>>

\* start() opens the socket and waits for the next block.
Start ==
    /\ orch.step = "down"
    /\ orch' = OrchIdle
    /\ UNCHANGED <<outside, inbox, rows, nextId, req, crashes, faults, ghosts, missed>>

-----------------------------------------------------------------------------
Orchestrator ==
    \/ OnBlockHash \/ SelectActivated
    \/ \E t \in Txs : NextActivated(t)
    \/ EndLoop \/ PushScheduled \/ ShiftNext \/ EndShift \/ DeleteScheduled

Scheduler(r) == Schedule(r) \/ PushFirst(r) \/ StoreEntry(r) \/ Scheduled(r)

Environment ==
    \/ \E mined \in SUBSET mempool, told \in BOOLEAN : NewBlock(mined, told)
    \/ Reorg \/ Disconnect \/ Reconnect
    \/ \E t \in Txs : Evict(t)

Next ==
    \/ Environment
    \/ \E r \in Requests : Scheduler(r)
    \/ SchedulerCrash
    \/ Orchestrator
    \/ OrchestratorCrash \/ Start

Spec == Init /\ [][Next]_vars

\* The event loops of the two processes go on.
Fairness ==
    /\ WF_vars(Orchestrator)
    /\ \A r \in Requests : WF_vars(Scheduler(r))

FairSpec == Spec /\ Fairness

-----------------------------------------------------------------------------
(* Properties *)

Row == [id : Nat, parent : Nat, parentTx : Txs \cup {NoTx}, delay : Nat, trigger : Nat]
Entry == [tx : Txs, nlocktime : Nat, delta : Nat]
Call == [step : {"new", "first", "store", "done", "failed"}, script : Seq(Entry), last : Nat,
         parentTx : Txs \cup {NoTx}, parentNlt : Nat, parentId : Nat]

TypeOK ==
    /\ height \in StartHeight .. MaxHeight
    /\ minedAt \in [Txs -> Nat] /\ mempool \subseteq Txs /\ up \in BOOLEAN
    /\ inbox \in Seq(Nat)
    /\ rows \in [Txs -> Row] /\ nextId \in Nat \ {NoId}
    /\ asked \in [Requests -> Scripts] /\ req \in [Requests -> Call]
    /\ orch \in [step : {"idle", "select", "loop", "push", "shift", "delete", "down"},
                 height : Nat, txs : SUBSET Txs, tx : Txs \cup {NoTx}, pushed : BOOLEAN,
                 shift : Nat, cursor : Nat]
    /\ crashes \in Nat /\ faults \in Nat /\ reorgs \in Nat
    /\ sentAt \in [Txs -> Nat]
    /\ early \subseteq Txs /\ rejected \subseteq Txs /\ unsent \subseteq Txs
    /\ missed \in BOOLEAN

\* doc/POST_pushtx_schedule.md, "Transactions are pushed by ascending order of hop
\* values": bitcoind gets a transaction after the one before it in the script, and
\* not before as many blocks as their nLockTime values are apart, whatever crashes,
\* reorganisations, failures and repeated requests there are.
PushedInOrder ==
    \A r \in Requests : \A i \in 2 .. Len(Script(r)) :
        LET before == Script(r)[i - 1]
            entry == Script(r)[i]
        IN  sentAt[entry.tx] # 0 =>
              /\ sentAt[before.tx] # 0
              /\ sentAt[entry.tx] >= sentAt[before.tx] + entry.nlocktime - before.nlocktime

\* No transaction is handed to bitcoind before its nLockTime: the orchestrator
\* would take the refusal for final, and delete the transaction.
NeverEarly == early = {}

\* A script the client was told is scheduled loses no transaction: each one is
\* stored, or bitcoind got it, or its push failed.
NothingLost ==
    \A r \in Requests : req[r].step = "done" =>
        \A i \in DOMAIN Script(r) :
            LET t == Script(r)[i].tx
            IN  t \in Stored \/ sentAt[t] # 0 \/ t \in rejected \cup unsent

\* updateTriggers puts a transaction off by no more than its predecessor was late:
\* once the predecessor was sent, the trigger is not what the transaction waits for,
\* its schDelay confirmations are. (Of one request: a repeated one stores what was
\* pushed already at later heights. Without crash or failed statement: after a push
\* whose row is not deleted, the next block pushes and shifts once more.)
ShiftedOnce ==
    /\ crashes = 0 /\ faults = 0
    /\ \A r, q \in Requests : req[r].step # "new" /\ req[q].step # "new" => r = q
    => \A t \in Stored :
         rows[t].parent = NoId /\ rows[t].parentTx # NoTx =>
             rows[t].trigger <= sentAt[rows[t].parentTx] + rows[t].delay

\* A request that is sent again, at once or after a crash, neither reorders the
\* pushes of its script nor loses a transaction the client was told is scheduled.
RetryIsHarmless == PushedInOrder /\ NothingLost

\* A row that the next block, a confirmation, or the end of its predecessor's wait
\* has to release.
Waits(t) ==
    \/ rows[t].trigger > height
    \/ rows[t].parent # NoId
    \/ ~IsReady(t)

\* The orchestrator does not leave behind what it may push: when blocks stop coming,
\* and no notification was missed, every row that is left waits for a block or for
\* the confirmations of its parent transaction.
EventuallyPushed == []<>(missed \/ ~up \/ \A t \in Stored : Waits(t))

\* pushtx/orchestrator.ts, "Check if it's an issue with the connection to the RPC API
\* (=> immediately stop the loop)": no transaction is deleted from the table because
\* bitcoind could not be reached.
KeptWhileUnreachable == unsent \cap (Txs \ Stored) = {}

=============================================================================
