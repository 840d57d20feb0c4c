------------------------------ MODULE BlockSync ------------------------------
(***************************************************************************)
(* How the tracker keeps the tables `blocks` and `transactions` in step    *)
(* with bitcoind's best chain: the catch-up at startup, the handler of a   *)
(* block notification (backtrace, rewind, range of blocks), the rescan     *)
(* endpoint, the periodic check of unconfirmed transactions, and the       *)
(* crash and restart of the process between any two database calls.        *)
(*                                                                         *)
(* bitcoind itself is the environment: a tree of blocks of which one       *)
(* branch is the best chain, and which switches branch at any moment.      *)
(* Every step below is one awaited call (RPC or SQL) of the code, with     *)
(* the synchronous code around it.                                         *)
(***************************************************************************)
EXTENDS Integers, FiniteSets, Sequences

CONSTANTS
    Blocks,       \* block hashes bitcoind may ever serve
    NoBlock,      \* SQL NULL, or no block in hand
    Gone,         \* the id of a row that has since been deleted
    Txs,          \* transactions of interest to some tracked account
    Missing,      \* a transaction without a row
    MaxHeight,    \* bound: height of the highest block of the tree
    Height,       \* height of each block
    Anc,          \* Anc[b][h]: the ancestor of b at height h (b itself at its own)
    BlockTxs,     \* transactions of interest in each block
    IBDHeight,    \* network.ibdBlockHeight
    IBDLag,       \* blocks behind the headers that force IBD mode (13000)
    BlockChunk,   \* heights fetched together by processBlockRange (10)
    HeaderChunk,  \* heights fetched together by catchupIBDMode (40)
    PoolSize,     \* RPC calls in flight within a chunk (4)
    MaxCrashes,   \* bound: crashes of the tracker and rescans, together
    MaxRescans    \* bound: calls of the rescan endpoint

Heights == 0 .. MaxHeight

\* x is b or an ancestor of b
OnChain(x, b) == Height[x] <= Height[b] /\ Anc[b][Height[x]] = x

ASSUME BoundsAssumption ==
    /\ MaxHeight \in Nat
    /\ IBDHeight \in Nat /\ IBDLag \in Nat
    /\ BlockChunk \in Nat \ {0} /\ HeaderChunk \in Nat \ {0}
    /\ PoolSize \in Nat \ {0}
    /\ MaxCrashes \in Nat /\ MaxRescans \in Nat

\* The blocks form trees: Anc[b] is the branch that ends in b.
ASSUME TreeAssumption ==
    /\ Height \in [Blocks -> Heights]
    /\ \A b \in Blocks :
         /\ Anc[b] \in [0 .. Height[b] -> Blocks]
         /\ Anc[b][Height[b]] = b
         /\ \A h \in 0 .. Height[b] :
              /\ Height[Anc[b][h]] = h
              /\ \A k \in 0 .. h : Anc[Anc[b][h]][k] = Anc[b][k]

ASSUME NamesAssumption ==
    /\ NoBlock \notin Blocks /\ Gone \notin Blocks /\ Missing \notin Blocks
    /\ NoBlock # Gone /\ NoBlock # Missing
    /\ BlockTxs \in [Blocks -> SUBSET Txs]

\* A transaction is mined at most once on a branch.
ASSUME MinedOnceAssumption ==
    \A b \in Blocks : \A g, h \in 0 .. Height[b] :
        g # h => BlockTxs[Anc[b][g]] \cap BlockTxs[Anc[b][h]] = {}

VARIABLES
    tip,         \* bitcoind: last block of the best chain
    inbox,       \* `hashblock` messages waiting for the semaphore, oldest first
    dbBlocks,    \* hashes with a row in table blocks
    dbParent,    \* column blockParent of each row (NoBlock: NULL)
    txBlock,     \* column blockID of each transaction (NoBlock: NULL; Missing: no row)
    job,         \* program counter and locals of the two tasks over block ranges
    chk,         \* program counter and locals of checkUnconfirmed
    crashes, rescans,
    \* history variables, read by no action of the code
    lost,        \* nothing under way tells the tracker of the current tip
    exposed,     \* one of the windows listed at Exposes has been hit
    headerOnly   \* rows added from a header, in IBD mode

vars == <<tip, inbox, dbBlocks, dbParent, txBlock, job, chk, crashes, rescans,
          lost, exposed, headerOnly>>

Workers == {"chain", "rescan"}

Idle == [mode |-> "none", step |-> "idle", top |-> NoBlock,
         lo |-> 0, at |-> 0, hi |-> 0, got |-> [h \in Heights |-> NoBlock],
         todo |-> {}, ref |-> NoBlock]

Down == [Idle EXCEPT !.step = "down"]

ChkOff == [step |-> "off", tx |-> Missing, ref |-> NoBlock]

-----------------------------------------------------------------------------
(* Vocabulary *)

MainChain == {x \in Blocks : OnChain(x, tip)}
ChainTxs(b) == UNION {BlockTxs[Anc[b][h]] : h \in 0 .. Height[b]}
Prev(b) == Anc[b][Height[b] - 1]

\* getHighestBlock: a row of greatest height, or {blockID: null, blockHeight: 0}
HighestRows ==
    IF dbBlocks = {} THEN {NoBlock}
    ELSE {b \in dbBlocks : \A c \in dbBlocks : Height[c] <= Height[b]}
RowHeight(b) == IF b = NoBlock THEN 0 ELSE Height[b]

InFlight == {job[w].got[h] : w \in Workers, h \in Heights} \ {NoBlock}

\* start() opens the socket, and starts the mempool processor, once catchup returned
Listening == job["chain"].step = "idle" \/ job["chain"].mode = "live"

\* no task over blocks is running, none is queued
Quiet == job["chain"].step = "idle" /\ job["rescan"].step = "idle" /\ inbox = <<>>

BeforeRewind(w) == job[w].step \in {"trace", "select", "unconfirm", "delete"}

Orphans(b) == {x \in dbBlocks : ~OnChain(x, b)}

\* The windows the code leaves open, for a change of the best chain to b:
\*  - bitcoind leaves a branch whose blocks the tracker has stored or fetched
\*    while a task is running or a notification is waiting;
\*  - a transaction reported unknown is mined before its row is deleted;
\*  - bitcoind returns to a branch it had left, and a transaction of a block of it
\*    that has a row still was deleted as unknown in between.
\* The two others are a crash and a rescan while a row is off the best chain.
Exposes(b) ==
    \/ /\ ~OnChain(tip, b)
       /\ ~Quiet
       /\ \E x \in dbBlocks \cup InFlight : ~OnChain(x, b)
    \/ chk.step = "delete" /\ chk.tx \in ChainTxs(b)
    \/ \E x \in dbBlocks \ headerOnly :
         /\ ~OnChain(x, tip) /\ OnChain(x, b)
         /\ \E t \in BlockTxs[x] : txBlock[t] = Missing

-----------------------------------------------------------------------------
Init ==
    /\ tip \in Blocks
    /\ inbox = <<>>
    /\ dbBlocks = {}
    /\ dbParent = [b \in Blocks |-> NoBlock]
    /\ txBlock = [t \in Txs |-> Missing]
    /\ job = [w \in Workers |-> IF w = "chain" THEN Down ELSE Idle]
    /\ chk = ChkOff
    /\ crashes = 0 /\ rescans = 0
    /\ lost = FALSE /\ exposed = FALSE
    /\ headerOnly = {}

-----------------------------------------------------------------------------
(* bitcoind *)

\* The best chain becomes the branch of b: an extension, or a reorganisation.
\* The `hashblock` message reaches the tracker or is lost.
NewTip(b, told) ==
    /\ Height[b] > Height[tip]
    /\ told => Listening
    /\ tip' = b
    /\ inbox' = IF told THEN Append(inbox, b) ELSE inbox
    /\ lost' = ~told
    /\ exposed' = (exposed \/ Exposes(b))
    /\ UNCHANGED <<dbBlocks, dbParent, txBlock, job, chk, crashes, rescans, headerOnly>>

\* The process dies: kill, process.exit() on a failed fetch, unhandled rejection.
Die ==
    /\ job' = [w \in Workers |-> IF w = "chain" THEN Down ELSE Idle]
    /\ chk' = ChkOff
    /\ inbox' = <<>>
    /\ crashes' = crashes + 1
    /\ exposed' = (exposed \/ Orphans(tip) # {})
    /\ UNCHANGED <<tip, dbBlocks, dbParent, txBlock, rescans, lost, headerOnly>>

Crash ==
    /\ crashes + rescans < MaxCrashes
    /\ job["chain"].step # "down"
    /\ Die

-----------------------------------------------------------------------------
(* Startup: catchup, catchupIBDMode, catchupNormalMode, then initSockets *)

Restart ==
    /\ job["chain"].step = "down"
    /\ job' = [job EXCEPT !["chain"].step = "boot"]
    /\ UNCHANGED <<tip, inbox, dbBlocks, dbParent, txBlock, chk, crashes, rescans,
                   lost, exposed, headerOnly>>

Catchup ==
    /\ job["chain"].step = "boot"
    /\ \E row \in HighestRows, headers \in Height[tip] .. MaxHeight :
         LET isIBD == RowHeight(row) < IBDHeight \/ RowHeight(row) < headers - IBDLag
         IN  job' = [job EXCEPT !["chain"].step = IF isIBD THEN "bootIBD" ELSE "bootNormal"]
    /\ UNCHANGED <<tip, inbox, dbBlocks, dbParent, txBlock, chk, crashes, rescans,
                   lost, exposed, headerOnly>>

\* Start a task over the heights from .. to; row is the previous block, in IBD mode.
RunRange(w, mode, from, to, row) ==
    [job[w] EXCEPT !.mode = mode, !.step = "pull",
                   !.lo = from, !.at = from, !.hi = to, !.ref = row]

CatchupNormalMode ==
    /\ job["chain"].step = "bootNormal"
    /\ \E row \in HighestRows :
         job' = [job EXCEPT !["chain"] =
                   IF Height[tip] <= RowHeight(row) THEN Idle
                   ELSE RunRange("chain", "boot", RowHeight(row), Height[tip], NoBlock)]
    /\ lost' = FALSE
    /\ UNCHANGED <<tip, inbox, dbBlocks, dbParent, txBlock, chk, crashes, rescans,
                   exposed, headerOnly>>

\* An error of the database or of bitcoind is logged and startup goes on without catch-up.
CatchupNormalModeFails ==
    /\ job["chain"].step = "bootNormal"
    /\ job' = [job EXCEPT !["chain"] = Idle]
    /\ lost' = TRUE
    /\ UNCHANGED <<tip, inbox, dbBlocks, dbParent, txBlock, chk, crashes, rescans,
                   exposed, headerOnly>>

\* One iteration of the loop; the branches that wait and retry change nothing.
CatchupIBDMode ==
    /\ job["chain"].step = "bootIBD"
    /\ \E row \in HighestRows, headers \in Height[tip] .. MaxHeight :
         \/ /\ headers > 0 /\ Height[tip] > 0
            /\ headers - 1 > RowHeight(row)
            /\ Height[tip] - 1 > RowHeight(row)
            /\ job' = [job EXCEPT !["chain"] =
                         RunRange("chain", "ibd", RowHeight(row) + 1, Height[tip], row)]
            /\ lost' = FALSE
         \/ /\ headers > 0 /\ Height[tip] > 0
            /\ headers - 1 <= RowHeight(row)
            /\ job' = [job EXCEPT !["chain"] = Idle]
            /\ lost' = (RowHeight(row) < Height[tip])
    /\ UNCHANGED <<tip, inbox, dbBlocks, dbParent, txBlock, chk, crashes, rescans,
                   exposed, headerOnly>>

-----------------------------------------------------------------------------
(* onBlockHash, guarded by a semaphore: one notification at a time *)

OnBlockHash ==
    /\ job["chain"].step = "idle"
    /\ inbox # <<>>
    /\ inbox' = Tail(inbox)
    /\ job' = [job EXCEPT !["chain"] =
                 [Idle EXCEPT !.mode = "live", !.step = "trace", !.top = Head(inbox),
                              !.lo = Height[Head(inbox)], !.hi = Height[Head(inbox)]]]
    /\ UNCHANGED <<tip, dbBlocks, dbParent, txBlock, chk, crashes, rescans,
                   lost, exposed, headerOnly>>

\* A call of the trace or of the rewind fails: the notification is dropped.
OnBlockHashFails ==
    /\ BeforeRewind("chain")
    /\ job' = [job EXCEPT !["chain"] = Idle]
    /\ lost' = (lost \/ inbox = <<>>)
    /\ UNCHANGED <<tip, inbox, dbBlocks, dbParent, txBlock, chk, crashes, rescans,
                   exposed, headerOnly>>

\* Fault: the block is processed without looking for its parent.
ChainBacktrace_NoParentCheck ==
    /\ job["chain"].step = "trace"
    /\ job' = [job EXCEPT !["chain"].step = "select", !["chain"].at = job["chain"].lo]
    /\ UNCHANGED <<tip, inbox, dbBlocks, dbParent, txBlock, chk, crashes, rescans,
                   lost, exposed, headerOnly>>

\* The deepest header in hand is that of height lo on the branch of top.
ChainBacktrace ==
    /\ job["chain"].step = "trace"
    /\ LET lo == job["chain"].lo
           known == lo = 0 \/ Anc[job["chain"].top][lo - 1] \in dbBlocks
       IN  job' = [job EXCEPT !["chain"] =
                     IF known THEN [@ EXCEPT !.step = "select", !.at = lo]
                     ELSE [@ EXCEPT !.lo = lo - 1]]
    /\ UNCHANGED <<tip, inbox, dbBlocks, dbParent, txBlock, chk, crashes, rescans,
                   lost, exposed, headerOnly>>

\* Fault: rewind returns early when no transaction is confirmed above the fork.
RewindSelect_EarlyReturn ==
    /\ job["chain"].step = "select"
    /\ LET txids == {t \in Txs : /\ txBlock[t] \in Blocks
                                 /\ Height[txBlock[t]] > job["chain"].lo}
       IN  job' = [job EXCEPT !["chain"].todo = txids,
                              !["chain"].step = IF txids = {} THEN "pull" ELSE "unconfirm"]
    /\ UNCHANGED <<tip, inbox, dbBlocks, dbParent, txBlock, chk, crashes, rescans,
                   lost, exposed, headerOnly>>

\* rewind, first call: the transactions confirmed above the known height
RewindSelect ==
    /\ job["chain"].step = "select"
    /\ LET txids == {t \in Txs : /\ txBlock[t] \in Blocks
                                 /\ Height[txBlock[t]] >= job["chain"].lo}
       IN  job' = [job EXCEPT !["chain"].todo = txids,
                              !["chain"].step = IF txids = {} THEN "delete" ELSE "unconfirm"]
    /\ UNCHANGED <<tip, inbox, dbBlocks, dbParent, txBlock, chk, crashes, rescans,
                   lost, exposed, headerOnly>>

RewindUnconfirm ==
    /\ job["chain"].step = "unconfirm"
    /\ txBlock' = [t \in Txs |-> IF t \in job["chain"].todo /\ txBlock[t] # Missing
                                 THEN NoBlock ELSE txBlock[t]]
    /\ job' = [job EXCEPT !["chain"].todo = {}, !["chain"].step = "delete"]
    /\ UNCHANGED <<tip, inbox, dbBlocks, dbParent, chk, crashes, rescans,
                   lost, exposed, headerOnly>>

\* deleteBlocksAfterHeight. The foreign keys of blockParent and of
\* transactions.blockID are ON DELETE SET NULL; an id some task still holds
\* will never name a row again (AUTO_INCREMENT).
Forget(dead, id) == IF id \in dead THEN Gone ELSE id

DeleteRows(dead) ==
    /\ dbBlocks' = dbBlocks \ dead
    /\ dbParent' = [b \in Blocks |-> IF b \in dead \/ dbParent[b] \in dead
                                     THEN NoBlock ELSE dbParent[b]]
    /\ headerOnly' = headerOnly \ dead
    /\ chk' = [chk EXCEPT !.ref = IF chk.step = "confirm" THEN Forget(dead, @) ELSE @]
    /\ job' = [job EXCEPT !["chain"].step = "pull", !["rescan"].ref = Forget(dead, @)]
    /\ UNCHANGED <<tip, inbox, crashes, rescans, lost, exposed>>

NullBlockIDs(dead) ==
    txBlock' = [t \in Txs |-> IF txBlock[t] \in dead THEN NoBlock ELSE txBlock[t]]

\* Fault: the block of the deepest header survives the rewind.
RewindDelete_OffByOne ==
    /\ job["chain"].step = "delete"
    /\ LET dead == {b \in dbBlocks : Height[b] > job["chain"].lo}
       IN  DeleteRows(dead) /\ NullBlockIDs(dead)

\* Fault: transactions.blockID without ON DELETE SET NULL.
RewindDelete_NoSetNull ==
    /\ job["chain"].step = "delete"
    /\ DeleteRows({b \in dbBlocks : Height[b] >= job["chain"].lo})
    /\ UNCHANGED txBlock

RewindDelete ==
    /\ job["chain"].step = "delete"
    /\ LET dead == {b \in dbBlocks : Height[b] >= job["chain"].lo}
       IN  DeleteRows(dead) /\ NullBlockIDs(dead)

-----------------------------------------------------------------------------
(* rescanBlocks, a task of its own that no semaphore guards *)

RescanBlocks(from, to) ==
    /\ rescans < MaxRescans /\ crashes + rescans < MaxCrashes
    /\ job["rescan"].step = "idle"
    /\ job["chain"].step # "down"
    /\ \E row \in HighestRows :
         /\ from <= to /\ to <= RowHeight(row)
         /\ job' = [job EXCEPT !["rescan"] = RunRange("rescan", "rescan", from, to, NoBlock)]
    /\ rescans' = rescans + 1
    /\ exposed' = (exposed \/ Orphans(tip) # {})
    /\ UNCHANGED <<tip, inbox, dbBlocks, dbParent, txBlock, chk, crashes, lost, headerOnly>>

-----------------------------------------------------------------------------
(* processBlockRange (and the loop of catchupIBDMode): the heights are      *)
(* fetched by chunks, in a pool of PoolSize calls, and each chunk is pushed *)
(* to a queue that is processed in order, one block at a time.              *)

ChunkSize(w) == IF job[w].mode = "ibd" THEN HeaderChunk ELSE BlockChunk
ChunkOf(w, h) == (h - job[w].lo) \div ChunkSize(w)
Waiting(w) == {h \in job[w].at .. job[w].hi : job[w].got[h] = NoBlock}
InRange(w) == job[w].step \in {"pull", "store", "add", "confirm"}

\* getblockhash(height), then getblock of that hash
FetchBlock(w, h) ==
    /\ InRange(w)
    /\ h \in Waiting(w)
    /\ \A k \in Waiting(w) : ChunkOf(w, k) >= ChunkOf(w, h)
    /\ Cardinality({k \in Waiting(w) : k < h}) < PoolSize
    /\ h <= Height[tip]
    /\ job' = [job EXCEPT ![w].got[h] = Anc[tip][h]]
    /\ UNCHANGED <<tip, inbox, dbBlocks, dbParent, txBlock, chk, crashes, rescans,
                   lost, exposed, headerOnly>>

Cur(w) == job[w].got[job[w].at]

\* The queue takes its next block: its chunk has been pushed.
ProcessBlock(w) ==
    /\ job[w].step = "pull"
    /\ job[w].at <= job[w].hi
    /\ \A k \in Waiting(w) : ChunkOf(w, k) > ChunkOf(w, job[w].at)
    /\ job' = [job EXCEPT ![w] =
                 IF @.mode = "ibd" THEN [@ EXCEPT !.step = "add"]
                 ELSE [@ EXCEPT !.step = "store", !.todo = BlockTxs[Cur(w)]]]
    /\ UNCHANGED <<tip, inbox, dbBlocks, dbParent, txBlock, chk, crashes, rescans,
                   lost, exposed, headerOnly>>

\* processOutputs and processInputs insert the missing rows, in any order.
StoreTx(w, t) ==
    /\ job[w].step = "store"
    /\ t \in job[w].todo
    /\ txBlock' = [txBlock EXCEPT ![t] = IF @ = Missing THEN NoBlock ELSE @]
    /\ job' = [job EXCEPT ![w].todo = @ \ {t}]
    /\ UNCHANGED <<tip, inbox, dbBlocks, dbParent, chk, crashes, rescans,
                   lost, exposed, headerOnly>>

ParentRow(b) == IF Height[b] > 0 /\ Prev(b) \in dbBlocks THEN Prev(b) ELSE NoBlock

\* Fault: the block is registered without waiting for its transactions.
ReadParent_NotAwaited(w) ==
    /\ job[w].step = "store"
    /\ job' = [job EXCEPT ![w].step = "add", ![w].ref = ParentRow(Cur(w))]
    /\ UNCHANGED <<tip, inbox, dbBlocks, dbParent, txBlock, chk, crashes, rescans,
                   lost, exposed, headerOnly>>

\* registerBlock, first call: the row of the parent block
ReadParent(w) ==
    /\ job[w].step = "store"
    /\ job[w].todo = {}
    /\ job' = [job EXCEPT ![w].step = "add", ![w].ref = ParentRow(Cur(w))]
    /\ UNCHANGED <<tip, inbox, dbBlocks, dbParent, txBlock, chk, crashes, rescans,
                   lost, exposed, headerOnly>>

\* addBlock, INSERT IGNORE: a hash already in the table keeps its row.
AddBlock(w) ==
    /\ job[w].step = "add"
    /\ \/ Cur(w) \in dbBlocks
       \/ job[w].ref # Gone
    /\ dbBlocks' = dbBlocks \cup {Cur(w)}
    /\ dbParent' = IF Cur(w) \in dbBlocks THEN dbParent
                   ELSE [dbParent EXCEPT ![Cur(w)] = job[w].ref]
    /\ headerOnly' = IF job[w].mode # "ibd" THEN headerOnly \ {Cur(w)}
                     ELSE IF Cur(w) \in dbBlocks THEN headerOnly
                     ELSE headerOnly \cup {Cur(w)}
    /\ job' = [job EXCEPT ![w] =
                 IF @.mode = "ibd"
                 THEN [@ EXCEPT !.step = "pull", !.ref = Cur(w),
                                !.at = job[w].at + 1, !.got[job[w].at] = NoBlock]
                 ELSE [@ EXCEPT !.step = "confirm", !.ref = Cur(w)]]
    /\ UNCHANGED <<tip, inbox, txBlock, chk, crashes, rescans, lost, exposed>>

\* The parent row is gone: the row is ignored, no id is found, and the error
\* thrown inside the queue is an unhandled rejection.
AddBlockFails(w) ==
    /\ job[w].step = "add"
    /\ Cur(w) \notin dbBlocks /\ job[w].ref = Gone
    /\ Die

\* confirmTransactions: one UPDATE of the rows that exist
Confirmed(w) == {t \in BlockTxs[Cur(w)] : txBlock[t] # Missing}

ConfirmTransactions(w) ==
    /\ job[w].step = "confirm"
    /\ job[w].ref # Gone \/ Confirmed(w) = {}
    /\ txBlock' = [t \in Txs |-> IF t \in Confirmed(w) THEN Cur(w) ELSE txBlock[t]]
    /\ job' = [job EXCEPT ![w] =
                 [@ EXCEPT !.step = "pull", !.ref = NoBlock, !.at = job[w].at + 1,
                           !.got[job[w].at] = NoBlock]]
    /\ UNCHANGED <<tip, inbox, dbBlocks, dbParent, chk, crashes, rescans,
                   lost, exposed, headerOnly>>

ConfirmTransactionsFails(w) ==
    /\ job[w].step = "confirm"
    /\ job[w].ref = Gone /\ Confirmed(w) # {}
    /\ Die

\* Fault: the semaphore is not released.
EndRange_NoRelease(w) ==
    /\ job[w].step = "pull"
    /\ job[w].at > job[w].hi
    /\ job[w].mode # "live"
    /\ job' = [job EXCEPT ![w] = IF @.mode = "ibd" THEN [Idle EXCEPT !.step = "bootIBD"]
                                 ELSE Idle]
    /\ UNCHANGED <<tip, inbox, dbBlocks, dbParent, txBlock, chk, crashes, rescans,
                   lost, exposed, headerOnly>>

\* The range is done: release the semaphore, open the socket, start a new
\* iteration of the IBD loop, or answer the rescan request.
EndRange(w) ==
    /\ job[w].step = "pull"
    /\ job[w].at > job[w].hi
    /\ job' = [job EXCEPT ![w] = IF @.mode = "ibd" THEN [Idle EXCEPT !.step = "bootIBD"]
                                 ELSE Idle]
    /\ UNCHANGED <<tip, inbox, dbBlocks, dbParent, txBlock, chk, crashes, rescans,
                   lost, exposed, headerOnly>>

-----------------------------------------------------------------------------
(* MempoolProcessor: a transaction of interest seen in the mempool is       *)
(* stored; the unconfirmed ones are checked one after the other.            *)

StoreMempoolTx(t) ==
    /\ Listening
    /\ txBlock[t] = Missing
    /\ txBlock' = [txBlock EXCEPT ![t] = NoBlock]
    /\ UNCHANGED <<tip, inbox, dbBlocks, dbParent, job, chk, crashes, rescans,
                   lost, exposed, headerOnly>>

\* getUnconfirmedTransactionIds
CheckUnconfirmed(t) ==
    /\ Listening
    /\ chk.step = "off"
    /\ txBlock[t] = NoBlock
    /\ chk' = [step |-> "ask", tx |-> t, ref |-> NoBlock]
    /\ UNCHANGED <<tip, inbox, dbBlocks, dbParent, txBlock, job, crashes, rescans,
                   lost, exposed, headerOnly>>

\* getrawtransaction: mined in some block, in the mempool, or unknown
AskTransaction ==
    /\ chk.step = "ask"
    /\ \/ \E b \in MainChain :
            /\ chk.tx \in BlockTxs[b]
            /\ chk' = [chk EXCEPT !.step = "find", !.ref = b]
       \/ /\ chk.tx \notin ChainTxs(tip)
          /\ \/ chk' = ChkOff
             \/ chk' = [chk EXCEPT !.step = "delete"]
    /\ UNCHANGED <<tip, inbox, dbBlocks, dbParent, txBlock, job, crashes, rescans,
                   lost, exposed, headerOnly>>

\* Fault: a transaction found in a block is left for the block processor.
FindBlock_NeverConfirms ==
    /\ chk.step = "find"
    /\ chk' = ChkOff
    /\ UNCHANGED <<tip, inbox, dbBlocks, dbParent, txBlock, job, crashes, rescans,
                   lost, exposed, headerOnly>>

\* getBlockByHash
FindBlock ==
    /\ chk.step = "find"
    /\ chk' = IF chk.ref \in dbBlocks THEN [chk EXCEPT !.step = "confirm"] ELSE ChkOff
    /\ UNCHANGED <<tip, inbox, dbBlocks, dbParent, txBlock, job, crashes, rescans,
                   lost, exposed, headerOnly>>

\* A foreign key error is caught and logged.
ConfirmChecked ==
    /\ chk.step = "confirm"
    /\ txBlock' = IF chk.ref = Gone \/ txBlock[chk.tx] = Missing THEN txBlock
                  ELSE [txBlock EXCEPT ![chk.tx] = chk.ref]
    /\ chk' = ChkOff
    /\ UNCHANGED <<tip, inbox, dbBlocks, dbParent, job, crashes, rescans,
                   lost, exposed, headerOnly>>

DeleteUnknown ==
    /\ chk.step = "delete"
    /\ txBlock' = [txBlock EXCEPT ![chk.tx] = Missing]
    /\ chk' = ChkOff
    /\ UNCHANGED <<tip, inbox, dbBlocks, dbParent, job, crashes, rescans,
                   lost, exposed, headerOnly>>

-----------------------------------------------------------------------------
BlockTask(w) ==
    \/ \E h \in Heights : FetchBlock(w, h)
    \/ ProcessBlock(w)
    \/ \E t \in Txs : StoreTx(w, t)
    \/ ReadParent(w)
    \/ AddBlock(w)
    \/ AddBlockFails(w)
    \/ ConfirmTransactions(w)
    \/ ConfirmTransactionsFails(w)
    \/ EndRange(w)

Startup == Restart \/ Catchup \/ CatchupNormalMode \/ CatchupIBDMode

Notification ==
    OnBlockHash \/ ChainBacktrace \/ RewindSelect \/ RewindUnconfirm \/ RewindDelete

Check == AskTransaction \/ FindBlock \/ ConfirmChecked \/ DeleteUnknown

Next ==
    \/ \E b \in Blocks, told \in BOOLEAN : NewTip(b, told)
    \/ Crash
    \/ Startup \/ CatchupNormalModeFails
    \/ Notification \/ OnBlockHashFails
    \/ \E from, to \in Heights : RescanBlocks(from, to)
    \/ \E w \in Workers : BlockTask(w)
    \/ \E t \in Txs : StoreMempoolTx(t) \/ CheckUnconfirmed(t)
    \/ Check

Spec == Init /\ [][Next]_vars

\* The event loop runs every task that can make progress, the process manager
\* restarts the tracker, and an interval timer starts the check again and again
\* for every unconfirmed transaction. bitcoind, crashes, failures and the
\* rescan endpoint are under no obligation.
Fairness ==
    /\ WF_vars(Startup)
    /\ WF_vars(Notification)
    /\ \A w \in Workers : WF_vars(BlockTask(w))
    /\ WF_vars(Check)
    /\ \A t \in Txs : SF_vars(CheckUnconfirmed(t))

FairSpec == Spec /\ Fairness

-----------------------------------------------------------------------------
(* Properties *)

Job == [mode : {"none", "ibd", "boot", "live", "rescan"},
        step : {"down", "boot", "bootIBD", "bootNormal", "idle", "trace", "select",
                "unconfirm", "delete", "pull", "store", "add", "confirm"},
        top : Blocks \cup {NoBlock},
        lo : Nat, at : Nat, hi : Nat,
        got : [Heights -> Blocks \cup {NoBlock}],
        todo : SUBSET Txs,
        ref : Blocks \cup {NoBlock, Gone}]

\* Types; columns that are foreign keys name existing rows.
TypeOK ==
    /\ tip \in Blocks
    /\ inbox \in Seq(Blocks)
    /\ dbBlocks \subseteq Blocks
    /\ dbParent \in [Blocks -> dbBlocks \cup {NoBlock}]
    /\ txBlock \in [Txs -> dbBlocks \cup {NoBlock, Missing}]
    /\ job \in [Workers -> Job]
    /\ chk \in [step : {"off", "ask", "find", "confirm", "delete"},
                tx : Txs \cup {Missing}, ref : Blocks \cup {NoBlock, Gone}]
    /\ crashes \in Nat /\ rescans \in Nat
    /\ lost \in BOOLEAN /\ exposed \in BOOLEAN
    /\ headerOnly \subseteq dbBlocks

\* onBlockHash, "Delete block entries not on the main chain": outside the windows
\* of Exposes, a row off the best chain is one the tracker is about to delete,
\* or has not been told about.
OrphansArePending ==
    ~exposed /\ Orphans(tip) # {} =>
        lost \/ inbox # <<>> \/ BeforeRewind("chain")

\* The table never mixes two branches, even while a reorganisation is handled:
\* the rewind always reaches down to the fork before a new block is registered.
OneBranch ==
    ~exposed => \A x, y \in dbBlocks : Height[x] <= Height[y] => OnChain(x, y)

\* The heights in the table are an interval, whatever crashes and reorganisations
\* happen: catchupNormalMode starts at the highest row and never fills a hole.
NoGap ==
    rescans = 0 =>
        \A x, y \in dbBlocks : \A h \in Height[x] .. Height[y] :
            \E z \in dbBlocks : Height[z] = h

\* processBlock stores the transactions before it registers the block, so that a
\* registered block has lost none of them, whenever the tracker crashed.
RegisteredIsStored ==
    ~exposed =>
        \A b \in (dbBlocks \cap MainChain) \ headerOnly : \A t \in BlockTxs[b] :
            txBlock[t] # Missing

\* registerBlock and processBlockHeader link a row to the row of its parent block.
ParentLinked ==
    ~exposed /\ rescans = 0 =>
        \A b \in dbBlocks : Height[b] > 0 /\ Prev(b) \in dbBlocks => dbParent[b] = Prev(b)

\* A registered block has lost neither its transactions nor its parent.
RowsAreComplete == RegisteredIsStored /\ ParentLinked

\* A confirmation moves to another block only through rewind, never directly:
\* clients see the transaction unconfirmed in between.
ConfirmationIsCancelledFirst ==
    [][\A t \in Txs :
          {txBlock[t], txBlock'[t]} \subseteq Blocks /\ txBlock'[t] # txBlock[t] => exposed]_vars

\* The tracker ends up with the row of bitcoind's tip, unless no notification of
\* it reached the tracker; in particular the semaphore is always released.
\* (While bitcoind has no block above genesis, IBD mode waits.)
EventuallySynced == <>[](exposed \/ lost \/ Height[tip] = 0 \/ tip \in dbBlocks)

\* A transaction of a registered block ends up confirmed in that block, also when
\* the tracker crashed between registerBlock and confirmTransactions: the restart
\* does not process the block again, checkUnconfirmed repairs it.
EventuallyConfirmed ==
    \A t \in Txs :
        <>[](\/ exposed
             \/ \A b \in (dbBlocks \cap MainChain) \ headerOnly :
                    t \in BlockTxs[b] => txBlock[t] = b)

\* What the comment of onBlockHash states, with no exception for timing: once a
\* notification for the current tip has been handled, no row is off the best chain.
NotOnMainChainIsDeleted ==
    Quiet /\ ~lost => Orphans(tip) = {}
=============================================================================
