# A TLA+ model of Samourai Dojo

Dojo is the back end of a Bitcoin wallet: it follows the block chain and the
mempool of a bitcoind node for the addresses of its users, keeps what concerns
them in a MySQL database, answers their wallets over REST and web sockets, and
pushes their transactions, at once or on a schedule. This directory holds TLA+
modules translated from its TypeScript source (`src/` below is the root of the
repository), the configurations that check them with TLC, and proofs checked by
TLAPS.

## 1. The system

Four processes of Node.js, each with one event loop, share the database and
talk to bitcoind (RPC, zmq) and to each other (zmq).

| part | state it keeps | operations | talks to |
|---|---|---|---|
| tracker: block synchronisation (`tracker/blockchain-processor.ts`, `block.ts`) | tables `blocks` and `transactions`; a semaphore | catch-up at startup (IBD and normal mode), `onBlockHash`, `rewind`, `processBlockRange`, `rescanBlocks` | bitcoind (headers, blocks, `hashblock`), accounts (zmq) |
| tracker: mempool (`mempool-processor.ts`, `transactions-bundle.ts`) | buffer of transactions, `isActive`, flag of `checkUnconfirmed`, cache of checked transactions | `onTx`, `onPushTx`, `processMempool`, `syncMempool`, `checkUnconfirmed` | bitcoind (`rawtx`), pushtx (zmq) |
| tracker: transactions (`transaction.ts`) | rows of transactions, inputs, outputs, addresses | inputs and outputs concurrently, double spends, derivation of new addresses | database |
| pushtx: scheduler (`transactions-scheduler.ts`) | table `scheduled_transactions` | `schedule` | bitcoind, database |
| orchestrator (`orchestrator.ts`) | the same table; a semaphore | `onBlockHash`, `updateTriggers` | bitcoind, database |
| pushtx: processor (`pushtx-processor.ts`) | statistics | `pushTx`, strict mode | bitcoind or PandoTx, tracker (zmq) |
| PandoTx (`pandotx-emitter.ts`, `pandotx-processor.ts`) | blacklist, watchdog list | `emit`, watchdog, processing of the transactions of others | Soroban nodes |
| accounts: importer (`lib/remote-importer`) and HD accounts (`lib/bitcoin/hd-accounts-service.ts`) | claims of running imports; HD accounts, addresses | import, gap-limit scan, create, restore, lock, delete | sources of data, database |
| sources of data (`lib/remote-importer/*-wrapper.ts`) | none: one wrapper for each of bitcoind, Electrum and REST indexers, Esplora, OXT | `getAddresses` for the importer, `GET /seen` and the strict mode of pushtx | indexers, bitcoind |
| derivation (`lib/bitcoin/hd-accounts-helper.ts`, `parallel-address-derivation.ts`) | cache of nodes, pool of threads | `deriveAddresses`, `classify`, `verifyXpubSignature` | everyone who derives |
| accounts: notifications (`notifications-service.ts`) | connections, subscriptions, cache of recent subscriptions | subscribe, close, dispatch | clients, tracker (zmq) |
| accounts: sessions (`lib/auth`, `support-rest-api.ts`) | Auth47 challenges; table `api_keys`; tokens in the hands of clients | login, refresh, create, approve and consume a challenge, manage API keys | clients, database |
| accounts: wallets (`lib/wallet`, `wallet-rest-api.ts`, `multiaddr-rest-api.ts`...) | none: answers composed from the tables | `getFullWalletInfo`, `getWalletInfo`, `getWalletUtxos`, `getWalletTransactions` | clients, importer, database |
| RPC caches (`lib/bitcoind-rpc`) | latest block, fees | refresh | bitcoind |
| library (`lib/queue.ts`, `lib/util.ts`, `lib/db`) | queue, connection pool | push, wait; query with retries | database |

What is hard about it:

* **The chain moves while it is being read.** Every RPC and SQL call is an
  `await`: the best chain may be reorganised between any two, and nothing is
  done in a database transaction.
* **Several tasks write the same rows**: startup or notification, rescan,
  check of unconfirmed transactions, mempool; scheduler and orchestrator.
* **Crashes.** The tracker exits on purpose when a block cannot be fetched; the
  state in memory is lost and what is in the tables has to be enough.
* **Messages are lost**: zmq keeps nothing for a process that does not listen.
* **One promise, several implementations**: five sources of data answer the same
  question in as many ways, and addresses are derived here or in a pool.

What makes the parts correct: the tables end up describing bitcoind's best
chain and nothing else; no transaction of interest is lost or confirmed in the
wrong block; a scheduled script is pushed in its order, with its delays, none of
it twice, early or never; an import is done once at a time; a notification goes
to those who asked for it and to nobody else; a session ends with the credential it
rests on; an answer about addresses or a wallet is about one state of the tables, or of
the source, and whole. `PROJECT.json` lists the hazards
one by one, at their lines, with the properties that cover them.

## 2. The modules

### BlockSync: the tables against the best chain

The state is bitcoind's `tip` in a constant tree of blocks (`Anc[b]` is the
branch that ends in `b`), the tables (`dbBlocks`, `dbParent`, `txBlock`), the
`inbox` of `hashblock` messages that wait for the semaphore, and a record of
program counter and locals for each of three tasks:

* `job["chain"]`: startup, then one notification after the other (a semaphore
  makes them exclusive). Steps `boot`, `bootIBD`, `bootNormal` are `catchup` and
  its two modes; `trace`, `select`, `unconfirm`, `delete` are `chainBacktrace`
  and the three statements of `rewind`; `pull`, `store`, `add`, `confirm` are
  `processBlockRange` and the statements of `processBlock`;
* `job["rescan"]`: `rescanBlocks`, which runs the same range of blocks beside it;
* `chk`: `checkUnconfirmed`, one transaction at a time.

An action is one awaited call with the synchronous code around it. `FetchBlock`
is concurrent with the other steps of its task: a pool of `PoolSize` calls fills
`got`, chunk by chunk, while the queue stores the blocks in order. `Crash` may
come between any two steps; `Die` is also what an error thrown inside the queue
leads to. A lost message is `told = FALSE`. The foreign keys act as in
`db-scripts/1_db.sql` (`ON DELETE SET NULL`); an id read before its row was
deleted becomes `Gone`.

**The windows.** The code does not keep the tables right in all circumstances.
Rather than weaken each property, the model records in the history variable
`exposed` that one of five windows has been hit, each named at `Exposes`, `Die`
and `RescanBlocks`: the best chain leaves a branch that a running task or a
waiting notification is about; the tracker dies while a row is off the best
chain (the restart does not rewind); a rescan starts in such a state; a
transaction that bitcoind reported unknown is mined before its row is deleted;
bitcoind returns to a branch whose blocks have rows still, after `checkUnconfirmed`
deleted a transaction of one of them (the proof of `RowsAreComplete` found this one: a
crash leaves the last block registered and its transaction unconfirmed, a
reorganisation whose notification waits or is lost makes that transaction unknown, and when the
branch comes back nothing processes its block again).
The properties state what holds outside them, and the run `BlockSyncReorg` shows
that the first window is real: see section 4.

Left out: the water mark of the queue (it only delays fetches), the
notifications to clients, and waiting loops that change nothing. A transaction is
one row, stored in one step (`StoreTx`, `StoreMempoolTx`): how it gets there is
the subject of TxTracking.

### TxTracking: registration of transactions

Here a transaction is its row, its outputs to tracked addresses and its inputs
that spend such outputs (`rows`, `outputs`, `inputs`, with the cascades of the
schema), and several calls write them at once:

* each of `Loops` is a call of `processMempool` on a batch of the `buffer`; the
  timer starts one whether or not another still runs;
* each of `Pushers` is a call of `onPushTx`;
* `Block` is `processBlock`, with its two prefilters;
* `chk` is `checkUnconfirmed`.

`task[j][t]` is the object `Transaction` that job `j` has for `t`: where its two
concurrent halves are (`in`: `processInputs`, `out`: `processOutputs`), the shared
promise that stores the row (`store`), the id it got. When a row is deleted, the
ids that jobs hold become `gone` and what they read becomes `stale`: a later
INSERT of inputs is an error of a foreign key, INSERT IGNORE of outputs does
nothing. An error ends the process (`Dies`), as nothing catches the rejected
promise. `cache` is `TransactionsCache`, `mode` the start of the processor, after
the catch-up: sockets, `isActive`, `syncMempool`.
`MCTxScenarios` runs two scenarios of it side by side, with a variable that says which.

bitcoind accepts, replaces, evicts and mines transactions. Mined ones are
announced by `rawtx` a second time, in the order of the block, which is any that has
no transaction before one whose output it spends (`BlockOrders`). `AloneIsComplete` says of each
transaction without an announced rival what its registered block guarantees: its outputs, and
its inputs that spend outputs of the first block. (An input whose parent came later may be
missing: section 4, `BlockIsRegistered`.)

Left out: reorganisations (BlockSync), the addresses derived when an account is
used (they are constant here), the limits of the cache (100000 entries, 7 days),
a tracker that is late and deactivates the mempool, and a second concurrent
`checkUnconfirmed`.

### PushTx: scheduled pushes

`schedule` is one process per request (`req`), `onBlockHash` of the orchestrator
another (`orch`); they meet in `rows`, the table by txid, and in bitcoind
(`height`, `minedAt`, `mempool`, `up`). Each action is again one awaited call.
`Schedule` is the validation and rebasing of the script, after the height was
read; `PushFirst` the transactions pushed at once; `StoreEntry` one INSERT, with
its unique key and its foreign key. `SelectActivated`, `NextActivated`,
`PushScheduled`, `ShiftNext`, `EndShift`, `DeleteScheduled`, `EndLoop` are the
loop of the orchestrator. bitcoind may accept a transaction, refuse it, be
unreachable, evict it, mine any part of its mempool, and replace its last block.

The rows the orchestrator has read are not copied in the model: only the
orchestrator changes or deletes rows, and a row it has read has no parent, so
that no shift changes it before it is used. The two calls of `pushTx` are one
step. PandoTx is off. Strict mode is one of the reasons for which a request may
fail. The minimal delay of a parent of 0 confirmations does not arise:
bitcoind gives a number of confirmations for mined transactions only.
`SortScript` is the stable sort of `script.sort`, by the number of entries that come
before each one. `OwnScriptAssumption` says of the clients that a transaction has one
place in one script: a client that asks again sends the same script. (Of a transaction
in two scripts the table, whose txid is unique, keeps the first, and "the transaction
before it" has no meaning; the code does not check it.)

### Import: accounts, imports and the tracker

One HD account (an xpub): its row (`hd`: scheme and lock bit), the addresses of the
database (`addrs`), those that table `hd_addresses` gives to the account (`rows`)
and those with outputs in the tables (`outs`). An address is its scheme, chain and
index. Each member of `Requests` is an HTTP request to the accounts process:
creation, restoration, first use of an unknown account by a wallet (`ensure`),
rescan, lock, deletion, import of loose addresses. Its record `req[r]` is its
program counter and locals, and `importing` is the map of claims that
`importHDAccount` and `importAddresses` keep. `Scan` is one level of `xpubScan`;
`Check` to `DeleteRow` are `derivationOverrideCheck` and `deleteHDAccount`;
`EnsureSelect` to `AddOutputs` are the statements that store an import.
`Tracker` is the other process: a transaction that pays an address (`Pay`) makes it
look the address up (`TrackerFind`), read the indices of the account in three
statements and derive new addresses (`TrackerDerived`, `TrackerUnused`,
`TrackerHoles`), and it shares the storing statements. A deletion takes the ids it
removes from every request that holds them (`accountId`, `addrIds`), so that their
INSERT IGNORE leaves those rows out. The failure of any call is `Fail` or
`TrackerFails`; that of a source or of bitcoind is an outcome of `Scan` and `Query`.

Nothing locks the account between two statements. As in BlockSync the windows in
which the code leaves the tables unsettled are recorded, in `exposed`: the row or
the addresses of the account go or come while another actor is between two calls;
a failed check or deletion lets an override through; a lock writes back the scheme
it read before an override; an address of the account is imported, or paid, as a
loose one, so that nothing is derived after it; a rescan starts beyond the addresses
derived, and leaves a hole among them that the tracker does not look for (`LeavesHole`). `clean` is the same for one
request: its import met no failure and no deletion. The wallets are taken to keep to the
gap limit (`WithinGap`), in what was used before (`FirstUsed`) as in what they pay.

Left out: the type the importer chooses for the change addresses of Postmix
accounts, the gap limit of its own that a rescan of the support API may ask for, the
filter of addresses with too many transactions, the progress shown to clients, transactions that pay several addresses of one account, a crash of the
accounts process.

### Queue and Fifo: the queue of blocks

`Queue` is `FifoQueue` and the loop of `processBlockRange` that feeds it: chunks are
pushed while the queue is under its high water mark, and the range ends when the queue
is done. What runs between two awaits is one step, so that a push on an idle queue
takes its first item at once. The sets of resolvers are those of the producers that
wait. There may be several producers, which is more than the tracker needs and makes
the wake-ups harder. `Fifo` is the queue one would want, a sequence of pending items
from which a worker takes the first and on which a producer returns when none of its
items is left; `Implemented` in `Queue` is the refinement mapping. BlockSync uses the
plain queue.

### Notifications

Connections (`readyState`, `conn`, `clients`), the two tables of subscriptions (`subs`
by topic, `connSubs` by connection), the cache of recent texts (`cacheSubs`) and that of
public keys. Messages of one connection are handled in order, each after its token was
verified, so that anything happens between `ReceiveText` and `HandleMessage`. `ForceClose`
is what the server does to a client, `SocketClosed` the event that follows in any case.
Which topics a text stands for (`TopicsOf`), and whether it gives a public key, is a
constant, as `parseEntities` is a pure function. `NotifyTransaction` is synchronous once
the transaction is read.

### Authorizations

The clock, the challenges of Auth47 (`nonces`), the rows of `api_keys`, and the tokens
that clients hold, each with the credential it comes from, which the code does not keep.
`Authenticate` and `Login` are the two halves of one request, for the key may be deleted
in between; so are `FindApiKey` and `UpdateApiKey`. The keys of the configuration file
(`LoginConfigured`) are not looked up and end with the configuration only: that sessions end
is about the keys of the table, and of the others only the profile is. A token is its type, profile and
expiry: nobody can make one, which is what the signature is for.

### LatestBlock

The cache of the latest block (`height`) and that of fees, which asks the first one
which block its estimates are of. Requests are concurrent, fail, and are answered in any
order. Nothing handles a failure of `getbestblockhash`: the process ends, and the process
manager starts it again (`AskBestFails`). A header that comes after that of a later block takes
its place, and the cache shows the older block until the next one; `CachesCatchUp` excepts this
(`overtaken`), as it excepts lost announcements. `older` and `timer` are the timers of `Fees`: a refresh clears `this.timer` and
sets another, so that two that overlap leave one behind.

### PandoTx

`emission[e]` is a call of `emit`, one for each transaction a client pushes and one for
each call of the watchdog: list the nodes, send, wait for the confirmation, with the
attempts left and the node kept. `watchdog[w]` is the index and entry that a call of
`processWatchdog` read before it waits. The nodes may do anything: not answer, confirm
and not push, push and not confirm. `Throws` is where the two callers differ: an error
ends the process when nobody waits for the promise, and is handled by `pushTx` according
to `fallbackMode`.

### Wallet

A request is a sequence of phases, each a set `todo` of calls that run at once
(`Promise.all`); `Phases` is the order of the four operations of `WalletService`. Each
call is one SELECT, or one import of what is not known yet, and the tracker may store a
transaction (`StoreTransaction`) between any two. `balance` is added to by several calls
of one phase. Two history variables say what an answer may be blamed for: `changed`, a
transaction was stored after the first read; `lowered`, the information of an account
could not be read, an error that `HDAccountInfo.loadInfo` swallows, so that the balance
is silently lower. Two things the code does that a reader may not expect: addresses given
by `bip49` or `bip84` are added to the database but are no part of the answer, and a
request that holds nothing else is answered as empty, before they are added
(`AllEmpty`). That no account is both `active` and new in a request is an assumption:
it would be counted twice. So is that a list names each account and address once, for an
entity is what it stands for: `parseEntities` looks for the text it was given, so that a
list with one account as xpub and ypub, or one bech32 address in two letter cases, is
outside the model.

### DbWrapper

The part of the database wrapper that sends statements. A `call` goes through attempts,
each with a result of its own, a connection of the pool and, when it was cut in chunks
(`Chunks`), a transaction. The server is external: `table`, `nextId`, the `session` value
`LAST_INSERT_ID()` of each connection, the rows a transaction wrote and holds locked
(`view`, `locked`). A statement waits for the locks of others or gets a lock error, and
any call may get another error; `CommitUnknown` is a commit whose answer is lost. The
other modules take a call of the wrapper as one step: `WritesAsOne` and `ReadsAsOne` are
what allows it. `connect` is called once by each process, so that `handleReconnect` never
runs; `Disconnect` is what happens at shutdown.

### Sources

One call of `Sources.getAddresses`, by the importer, `GET /seen` or the strict mode of
pushtx, over the wrapper that the configuration selects (`InitSourceMainnet`,
`InitSourceTestnet`). `IndexerBatch` and `IndexerReply` are the two ways to ask an Electrum
server, `EsploraPage` a page of one address; REST, bitcoind and OXT answer in one request
(`RestReply`, `BitcoindReply`, `OxtReply`). The source is external: what it is told of
(`histories`, `unspents`, the newest transaction first) changes between two requests.
`SplicedInfos` is the loop that filters a list while it takes elements out of it, and goes
past the one that follows; `Kept` is the filter `getAddresses` applies to any answer, which
makes up for that. A failed request makes the answer empty, so that the strict mode lets
a push through when the source fails; with bitcoind it does not ask at all
(`EnforceStrictModeVouts`).

### Derivation

Calls of `deriveAddresses`, in the process (`InProcess`) or in a thread of the pool
(`InChild`, `PoolAnswers`, `PoolFails`), from the creation of an account, under the scheme
asked for, or from a rescan, under the type of the database, whose high bit is the lock
(`Classify`, `MakeType`). An address is the tuple of key, chain, index and scheme; a text is
a prefix and a key. `VerifyXpubSignature` is the check of the requests that the owner signs,
`POST /xpub/:xpub/lock` and `DELETE /xpub/:xpub`: the signature is by the first change
address under BIP44, whatever the account, and the address sent with it is compared with
that of the scheme of the text. The handler then goes on with what the table says by then
(`PostLockXpub`, `DeleteXpub`). What the statements of these do to the tables is in Import.

These nine share no state with each other. `MCServices` puts them side by side, with a
variable `part` that says which of them a behaviour is about.

## 3. Runs

| run | instance | shows |
|---|---|---|
| `BlockSync` | genesis, `a1 a2 a3`, and `c1 c2` that forks above genesis; one transaction mined on both branches at different heights; two disturbances, of which one may be a rescan and the others are crashes; chunks of 2 and 3, pool of 2 | types and foreign keys; `OrphansArePending`, `OneBranch`, `NoGap`, `RowsAreComplete` (`RegisteredIsStored` and `ParentLinked`), `ConfirmationIsCancelledFirst`; liveness `EventuallySynced`, `EventuallyConfirmed` |
| `BlockSyncReorg` | genesis, `a1 a2 a3`, and `b2 b3 b4` that forks above `a1`; no crash, no rescan | a violation: section 4 |
| `PushTx` | three transactions, two of them of one hop and given in the wrong order; heights 1 to 6; one crash, one reorganisation, one fault of any kind | `PushedInOrder`, `NeverEarly`, `NothingLost`, `ShiftedOnce`, liveness `EventuallyPushed` |
| `PushTxRetry` | the same script asked twice, one crash | `RetryIsHarmless` (`PushedInOrder` and `NothingLost` under retries); the requests are symmetric |
| `PushTxConnection` | one request, one loss of the connection | a violation: section 4 |
| `TxTracking` | two scenarios: one transaction that is pushed, announced and mined, a loop, a pusher, a block and `checkUnconfirmed` at once, one crash; two transactions that spend one output, one block, one eviction | types and foreign keys, `AloneIsComplete`, liveness `AloneIsRegistered` and `GhostsVanish` |
| `TxRivalsKept` | two rivals, one of them first seen in a block; two overlapping loops | a violation: section 4 |
| `TxFamily` | a transaction and one that spends its output, first seen in a block | a violation: section 4 |
| `Import` | two requests of any of seven kinds and the tracker; two schemes, gap limits 2 and 1; one address used from the start, across a gap, and one paid while the model runs; one failed call | types and foreign keys, `ClaimsAreExclusive`, `ImportIsComplete`, `GapIsAhead`, `AddressesMatchScheme` |
| `ImportLock` | a lock and a restoration that forces nothing | a violation: section 4 |
| `Services` | queue: two producers, chunks of 1 and 2, mark 2. Notifications: two connections, an address, an xpub, a text with both; three messages; a transaction that pays both. Authorizations: one API key of the database and one of the configuration, at most three tokens at a time, two challenges of which one may wait, an access token of 1 and a refresh token of 2, clock to 4. Caches: three blocks, one lost announcement, one failed request, one call of a client. PandoTx: two transactions, two nodes, two calls of the watchdog, two attempts, two pushes, both modes. Wallet: a known account, an unknown one, a loose address, one of an account; eight requests; three transactions, one failed query. Database: two inserts, one of them an upsert, and two lookups, two of them at once, of one or two chunks with a key that comes twice; two connections, two keys, one retry, one deletion. Sources: the five of them, three addresses with none, three or five transactions, lists of two or three of them and one with an address twice, threshold 4, pages, batches and pool of 2, one arrival, one failure. Derivation: an ordinary and a Postmix account and a broken text, any prefix and scheme, absent, unlocked or locked at first; pool and process; one failure | `BackPressureWorks` (`NoMissedWakeup`, `QueueBounded`), liveness `EveryRangeReturns`, refinement `ImplementsFifo`; `SubscriptionsAreAlive` (`NoGhostSubscription`, `FloodIsOfSomebodyHere`), `OwnTopicsOnly`; `GrantsExpire` (`SessionsEndAfterKey`, `RefusedOnlyWhenFull`), `OneSessionPerApproval`; liveness `RunningCachesCatchUp`; `NotForgotten`, liveness `EveryEmissionEnds`; `WalletAddsUp`; `WritesAsOne`, `ReadsAsOne`; `SourcesTellAll` (`AnswersAreWhole`, `StrictModeHolds`); `SameAddresses` (`DerivedRight`, `SignedByOwner`) |
| `WalletBalances` | the wallet alone, no failed query | a violation: section 4 |

Bounds. `MaxHeight` 3 and a fork at genesis, 3 against 2, give backtraces of every length
up to the whole chain, ranges of more than one chunk, and a branch that is left after its
first block, for `c2`, and comes back with `a3`; two disturbances let a crash hit the recovery from another,
or a rescan. `IBDLag` 2 makes startup take IBD mode when the headers are three above
the table, and normal mode otherwise. In `PushTx`, height 6 is the first at which the last transaction
can be pushed, with delays 0 and 2, so that the script may be asked in the future,
in the past, and half-way; what is late stays in the table, which is what
`EventuallyPushed` is about. In `TxTracking`, one transaction is enough for what
concerns its own rows, for transactions that neither spend each other's outputs nor
conflict write disjoint rows; two rivals and a parent with its child are the
smallest instances of the other two cases. In `Import`, gap limits 2 and 1 are the
smallest at which a wallet can leave an address unused and the two chains differ;
the scan takes three levels on chain 0; the account is absent, unlocked or locked at
the start. Two requests and the tracker give every pair of concurrent operations;
`Gap`, `Payable` and `MaxFailures` bound what else may happen. No liveness is
checked there: that a request is answered rests on the end of each of its calls and
of the scan, which the finite set of used addresses makes finite, and the check
would take far longer than the safety properties. In `Services`, a chunk that
reaches the mark and one that passes it, a text that stands for two topics and a client that
comes back, a challenge that is refused and one that expires, a refresh that overlaps
another, a watchdog that waits while a push appends and another call begins, an address with more
transactions than a page or than the threshold, and a range that goes to the pool and one
that does not are the cases the properties are about. `CHECK_DEADLOCK FALSE` is there because these
systems stop when the bounded environment does.

Fairness (`FairSpec`). In BlockSync: weak fairness of each task, for the event
loop runs what can run and the process manager restarts the tracker; strong
fairness of `CheckUnconfirmed(t)`, started by a timer again and again for every
unconfirmed transaction. In PushTx: weak fairness of the orchestrator and of each
request. In TxTracking: weak fairness of each loop and pusher, of the block, of the
start of the mempool processor and of `checkUnconfirmed`, whose timer fires again
and again. In Services: weak fairness of the producers and of the loop of the queue, of
the requests to bitcoind and the timers of the caches, of each step of an emission, for
requests are answered or fail; a pool of fetches that ends the process ends everything.
The environment (new blocks, messages, crashes, connections, failures)
is under no obligation: a liveness property excepts what was never told (`lost`,
`missed`), and the next message that gets through clears the exception.

## 4. Where the code and its comments disagree

* `NotOnMainChainIsDeleted` (`BlockSyncReorg`). The comment of `onBlockHash` says
  that block entries not on the main chain are deleted. The heights to process
  come from the headers of the notified branch, the blocks are then fetched *by
  height*. If the best chain changes in between, blocks of the new branch are
  registered above blocks of the old one; the notification of the new branch finds
  the parent it looks for and rewinds no deeper. The old rows stay, with the
  transactions they confirm.
* `KeptWhileUnreachable` (`PushTxConnection`). The orchestrator means to stop when
  bitcoind cannot be reached; `isConnectionError` recognises two messages only.
  On any other error the transaction is deleted although it was never sent.
* `DeepestBlockKeeps` (`TxRivalsKept`). The comment on double spends says that the
  deepest block keeps its transactions. `processInputs` deletes the other spender
  of an output whatever its state: a transaction checked after its rival was mined
  deletes the mined one. `checkUnconfirmed` then deletes the first, and the mined
  one does not come back. That mined transactions are announced again by `rawtx`
  repairs it unless the late check is in an older, overlapping batch.
* `BlockIsRegistered` (`TxFamily`). `processBlock` is said to register the
  transactions of interest of a block. It looks for known outputs that the block
  spends before the outputs that the block creates are stored, so that a child in
  the block of its parent is missed. The same property fails with a cached verdict:
  a transaction that was checked before its parent is remembered as of no interest,
  and the block skips it (the parent was announced before the processor was active
  and waits for `syncMempool`, or both were pushed).

* `LockedSchemeIsKept` (`ImportLock`). The documentation of the lock says that it
  protects the type of an account from `POST xpub`. The restoration decides on a row
  read before: a lock that is answered between that check and the deletion protects
  nothing, and the locked account is deleted and imported under another scheme.

* `BalanceAfterLatest` (`WalletBalances`). The comment of `loadTransactions` says that
  it computes the balance of the wallet after each transaction. It starts from the final
  balance, which the other calls of the same phase of `getFullWalletInfo` add to at the
  same time: if the transactions are read first, each balance lacks what was not added yet.

Seen in the code while modelling it, and modelled as the code has it, without a run of
their own, for none of them spoils a table: the comment in `verifyXpubSignature` speaks of the
first external key where the code takes chain 1, and `doc/POST_xpub_lock.md` of a P2PKH
address "regardless of HD derivation scheme" where the code compares with the one under the
scheme of the text (ypub, zpub); OXT is asked for one
transaction more than the threshold, so that an import without the filter has only the
newest ones; `newHdAccount` answers OK when the pool of derivation reports an error, with
no addresses.

A crash between the row of a transaction and its outputs is another such case: the
restart takes the transaction for stored, and it is incomplete until a block mines
it. `Registered`, which `EventuallyRegistered` and `AloneIsRegistered` rest on, says so in its
second clause.

## 5. Proofs

`BlockSyncProofs` proves, for every tree of blocks, every set of transactions,
every chunk and pool size and any number of crashes and rescans:

* `TypeCorrect`: `Spec => []TypeOK`;
* `TableHasNoGap`: `Spec => []NoGap`;
* `TableIsOneBranch`: `Spec => []OneBranch`;
* `OrphansAreHandled`: `Spec => []OrphansArePending`;
* `CancelledFirst`: `Spec => ConfirmationIsCancelledFirst`;
* `RowsComplete`: `Spec => []RowsAreComplete`.

They rest on the named assumptions of `BlockSync.tla`: the bounds are naturals,
`Anc` and `Height` describe trees, the null values are no blocks. `CancelledFirst` also
needs `MinedOnceAssumption`: a branch mines a transaction once. None of them
limits the size of the instance.

The first four share one inductive invariant, `IInv`. `TypeInv` adds to `TypeOK` what
each step of a task knows (`TasksOK`): a task in a range has its heights in
order, what it has fetched lies in its range, and a block is in hand when a step
needs one. `NextToRow` is why there is no gap: the lowest height a range has still
to store touches the highest row. `ChainInv` is the heart: while no window was hit,
the rows are on one branch; what a task has fetched is on the best chain; and if
the rows are not on the best chain then no task is in a range and either the
chain task is tracing the branch of a notification whose rewind will reach the
fork, or a notification that will is waiting, or none reached the tracker.
Neither `OneBranch` nor `OrphansArePending` is inductive alone: that the rewind
deletes enough depends on the trace having stopped at a row of the new branch,
which depends on the rows below it being one branch. The proof has one lemma per
action that changes something the invariant speaks of.

The last two add to it, independently of each other. `MinedThere`: a transaction is confirmed
in a block that mines it, and the block a check has in hand mines its transaction. With
`OneBranch` that leaves one block for a transaction until the rewind, so that
`ConfirmationIsCancelledFirst` follows step by step. `StoredInv` makes the first half of
`RowsAreComplete` inductive: the transactions of the block a task has in hand are stored or
still to do, and `checkUnconfirmed` is about to delete none of the best chain. `LinkInv` makes
the second half inductive: no row is above the block in hand, and the id read for its parent
is the right one (`RangeGood`), also in IBD mode, where it is the row of the block before.
The attempt at `StoredInv` showed that the list of windows lacked one: bitcoind leaves a
branch and returns to it while the tracker, which was not told, has deleted a transaction of
a block whose row it keeps. Nothing stores that transaction again, because the block is
known. `Exposes` now names it, and the instance of run BlockSync has the tree for it.

`TxTrackingProofs` proves, for any transactions, outputs and conflicts between them, any
number of loops and pushers, blocks, evictions and crashes:

* `ForeignKeys`: `Spec => []TypeOK`, which says that an output has its transaction's row, an
  input the rows of its transaction and of the output it spends, and that what is confirmed is there;
* `AloneComplete`: `Spec => []AloneIsComplete`.

They rest on `TransactionsAssumption`: an output has one creator, `Order` has none before
its parent, and the transactions of the first block are those of a chain (they come with their
parents, and no two of them conflict). `ForeignKeys` needs `TypeInv`: what each task remembers of
the tables holds (`TasksRight`), namely that an id that is not `gone` is that of a row, that
outputs that were read are still there unless the task is `stale`, and that a half writes only
when the row is ensured, so that a crash or a deletion between two of its calls spoils nothing;
each input is of a transaction that spends the output (`InputsSpend`); a block at hand has no row yet
(`BlockAhead`).

`CompleteInv` adds why nobody can cut a transaction without a rival short. What the tracker knows
of was announced, and what `checkUnconfirmed` is about to delete has left bitcoind for good (`Announced`),
so that only a rival could delete it; the transactions and outputs of the start stay
(`StartStays`); a cached verdict "no", and one on its way, are about transactions that need no row as
far as is known from the start (`CacheRight`, `HeadsRight`): a block that skips them on that account
misses nothing the property speaks of; each half of the block's own check has done what it has
passed (`BlockRight`), even when the row was there before it; and what the block still processes is of its
block (`BlockOwns`). The instance has one transaction of that kind and one pair of rivals; the
theorem covers families of any depth, and rivals of other transactions beside them.
The attempt showed that the assumptions said too little: with conflicting transactions
in the first block, the table loses one of them at once.

`PushTxProofs` proves, for any transactions, scripts of any length, requests, and any
number of blocks, reorganisations, crashes and failures:

* `TypeCorrect`: `Spec => []TypeOK`;
* `InOrder`: `Spec => []PushedInOrder`; `NothingIsLost`: `Spec => []NothingLost`; both
  are `RetryHarmless`;
* `NothingEarly`: `Spec => []NeverEarly`;
* `ShiftsOnce`: `Spec => []ShiftedOnce`.

They rest on `ConfigAssumption` (naturals), `ScriptsAssumption` (what an entry is) and
`OwnScriptAssumption` (above). None of the properties is inductive: that a row waits long
enough depends on the delay that was stored with it, which depends on what the call of
`schedule` remembers of the entry before. `PushInv` says so part by part. `CallsOK`: what
is left in a call is the end of its sorted, rebased script, its predecessor is the entry
before, and all that comes before was stored or sent. `RowsOK`: a row has the predecessor
and the delay its script gives it, its trigger is never below its nLockTime, and its
parent is its predecessor's row. `OrchOK`: the rows that were read are still first ones,
and what made a row ready holds from then on: reorganisations and evictions may
take back a confirmation, never the height at which its parent was sent. `BitcoindOK` turns
a confirmation into a number of blocks since then. On the way `SortScriptSorts` shows that
ranking the entries sorts them, for scripts of any length (`LeastNat`, the minimum of a set of
naturals, stands for induction).

`ShiftsOnce` needs `ShiftInv` beside it, which holds of one request without crash nor
fault. `RowLinks` is its core: the trigger of a row, and what the walk of `updateTriggers`
still owes it (`Owed`), is at most its delay after what stands for its predecessor
(`Bound`: the predecessor's trigger, or the height of the loop once that one is sent). `CallLink`
carries the same to the entry stored next: the scheduler may still be storing a chain that the
orchestrator has begun to put off.

`ImportProofs` proves, for any set of requests and orders, any schemes and gap
limits and any number of failed calls:

* `TypeCorrect`: `Spec => []TypeOK`, the foreign keys and the ids included;
* `ImportsExclude`: `Spec => []ClaimsAreExclusive`;
* `SchemeMatched`: `Spec => []AddressesMatchScheme`;
* `GapKept`: `Spec => []GapIsAhead`;
* `ImportCompletes`: `Spec => []ImportIsComplete`.

They rest on `ImportAssumption`, which says what kind of thing each constant is, and that
the addresses used before are finitely many and within the gap limit.
`ClaimsAreExclusive` is not inductive alone: a request may end without releasing
anything only because the steps outside an import hold no claim. `ClaimsInImports`
adds that, and that the tracker never holds one. Every action then does one of
three things to the claims of its request (`Keeps`, `Drops`, `Takes`):
`ClaimEffect` shows once that each of them preserves the invariant, and one lemma
per group of actions shows which of them it is. The tables are a second,
independent half (`TablesOK`).

The next two share `GapInv`: outside the windows of `exposed`, the addresses of the account
are of one scheme, without holes, and with the gap after each that has transactions
(`RowsGood`), and what every request and the tracker hold in hand fits the tables
(`Good`). The part about a scan is the core: with the account's addresses, those it has
found have no hole up to `d`, and the gap is ahead of all it was told of but for those up to
`u` of the chain it is at (`Scanned`). That none has a hole is what makes the gap inductive:
the tracker reads three counts of the addresses and stops where they show nothing missing.
The attempt at it showed that `GapIsAhead` was false as it stood: after a creation and a
rescan from index 3 with gap limit 2, an account has addresses 0, 1, 3 and 4; if the tracker
hears of a payment to 3 before one to 0, it derives what comes after 3, and then nothing
for 0, which is below the next unused index: 2 is missed for good. `exposed` now has that window
(`LeavesHole`).

The last is independent of `exposed`. `CompleteInv` says for each import that is clean: what it
has to find was paid within the gap limit (`BaseGood`); in the course of the scan it has
found all of it up to `d`, and none beyond `u` (`Found`); what it has got is in hand until
it is stored. A level without transactions ends its chain (`LevelEnds`) because the first
address used after `d`, which exists by `LeastNat` if any does, would be within the gap limit of
one before it, none of which is beyond `u`: it would be in the level. There the bound of a
level, `u + G`, is what matters.

`ServicesProofs` proves, for any number of producers, any chunks and any mark of the queue:

* `NobodySleepsThrough`: `QueueSpec => []NoMissedWakeup`;
* `WaterMarkHolds`: `QueueSpec => []QueueBounded`; both are `BackPressure`;
* `QueueImplementsFifo`: `QueueSpec => ImplementsFifo`.

`QueueIInv` adds that the queue is busy exactly while it has an item in hand, that the
mark is exceeded only while the queue is long, and counts the producers that may still
push past the mark. The refinement is step by step: the start of a range, a wait and a
wake-up are stutters of `Fifo`.

It proves of Notifications, for any clients, topics, texts and transactions:

* `NoGhost`: `WsSpec => []NoGhostSubscription`;
* `FloodHere`: `WsSpec => []FloodIsOfSomebodyHere`; both are `SubscriptionsAlive`;
* `OwnTopics`: `WsSpec => OwnTopicsOnly`.

A text in the cache has somebody here because a subscription puts the topic and the
connection in at once, and only event `close`, which takes the topic out, ends the
connection: `WsInv` ties `readyState`, `conn`, the two tables and the cache together.

It proves of Authorizations, for any number of keys of either kind and challenges, any lifetimes
and any clock:

* `SessionsEnd`: `AuthSpec => []SessionsEndAfterKey`;
* `OneSession`: `AuthSpec => OneSessionPerApproval`;
* `RefusedWhenFull`: `AuthSpec => []RefusedOnlyWhenFull`; with `SessionsEnd` it is `Expire`.

`AuthInv` ties three things together: the history of each key is up to date, also while
a login is between its two halves; a refresh token of a key ends `RefreshExpires` after
the key was last active, and an access token was made before that; a challenge that is
held has opened no session, and is approved only if it was signed. A chain of refreshes
adds nothing because a refresh hands out no new refresh token.

And of Derivation, for any accounts, indices, failures of the pool and calls at once:

* `AddressesSame`: `DerivationSpec => []SameAddresses`.

`DerivationInv` says of each call what its answer is: `CallRight` ties the addresses of a
call to the account, chain, indices and scheme it was asked for, whether the process or the
pool derived them, and lists what the change of a Postmix account has besides under the
other two schemes (`LikeTypesAre`, `ProcessIs`); `NodesRight` keeps the cache to accounts.
The proof showed that the acceptance of a signed request has to be stated about the account
as the request found it: a request that was refused because the account was unknown may be
answered while another request creates the account.

And of PandoTx, for any number of transactions, nodes and calls of the watchdog:

* `NothingForgotten`: `PandoSpec => []NotForgotten`.

`PandoInv` adds that at most one call of the watchdog is busy, that what it emits again
is its own entry, and that while it waits for `getrawtransaction` its index is still the
index of its entry: nobody else removes, and pushes append (`IndexStaysRight`).

`DbWrapperProofs` proves, for any number of calls, connections, retries, lock errors and
removals, inserts and lookups of any length, any limits of a chunk and both values of `foundRows`:

* `LookupsReadOneTable`: `DbSpec => []ReadsAsOne`;
* `InsertsWriteAsOne`: `DbSpec => WritesAsOne`;
* `ConnectionsApart`: `DbSpec => []DbTypeOK`, the part of `ServicesTypeOK` that says who holds
  which connection and which locks.

They rest on `DbAssumption`: rows of an insert have keys, values and lengths, and the table of the
start has unique keys and ids, drawn so far. All follow from `DbInv`, which says what each
call has done so far. Of a lookup (`ReadCall`): the rows it has are those of some table of its
time under the keys of the chunks before, each once. Of an insert (`InChunks`): its locks are
on the keys of the chunks before, and its rows are `Alike` to what *one* statement makes of the entries
of those chunks. That one statement was never run; it is taken on *every* table that agrees
with the committed one under the locks, because the others go on changing the rest until the
commit, and only then is it known which table counts. At a new chunk, the keys it adds are not locked by
anybody, so their rows are those of the table (`AlikeMore`), and from there the two go on entry by entry
(`AlikeStep`): the same values, the same affected rows, a first generated id on the same row,
and only the numbers of new ids may differ, since others draw some in between. `ViewsApart` and
`IdsApart` keep those numbers unique until they are committed. `Counted` is what makes the
aggregated id right: without a new row, the number of affected rows tells an update from
none, which with `foundRows` means more than one for each entry.

`Insert` and `Chunks` are recursive functions over lists: what they compute (`RunHolds`, `CutHolds`) is
proved by induction through the least number that fails (`NatSet`), for lists of any length.

`WalletProofs` proves, for any accounts, addresses, coins and requests, any number of
transactions stored meanwhile and any number of failed queries:

* `WalletTypes`: `WalletSpec => []WalletTypeOK`;
* `WalletAdds`: `WalletSpec => []WalletAddsUp`.

They rest on `WalletAssumption`: what kind of thing each constant is, that an extended key is no
address, that the coins are finitely many, and that a client does not declare as new the account
that it lists as active. `WalletAddsUp` speaks of the answer only; `WalletInv` says where the
request is on its way to it. `CallsOK`: a call in progress is one of its phase, about an
entity of the request, and no two of them read the same information. `FilterOK`: until the
filter the addresses are those of the request, and after it none of them is of an account asked
for, and those that were dropped all are. It is why nothing is listed or counted twice, and why
dropping them loses nothing. `UtxosOK`: the coins listed are exactly those of the addresses and
accounts whose read is over. `BalanceOK`: the balance is the sum over the entities whose
information is added, and a call that has yet to add has read what its entity holds now.
In a request for information, accounts are read in phase 3 and addresses imported
in phase 5: `EntityStays` shows that those imports bring an account that was counted no coin,
because an account has rows for all of its addresses (`RowsOK`).

What a sum is of two disjoint sets (`SumUnion`) is an induction over finite sets of coins
(`CoinInduction`, through the least size that fails): the sum is a fold of the community
modules, whose definition chooses a recursive function, which exists (`SumExists`) and of which
there is one (`SumsAgree`).

`SourcesProofs` proves, for any addresses and lists, any histories, threshold, sizes of pages,
batches and pools, and any number of arrivals and failures:

* `SourcesTypes`: `SourcesSpec => []SourcesTypeOK`;
* `SourcesTell`: `SourcesSpec => []SourcesTellAll`.

They rest on `SourcesAssumption`: the sizes are positive, a list that is asked for is not
empty, and the transactions of an address are numbered from its oldest one, so that its history
is known from its length (`NewestFirst`). `SourcesIInv` (`SourcesInductive`) is inductive.
`CalledOK`: what an address had when the call began is the older part of what it has now.
`AskingOK`: each element that a wrapper collected is `Told`, it is the history of its address
at some moment since the call began, and it stays so when transactions arrive; and the pages
that Esplora gave of an address so far go on without a gap from what was its newest transaction
(`ReadOK`), because the next page is asked for after the last transaction read, not by a number
of transactions that arrivals would shift. `StrictOK`: while the strict mode waits, it is asking about
every output that it found no fault with. At the answer, a list that covers the addresses, less
elements that have too many transactions, or none, is whole (`ThinnedIsWhole`), whichever
way it was thinned: by a filter, by the loop that goes past an element (`SplicedThins`), by
an answer that leaves out addresses without transactions, and by the filter of `getAddresses`
after that. It makes up for the loop, whose result alone may hold addresses with too
many. `Only`, `SplicedInfos` and the filters are recursive functions over lists; what they
compute is proved by induction through the least number that fails (`NatSet`).

Only model-checked: the types of the services that no theorem above names (`ServicesTypeOK`
as a whole), and the liveness properties, which are beyond the prover (fairness, ENABLED).

## 6. Not modelled

* The reads of one entity (`xpub-rest-api.ts`, `unspent-rest-api.ts`, the support API)
  answer with one or two SELECTs and change nothing.
* `pandotx-processor.ts` forwards what other nodes ask for; its rounds keep no state.
* The arithmetic of keys, address encodings and signatures: cryptography. Derivation says
  which addresses are derived, and takes each for what it encodes.
* HTTP, logging, configuration, formatting of answers: no state.
* The admin application and the Docker files.
