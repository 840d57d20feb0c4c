-------------------------------- MODULE Wallet --------------------------------
(***************************************************************************)
(* A client asks for its wallet: WalletService (lib/wallet) creates or     *)
(* imports the accounts and the addresses it does not know, drops the      *)
(* addresses that belong to an account asked for, then reads the tables.   *)
(* A request is a sequence of phases; the calls of a phase run at once     *)
(* (Promise.all) and the next phase waits for all of them. Each read is a  *)
(* SELECT of its own, and the tracker may store a transaction between two. *)
(***************************************************************************)
EXTENDS Integers, Sequences, FiniteSets, FiniteSetsExt, SequencesExt

CONSTANTS
    Accounts,       \* xpubs
    NoAccount,      \* owner of a loose address
    WalletAddrs,    \* addresses
    Owner,          \* the account that an address is derived from
    Coins,          \* outputs of transactions
    CoinTx,         \* the transaction of each, numbered by time
    CoinAddr,       \* the address it pays
    SpentBy,        \* the transaction that spends it (0: none)
    Value,          \* its amount
    Asks,           \* requests that the clients may send
    AccountsAtStart, AddrsAtStart, TxsAtStart,  \* what the tables hold at the start
    PageSize,       \* keys.multiaddr.transactions
    MaxWalletTx,    \* bound: number of transactions
    MaxDbFailures   \* bound: failed queries

\* The parameters of a request, parsed: `get` for GET /multiaddr; extended keys and
\* addresses of `active`; keys and addresses declared as new; addresses given by
\* `bip49` and `bip84`; addresses that were given as a public key.
Ask == [kind : {"full", "info", "utxos", "txs"}, get : BOOLEAN,
        accounts : SUBSET Accounts, newAccounts : SUBSET Accounts,
        loose : SUBSET WalletAddrs, fresh : SUBSET WalletAddrs,
        segwit : SUBSET WalletAddrs, keyed : SUBSET WalletAddrs]

ASSUME WalletAssumption ==
    /\ NoAccount \notin Accounts /\ Accounts \cap WalletAddrs = {} /\ IsFiniteSet(Coins)
    /\ Owner \in [WalletAddrs -> Accounts \cup {NoAccount}]
    /\ CoinTx \in [Coins -> 1 .. MaxWalletTx] /\ SpentBy \in [Coins -> 0 .. MaxWalletTx]
    /\ \A c \in Coins : SpentBy[c] # 0 => SpentBy[c] > CoinTx[c]
    /\ CoinAddr \in [Coins -> WalletAddrs] /\ Value \in [Coins -> Nat]
    /\ Asks \subseteq Ask
    \* a client does not declare as new the account that it lists as active
    /\ \A r \in Asks : r.accounts \cap r.newAccounts = {}
    /\ AccountsAtStart \subseteq Accounts /\ AddrsAtStart \subseteq WalletAddrs
    /\ MaxWalletTx \in Nat /\ TxsAtStart \in 0 .. MaxWalletTx
    /\ PageSize \in Nat /\ MaxDbFailures \in Nat

VARIABLES
    accounts,       \* rows of `hd`
    tracked,        \* rows of `addresses`; an account has a row for each of its own
    coins,          \* rows of `outputs`
    happened,       \* transactions that the network and the tracker have seen
    asking,         \* the request
    phase, todo,    \* its phase, and the calls of that phase that are not over
    outcome,        \* "none", then "ok" or "error"
    addrs,          \* walletInfo.entities.addrs
    balance,        \* walletInfo.wallet.finalBalance
    utxos,          \* walletInfo.unspentOutputs: how often each coin is listed
    page, txs,      \* transactions of the first query; walletInfo.txs
    nTx,            \* walletInfo.nTx
    failures,
    \* history variables
    changed,        \* a transaction was stored after the first read
    lowered         \* the information of an account could not be read

walletVars == <<accounts, tracked, coins, happened, asking, phase, todo, outcome, addrs,
                balance, utxos, page, txs, nTx, failures, changed, lowered>>
dbVars == <<accounts, tracked, coins, happened>>
infoVars == <<balance, utxos, page, txs, nTx>>

-----------------------------------------------------------------------------
(* Queries of mysql-db-wrapper.ts *)

\* Tables `hd_addresses` and `addresses`: the addresses of an account
AddressesOf(x) == {a \in tracked : x \in accounts /\ Owner[a] = x}
Reach(as, xs) == (as \cap tracked) \cup UNION {AddressesOf(x) : x \in xs}

Spent(c) == SpentBy[c] \in 1 .. happened
UnspentOf(as) == {c \in coins : CoinAddr[c] \in as /\ ~Spent(c)}
Sum(cs) == MapThenSumSet(LAMBDA c : Value[c], cs)

\* Inputs and outputs of a transaction that belong to the addresses, and what they add up to
Touches(t, as) == \E c \in coins : CoinAddr[c] \in as /\ t \in {CoinTx[c], SpentBy[c]}
Result(t, as) ==
    Sum({c \in coins : CoinAddr[c] \in as /\ CoinTx[c] = t})
      - Sum({c \in coins : CoinAddr[c] \in as /\ SpentBy[c] = t})

\* The latest transactions first
Latest(as) ==
    LET all == SetToSortSeq({t \in 1 .. happened : Touches(t, as)}, LAMBDA t, u : t > u)
    IN  SubSeq(all, 1, IF Len(all) < PageSize THEN Len(all) ELSE PageSize)

\* What the import of an address finds
HistoryOf(as) == {c \in Coins : CoinAddr[c] \in as /\ CoinTx[c] <= happened}

-----------------------------------------------------------------------------
(* The phases of a request *)

NoEntity == NoAccount
Call(op, on) == [op |-> op, on |-> on, got |-> 0]
Calls(op, es) == {Call(op, e) : e \in es}
One(op) == {Call(op, NoEntity)}

\* _mergeEntities
XpubsOf(r) == r.accounts \cup r.newAccounts
AddrsOf(r) == r.loose \cup r.fresh

Utxos(r, as) == Calls("accountUtxos", XpubsOf(r)) \cup One("addressUtxos")

NewAddresses(r) == Calls("newAddress", r.fresh \cup r.segwit)

FullPhases(r, as) ==
    <<Calls("newAccount", r.newAccounts) \cup NewAddresses(r),
      Calls("ensureAccount", XpubsOf(r)) \cup One("ensureAddresses"),
      One("force"), One("filter"),
      Calls("accountInfo", XpubsOf(r)) \cup Calls("addressInfo", as)
        \cup Utxos(r, as) \cup One("page")>>

InfoPhases(r, as) ==
    <<Calls("newAccount", r.newAccounts), Calls("ensureAccount", XpubsOf(r)),
      Calls("accountInfo", XpubsOf(r)), NewAddresses(r), One("ensureAddresses"),
      One("force"), One("filter"), Calls("addressInfo", as), One("page")>>

UtxosPhases(r, as) ==
    <<Calls("newAccount", r.newAccounts), Calls("ensureAccount", XpubsOf(r)),
      NewAddresses(r), One("ensureAddresses"), One("force"), One("filter"), Utxos(r, as)>>

TxsPhases == <<One("filter"), One("count") \cup One("page")>>

Phases(r, as) ==
    CASE r.kind = "full" -> FullPhases(r, as)
      [] r.kind = "info" -> InfoPhases(r, as)
      [] r.kind = "utxos" -> UtxosPhases(r, as)
      [] r.kind = "txs" -> TxsPhases

Reads == {"accountInfo", "addressInfo", "accountUtxos", "addressUtxos", "page"}

\* Some read has begun.
Reading ==
    \E i \in 1 .. phase : \E c \in Phases(asking, addrs)[i] : c.op \in Reads

NoAsk == [kind |-> "full", get |-> FALSE, accounts |-> {}, newAccounts |-> {}, loose |-> {},
          fresh |-> {}, segwit |-> {}, keyed |-> {}]

WalletInit ==
    /\ accounts = AccountsAtStart
    /\ tracked = AddrsAtStart \cup {a \in WalletAddrs : Owner[a] \in AccountsAtStart}
    /\ happened = TxsAtStart
    /\ coins = {c \in Coins : CoinAddr[c] \in tracked /\ CoinTx[c] <= TxsAtStart}
    /\ asking = NoAsk /\ phase = 0 /\ todo = {} /\ outcome = "none"
    /\ addrs = {} /\ balance = 0 /\ utxos = [c \in Coins |-> 0]
    /\ page = <<>> /\ txs = <<>> /\ nTx = 0
    /\ failures = 0 /\ changed = FALSE /\ lowered = FALSE

-----------------------------------------------------------------------------
(* The request *)

\* GET /multiaddr refuses some numbers of entities.
TooFew(r) == r.get /\ (Cardinality(r.loose) \in {1, 2} \/ Cardinality(r.accounts) = 1)

\* _checkEntities, which does not look at the addresses of bip49 and bip84
AllEmpty(r) == XpubsOf(r) = {} /\ AddrsOf(r) = {}

Begin(r) ==
    /\ phase = 0 /\ outcome = "none"
    /\ asking' = r
    /\ CASE TooFew(r) -> outcome' = "error" /\ UNCHANGED <<phase, todo, addrs>>
         [] ~TooFew(r) /\ AllEmpty(r) -> outcome' = "ok" /\ UNCHANGED <<phase, todo, addrs>>
         [] OTHER -> /\ addrs' = AddrsOf(r)
                     /\ phase' = 1 /\ todo' = Phases(r, addrs')[1]
                     /\ UNCHANGED outcome
    /\ UNCHANGED <<dbVars, infoVars, failures, changed, lowered>>

EndPhase ==
    /\ phase > 0 /\ outcome = "none" /\ todo = {}
    /\ IF phase < Len(Phases(asking, addrs))
       THEN /\ phase' = phase + 1 /\ todo' = Phases(asking, addrs)[phase + 1]
            /\ UNCHANGED outcome
       ELSE outcome' = "ok" /\ UNCHANGED <<phase, todo>>
    /\ UNCHANGED <<dbVars, asking, addrs, infoVars, failures, changed, lowered>>

\* A call is over, or goes on as another one.
Over(c) == todo' = todo \ {c}
Becomes(c, d) == todo' = (todo \ {c}) \cup {d}

\* createHdAccount: no import, the account is declared as new
NewAccount(c) ==
    /\ c.op = "newAccount" /\ Over(c)
    /\ accounts' = accounts \cup {c.on}
    /\ tracked' = tracked \cup {a \in WalletAddrs : Owner[a] = c.on}
    /\ UNCHANGED <<coins, happened, addrs, infoVars>>

\* db.addAddresses
NewAddress(c) ==
    /\ c.op = "newAddress" /\ Over(c)
    /\ tracked' = tracked \cup {c.on}
    /\ UNCHANGED <<accounts, coins, happened, addrs, infoVars>>

\* ensureHdAccount: the import of an account without a row
EnsureAccount(c) ==
    /\ c.op = "ensureAccount" /\ Over(c)
    /\ LET its == IF c.on \in accounts THEN {} ELSE {a \in WalletAddrs : Owner[a] = c.on}
       IN  /\ accounts' = accounts \cup {c.on}
           /\ tracked' = tracked \cup its
           /\ coins' = coins \cup HistoryOf(its)
    /\ UNCHANGED <<happened, addrs, infoVars>>

\* ensureAddresses: the import of the addresses without a row
EnsureAddresses(c) ==
    /\ c.op = "ensureAddresses" /\ Over(c)
    /\ tracked' = tracked \cup addrs
    /\ coins' = coins \cup HistoryOf(addrs \ tracked)
    /\ UNCHANGED <<accounts, happened, addrs, infoVars>>

\* _forceEnsureAddressesForActivePubkeys, with a local index
ForceEnsure(c) ==
    /\ c.op = "force" /\ Over(c)
    /\ tracked' = tracked \cup (addrs \cap asking.keyed)
    /\ UNCHANGED <<accounts, coins, happened, addrs, infoVars>>

\* getXpubByAddresses: the addresses that belong to an account asked for
OfAccounts(as, xs) == as \cap UNION {AddressesOf(x) : x \in xs}

FilterAddresses(c) ==
    /\ c.op = "filter" /\ Over(c)
    /\ addrs' = addrs \ OfAccounts(addrs, XpubsOf(asking))
    /\ UNCHANGED <<dbVars, infoVars>>

\* loadHdAccountsInfo, loadAddressesInfo: the balance is read...
ReadBalance(c) ==
    /\ \/ c.op = "accountInfo"
          /\ Becomes(c, [c EXCEPT !.op = "addBalance", !.got = Sum(UnspentOf(AddressesOf(c.on)))])
       \/ c.op = "addressInfo"
          /\ Becomes(c, [c EXCEPT !.op = "addBalance", !.got = Sum(UnspentOf({c.on}))])
    /\ UNCHANGED <<dbVars, addrs, infoVars>>

\* Fault: `finalBalance += await ...` adds to the balance of when the call began.
PlusRead_BeforeAwait(got) == got

PlusRead(got) == balance + got

\* ... and added when the rest of the information has been read.
AddBalance(c) ==
    /\ c.op = "addBalance" /\ Over(c)
    /\ balance' = PlusRead(c.got)
    /\ UNCHANGED <<dbVars, addrs, utxos, page, txs, nTx>>

\* loadUtxos: those of the accounts at once, then those of the addresses
LoadUtxos(c) ==
    /\ \/ c.op = "accountUtxos"
       \/ c.op = "addressUtxos" /\ \A d \in todo : d.op # "accountUtxos"
    /\ Over(c)
    /\ LET found == UnspentOf(IF c.op = "addressUtxos" THEN addrs ELSE AddressesOf(c.on))
       IN  utxos' = [u \in Coins |-> IF u \in found THEN utxos[u] + 1 ELSE utxos[u]]
    /\ UNCHANGED <<dbVars, addrs, balance, page, txs, nTx>>

\* getTxsByAddrAndXpubs: the transactions of a page, then their inputs and outputs
ReadPage(c) ==
    /\ c.op = "page"
    /\ page' = Latest(Reach(addrs, XpubsOf(asking)))
    /\ IF page' = <<>> THEN Over(c) ELSE Becomes(c, Call("flows", NoEntity))
    /\ UNCHANGED <<dbVars, addrs, balance, utxos, txs, nTx>>

\* loadTransactions: the balance after each transaction, from the final balance
LoadTransactions(c) ==
    /\ c.op = "flows" /\ Over(c)
    /\ LET results == [i \in DOMAIN page |-> Result(page[i], Reach(addrs, XpubsOf(asking)))]
           after == [i \in DOMAIN page |-> balance - FoldSeq(+, 0, SubSeq(results, 1, i - 1))]
       IN  txs' = [i \in DOMAIN page |->
                     [tx |-> page[i], result |-> results[i],
                      balance |-> IF asking.kind = "txs" THEN 0 ELSE after[i]]]
    /\ UNCHANGED <<dbVars, addrs, balance, utxos, page, nTx>>

\* loadNbTransactions
LoadNbTransactions(c) ==
    /\ c.op = "count" /\ Over(c)
    /\ nTx' = Cardinality({t \in 1 .. happened : Touches(t, Reach(addrs, XpubsOf(asking)))})
    /\ UNCHANGED <<dbVars, addrs, balance, utxos, page, txs>>

CallStep(c) ==
    /\ \/ NewAccount(c) \/ NewAddress(c) \/ EnsureAccount(c) \/ EnsureAddresses(c) \/ ForceEnsure(c)
       \/ FilterAddresses(c) \/ ReadBalance(c) \/ AddBalance(c) \/ LoadUtxos(c) \/ ReadPage(c)
       \/ LoadTransactions(c) \/ LoadNbTransactions(c)
    /\ UNCHANGED <<asking, phase, outcome, failures, changed, lowered>>

\* A query fails: loadInfo of an account swallows it, with or without its balance; so
\* does getHDAccountId; any other rejects the request, while its other calls go on.
CallFails(c) ==
    /\ failures < MaxDbFailures /\ failures' = failures + 1
    /\ \/ /\ c.op = "accountInfo"
          /\ \E got \in {0, Sum(UnspentOf(AddressesOf(c.on)))} :
               Becomes(c, [c EXCEPT !.op = "addBalance", !.got = got])
          /\ lowered' = TRUE
          /\ UNCHANGED outcome
       \/ c.op = "ensureAccount" /\ Over(c) /\ UNCHANGED <<lowered, outcome>>
       \/ /\ c.op \notin {"accountInfo", "addBalance"} /\ Over(c)
          /\ outcome' = "error"
          /\ UNCHANGED lowered
    /\ UNCHANGED <<dbVars, asking, phase, addrs, infoVars, changed>>

\* The tracker stores the next transaction.
StoreTransaction ==
    /\ happened < MaxWalletTx
    /\ happened' = happened + 1
    /\ coins' = coins \cup {c \in Coins : CoinTx[c] = happened' /\ CoinAddr[c] \in tracked}
    /\ changed' = (changed \/ Reading)
    /\ UNCHANGED <<accounts, tracked, asking, phase, todo, outcome, addrs, infoVars, failures,
                   lowered>>

WalletNext ==
    \/ \E r \in Asks : Begin(r)
    \/ EndPhase
    \/ \E c \in todo : CallStep(c) \/ CallFails(c)
    \/ StoreTransaction

WalletSpec == WalletInit /\ [][WalletNext]_walletVars

-----------------------------------------------------------------------------
(* Properties *)

WalletTypeOK ==
    /\ accounts \subseteq Accounts /\ tracked \subseteq WalletAddrs
    /\ coins \subseteq Coins /\ \A c \in coins : CoinAddr[c] \in tracked
    /\ happened \in 0 .. MaxWalletTx /\ asking \in Ask \cup {NoAsk}
    /\ phase \in 0 .. 9 /\ outcome \in {"none", "ok", "error"}
    /\ addrs \subseteq WalletAddrs /\ balance \in Nat /\ utxos \in [Coins -> Nat]
    /\ nTx \in Nat /\ failures \in 0 .. MaxDbFailures
    /\ changed \in BOOLEAN /\ lowered \in BOOLEAN

\* What the client asked for, whatever was dropped since
AskedCoins == UnspentOf(Reach(AddrsOf(asking), XpubsOf(asking)))

\* "Note that loose addresses that are also part of one of the HD accounts requested
\* will be ignored" (doc/GET_wallet.md): no unspent output is listed twice, whatever is
\* stored meanwhile and even if the request itself creates the account. And when nothing
\* is stored between the first read and the answer, the concurrent reads add up: the
\* unspent outputs are those of the entities asked for, and the final balance is their
\* sum, unless the information of an account could not be read.
WalletAddsUp ==
    /\ \A c \in Coins : utxos[c] <= 1
    /\ outcome = "ok" /\ ~changed /\ ~AllEmpty(asking) =>
         /\ asking.kind \in {"full", "utxos"} => {c \in Coins : utxos[c] = 1} = AskedCoins
         /\ asking.kind \in {"full", "info"} /\ ~lowered => balance = Sum(AskedCoins)

\* "Computes wallet balance after each transaction" (comment of loadTransactions): the
\* balance after the latest transaction is the final balance of the answer.
BalanceAfterLatest ==
    outcome = "ok" /\ ~changed /\ asking.kind \in {"full", "info"} /\ txs # <<>> =>
        txs[1].balance = balance
=============================================================================
