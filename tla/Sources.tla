-------------------------------- MODULE Sources --------------------------------
(***************************************************************************)
(* lib/remote-importer: what the importer is told of a list of addresses   *)
(* by Sources.getAddresses, over the wrapper of the source of data that    *)
(* the configuration selects: bitcoind, a local indexer (Electrum or REST  *)
(* protocol), Esplora or OXT; and what the strict mode of pushtx makes of  *)
(* it. The sources themselves are external: what they answer is read from  *)
(* how the wrappers use it. They see new transactions between the requests *)
(* of one call.                                                            *)
(***************************************************************************)
EXTENDS Integers, Sequences, FiniteSets

CONSTANTS
    ScriptAddrs,        \* addresses
    FirstHistories,     \* what their transactions may be at first: sequences, by address
    AddressLists,       \* lists of addresses that are asked for
    AddrFilterThreshold,\* keys.addrFilterThreshold
    NbTxsPerPage,       \* Esplora: NB_TXS_PER_PAGE
    ScriptHashChunk,    \* local indexer: script hashes of one batch
    PoolLimit,          \* local indexer: requests in flight
    MaxArrivals,        \* bound: transactions that arrive during a call
    MaxSourceErrors     \* bound: requests that fail

\* The transactions of an address are numbered from its oldest one.
NewestFirst(n) == [i \in 1 .. n |-> n - i + 1]

ASSUME SourcesAssumption ==
    /\ {AddrFilterThreshold, NbTxsPerPage, ScriptHashChunk, PoolLimit} \subseteq Nat \ {0}
    /\ \A h \in FirstHistories :
         h \in [ScriptAddrs -> Seq(Nat)] /\ \A a \in ScriptAddrs : h[a] = NewestFirst(Len(h[a]))
    /\ AddressLists \subseteq Seq(ScriptAddrs) \ {<<>>}
    /\ MaxArrivals \in Nat /\ MaxSourceErrors \in Nat

VARIABLES
    source,         \* Sources.source, and batchRequests of the local indexer
    histories,      \* the transactions of each address, the newest first
    unspents,       \* its unspent outputs: the transaction of each
    question,       \* the call: addresses and filterAddr
    seenAtStart,    \* history: what the source saw of each address when the call started
    got,            \* what the source answered so far, by position
    reading,        \* Esplora: the pages of the address that is read
    returned,       \* the value returned
    vouts,          \* strict mode: the addresses of the outputs to check
    usedInDb,       \* strict mode: the addresses with transactions in the tables
    faultyOutputs,  \* strict mode: positions of the outputs at fault
    progress,       \* of the call: "idle", "asking", "answered", "failed", "pushed", "refused"
    arrivals, sourceErrors  \* numbers of arrivals and of failures

chainVars == <<histories, unspents, arrivals>>
strictVars == <<vouts, usedInDb, faultyOutputs>>
callVars == <<question, seenAtStart, got, reading, returned, progress, sourceErrors>>
sourceVars == <<source, chainVars, callVars, strictVars>>

\* _initSource, by keys.indexer.active, on mainnet and on testnet
InitSourceMainnet ==
    [local_bitcoind |-> "bitcoind", local_indexer |-> "indexer",
     local_rest_indexer |-> "rest", third_party_explorer |-> "oxt"]
InitSourceTestnet ==
    [local_bitcoind |-> "bitcoind", local_indexer |-> "indexer",
     local_rest_indexer |-> "rest", third_party_explorer |-> "esplora"]

\* What the source selected by a configuration sees of an address
SeenFrom(s, a) == IF s.kind = "bitcoind" THEN unspents[a] ELSE histories[a]
SeenNow(a) == SeenFrom(source, a)

\* One output of each transaction, two of the first one
OutputsOf(h) == [i \in 1 .. (IF h = <<>> THEN 0 ELSE Len(h) + 1) |-> IF i = 1 THEN 1 ELSE i - 1]

SourcesInit ==
    /\ \E initSource \in {InitSourceMainnet, InitSourceTestnet} :
        \E active \in DOMAIN initSource, batch \in BOOLEAN :
            source = [kind |-> initSource[active], batch |-> batch /\ active = "local_indexer"]
    /\ histories \in FirstHistories
    /\ unspents = [a \in ScriptAddrs |-> OutputsOf(histories[a])]
    /\ question = [addresses |-> <<>>, filterAddr |-> FALSE]
    /\ seenAtStart = [a \in ScriptAddrs |-> SeenNow(a)]
    /\ got = <<>> /\ reading = <<>> /\ returned = <<>>
    /\ vouts = <<>> /\ usedInDb = {} /\ faultyOutputs = {}
    /\ progress = "idle"
    /\ arrivals = 0 /\ sourceErrors = 0

-----------------------------------------------------------------------------
(* The chain *)

Arrive(a, outs) ==
    /\ progress = "asking" /\ arrivals < MaxArrivals
    /\ histories' = [histories EXCEPT ![a] = <<Len(@) + 1>> \o @]
    /\ unspents' = [unspents EXCEPT ![a] = outs]
    /\ arrivals' = arrivals + 1
    /\ UNCHANGED <<source, callVars, strictVars>>

Receive(a) == Arrive(a, Append(unspents[a], Len(histories[a]) + 1))
Spend(a) == unspents[a] # <<>> /\ Arrive(a, Tail(unspents[a]))

-----------------------------------------------------------------------------
(* The wrappers *)

Info(a, txids) == [address |-> a, ntx |-> Len(txids), txids |-> txids]

TooManyTxs(n) == question.filterAddr /\ n > AddrFilterThreshold

\* The elements at some positions, in their order
Only(s, positions) ==
    LET f[i \in 0 .. Len(s)] ==
        IF i = 0 THEN <<>>
        ELSE IF i \in positions THEN Append(f[i - 1], s[i]) ELSE f[i - 1]
    IN  f[Len(s)]

WithFewTxs(infos) == Only(infos, {i \in DOMAIN infos : ~TooManyTxs(infos[i].ntx)})

\* The loop of local-rest-indexer-wrapper.ts and bitcoind-wrapper.ts: an element that is
\* removed moves the next one to its place, and the loop goes past that one.
SplicedInfos(infos) ==
    LET f[i \in 0 .. Len(infos)] ==
        IF i = 0 THEN infos
        ELSE LET left == f[i - 1]
             IN  IF i <= Len(left) /\ TooManyTxs(left[i].ntx)
                 THEN SubSeq(left, 1, i - 1) \o SubSeq(left, i + 1, Len(left))
                 ELSE left
    IN  f[Len(infos)]

\* The keys of the map of script hashes: each address once, at its first place
ScriptHashes ==
    LET as == question.addresses
    IN  Only(as, {i \in DOMAIN as : \A j \in 1 .. i - 1 : as[j] # as[i]})

\* Fault: what the wrapper returns is returned as it is.
Kept_Unfiltered(infos) == infos

\* Sources.getAddresses filters what the wrapper returns once more.
Kept(infos) == WithFewTxs(infos)

Return(infos) == progress' = "answered" /\ returned' = Kept(infos)

\* One more answer of the source to a wrapper that asks for n things
Collect(g, n, result) ==
    /\ got' = g
    /\ IF Cardinality(DOMAIN g) = n
       THEN Return(result)
       ELSE UNCHANGED <<returned, progress>>

\* esplora-wrapper.ts: the addresses one after the other, each page by page
NextPage(a) ==
    LET h == histories[a]
        from == CHOOSE i \in 0 .. Len(h) :
                    IF reading = <<>> THEN i = 0 ELSE i > 0 /\ h[i] = reading[Len(reading)]
        to == IF from + NbTxsPerPage < Len(h) THEN from + NbTxsPerPage ELSE Len(h)
    IN  SubSeq(h, from + 1, to)

EsploraPage ==
    LET n == Len(question.addresses)
        a == question.addresses[Len(got) + 1]
        page == NextPage(a)
        txids == reading \o page
        full == Len(page) = NbTxsPerPage
        g == Append(got, Info(a, IF full THEN <<>> ELSE txids))
    IN  /\ source.kind = "esplora"
        /\ IF full /\ ~TooManyTxs(Len(txids))
           THEN reading' = txids /\ UNCHANGED <<got, returned, progress>>
           ELSE reading' = <<>> /\ Collect(g, n, g)

\* local-indexer-wrapper.ts: batches of script hashes in series,
IndexerBatch ==
    LET hashes == ScriptHashes
        to == IF Len(got) + ScriptHashChunk < Len(hashes) THEN Len(got) + ScriptHashChunk
              ELSE Len(hashes)
        g == [i \in 1 .. to |-> IF i <= Len(got) THEN got[i]
                                ELSE Info(hashes[i], histories[hashes[i]])]
    IN  /\ source.kind = "indexer" /\ source.batch
        /\ Collect(g, Len(hashes), WithFewTxs(g))
        /\ UNCHANGED reading

\* or a pool of requests, answered in any order, whose results keep theirs
IndexerReply(i) ==
    LET hashes == ScriptHashes
        g == [j \in DOMAIN got \cup {i} |-> IF j = i THEN Info(hashes[i], histories[hashes[i]])
                                           ELSE got[j]]
    IN  /\ source.kind = "indexer" /\ ~source.batch
        /\ i \in DOMAIN hashes \ DOMAIN got
        /\ i <= Cardinality(DOMAIN got) + PoolLimit
        /\ Collect(g, Len(hashes), WithFewTxs(g))
        /\ UNCHANGED reading

\* An answer about all the addresses; one without transactions may be left out.
InfosOf(hashes, omitted, txs) ==
    LET infos == [i \in DOMAIN hashes |-> Info(hashes[i], txs[hashes[i]])]
    IN  Only(infos, {i \in DOMAIN infos : omitted => infos[i].ntx > 0})

\* local-rest-indexer-wrapper.ts
RestReply ==
    /\ source.kind = "rest"
    /\ \E omitted \in BOOLEAN :
         Return(SplicedInfos(InfosOf(ScriptHashes, omitted, histories)))
    /\ UNCHANGED <<got, reading>>

\* bitcoind-wrapper.ts: the unspent outputs of the addresses that have some
BitcoindReply ==
    /\ source.kind = "bitcoind"
    /\ Return(SplicedInfos(InfosOf(ScriptHashes, TRUE, unspents)))
    /\ UNCHANGED <<got, reading>>

\* oxt-wrapper.ts: one transaction more than the threshold is asked for, and no other.
\* The number of those of an address that has too many is kept, and not their ids.
Newest(h) ==
    IF Len(h) <= AddrFilterThreshold THEN h ELSE SubSeq(h, 1, AddrFilterThreshold + 1)

OxtReply ==
    /\ source.kind = "oxt"
    /\ \E omitted \in BOOLEAN :
         LET infos == InfosOf(ScriptHashes, omitted, [a \in ScriptAddrs |-> Newest(histories[a])])
         IN  Return([i \in DOMAIN infos |->
                       [infos[i] EXCEPT !.txids = IF TooManyTxs(infos[i].ntx) THEN <<>> ELSE @]])
    /\ UNCHANGED <<got, reading>>

-----------------------------------------------------------------------------
(* A call *)

AskSource(addresses, filterAddr) ==
    /\ question' = [addresses |-> addresses, filterAddr |-> filterAddr]
    /\ seenAtStart' = [a \in ScriptAddrs |-> SeenNow(a)]
    /\ progress' = "asking"

\* The importer asks, or GET /seen.
GetAddresses(addresses, filterAddr) ==
    /\ progress = "idle"
    /\ AskSource(addresses, filterAddr)
    /\ UNCHANGED <<source, chainVars, strictVars, got, reading, returned, sourceErrors>>

SourceReplies ==
    /\ progress = "asking"
    /\ \/ EsploraPage \/ IndexerBatch \/ RestReply \/ BitcoindReply \/ OxtReply
       \/ \E i \in 1 .. Len(question.addresses) : IndexerReply(i)
    /\ UNCHANGED <<source, chainVars, strictVars, question, seenAtStart, sourceErrors>>

\* A request fails: what the others answered is lost, and the list that is returned empty.
SourceFails ==
    /\ progress = "asking" /\ sourceErrors < MaxSourceErrors
    /\ sourceErrors' = sourceErrors + 1
    /\ progress' = "failed" /\ returned' = <<>>
    /\ UNCHANGED <<source, chainVars, strictVars, question, seenAtStart, got, reading>>

-----------------------------------------------------------------------------
(* The strict mode of pushtx-processor.ts *)

\* An output to an address that was used, as far as the tables say, or to that of an
\* output before it, is at fault; of the addresses of the others, the source is asked.
EnforceStrictModeVouts(outs, used) ==
    LET faulty == {i \in DOMAIN outs : outs[i] \in used \/ \E j \in 1 .. i - 1 : outs[j] = outs[i]}
        addrMap == Only(outs, DOMAIN outs \ faulty)
    IN  /\ progress = "idle"
        /\ vouts' = outs /\ usedInDb' = used /\ faultyOutputs' = faulty
        /\ IF addrMap # <<>> /\ source.kind # "bitcoind"
           THEN AskSource(addrMap, FALSE)
           ELSE /\ progress' = IF faulty = {} THEN "pushed" ELSE "refused"
                /\ UNCHANGED <<question, seenAtStart>>
        /\ UNCHANGED <<source, chainVars, got, reading, returned, sourceErrors>>

\* The outputs to an address that the source has seen
UsedElsewhere ==
    {i \in DOMAIN vouts \ faultyOutputs :
        \E r \in {returned[j] : j \in DOMAIN returned} : r.address = vouts[i] /\ r.ntx > 0}

\* postPushTx: the transaction is pushed if no output is at fault.
PostPushTx ==
    /\ progress \in {"answered", "failed"} /\ vouts # <<>>
    /\ faultyOutputs' = faultyOutputs \cup UsedElsewhere
    /\ progress' = IF faultyOutputs' = {} THEN "pushed" ELSE "refused"
    /\ UNCHANGED <<source, chainVars, vouts, usedInDb, question, seenAtStart, got, reading,
                   returned, sourceErrors>>

SourcesNext ==
    \/ \E a \in ScriptAddrs : Receive(a) \/ Spend(a)
    \/ \E as \in AddressLists, filterAddr \in BOOLEAN : GetAddresses(as, filterAddr)
    \/ SourceReplies \/ SourceFails
    \/ \E outs \in AddressLists, used \in SUBSET {a \in ScriptAddrs : histories[a] # <<>>} :
         EnforceStrictModeVouts(outs, used)
    \/ PostPushTx

SourcesSpec == SourcesInit /\ [][SourcesNext]_sourceVars

-----------------------------------------------------------------------------
(* Properties *)

Elements(s) == {s[i] : i \in DOMAIN s}

SourcesTypeOK ==
    /\ source \in [kind : {"bitcoind", "indexer", "rest", "oxt", "esplora"}, batch : BOOLEAN]
    /\ \A a \in ScriptAddrs : Elements(histories[a]) = 1 .. Len(histories[a])
    /\ \A a \in ScriptAddrs : Elements(unspents[a]) \subseteq Elements(histories[a])
    /\ \A r \in Elements(returned) : r.address \in ScriptAddrs /\ Elements(r.txids) \subseteq Nat
    /\ faultyOutputs \subseteq DOMAIN vouts
    /\ progress \in {"idle", "asking", "answered", "failed", "pushed", "refused"}

Found(a) == UNION {Elements(r.txids) : r \in {s \in Elements(returned) : s.address = a}}

\* Whatever the source, an answer has all the transactions (bitcoind: with an unspent
\* output) that an address had from the start of the call to its end, or, of an address
\* with more than the threshold under the filter, none; OXT, without the filter, gives the
\* newest ones up to the threshold and one. No element that passes the filter has more.
AnswersAreWhole ==
    progress = "answered" =>
        /\ \A a \in Elements(question.addresses) :
            \/ (Elements(seenAtStart[a]) \cap Elements(SeenNow(a))) \subseteq Found(a)
            \/ TooManyTxs(Len(SeenNow(a))) /\ Found(a) = {}
            \/ /\ source.kind = "oxt" /\ Cardinality(Found(a)) = AddrFilterThreshold + 1
        /\ \A r \in Elements(returned) : ~TooManyTxs(r.ntx) /\ r.ntx = Len(r.txids)
        /\ \A a \in ScriptAddrs : Found(a) \subseteq Elements(SeenNow(a))

\* In strict mode, a transaction is pushed only if its outputs that are to be checked pay
\* distinct addresses without transactions in the tables, and, unless the source is
\* bitcoind or did not answer, without any that the source had seen when it was asked;
\* and only an output that was used, or comes twice, is at fault.
StrictModeHolds ==
    LET Reused(i) == vouts[i] \in usedInDb \/ \E j \in 1 .. i - 1 : vouts[j] = vouts[i]
        asked == source.kind # "bitcoind" /\ sourceErrors = 0
    IN  /\ progress = "pushed" =>
            \A i \in DOMAIN vouts : ~Reused(i) /\ (asked => seenAtStart[vouts[i]] = <<>>)
        /\ progress \in {"pushed", "refused"} =>
            \A i \in faultyOutputs : Reused(i) \/ histories[vouts[i]] # <<>>

\* What the importer and the strict mode rely on
SourcesTellAll == AnswersAreWhole /\ StrictModeHolds
=============================================================================
