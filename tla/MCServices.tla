------------------------------ MODULE MCServices ------------------------------
(***************************************************************************)
(* Nine services that share no state: the queue of blocks, the             *)
(* notifications, the sessions, the caches of bitcoind, PandoTx, the       *)
(* answer to a wallet, the database wrapper, the sources of data, and the  *)
(* derivation of addresses. In each behaviour one of them runs, any of     *)
(* them, and the others stay at their initial states: the run checks each  *)
(* on its own.                                                             *)
(***************************************************************************)
EXTENDS Queue, Notifications, Authorizations, LatestBlock, PandoTx, MCWallet, DbWrapper,
        Sources, Derivation

CONSTANTS p1, p2, c1, c2, x, y, xy, s1, k1, n1, n2, t1, t2, u1, u2, w1, w2, q1, q2, g1, g2, s2, k2, v1, v2,
          d1, d2, d3, e1, e2, e3, f1

VARIABLE part   \* the service that runs

vars == <<part, queueVars, wsVars, authVars, tipVars, pandoVars, walletVars, wrapperVars,
          sourceVars, derivationVars>>

-----------------------------------------------------------------------------
\* Two producers, with chunks shorter than, as long as, and longer than the mark
Block(p, h) == [of |-> p, height |-> h]
MCWork == [p \in Producers |->
    IF p = p1 THEN <<<<Block(p, 1), Block(p, 2)>>, <<Block(p, 3), Block(p, 4)>>, <<Block(p, 5)>>>>
    ELSE <<<<Block(p, 6)>>, <<Block(p, 7), Block(p, 8)>>, <<Block(p, 9)>>>>]

\* An address x, an xpub y, and a text with both, which gives y by a pubkey; a transaction
\* that pays x, and an address of y
MCTopicsOf == [m \in Entities |-> IF m = xy THEN {x, y} ELSE {m}]
MCKeyedTopics == [m \in Entities |-> IF m = xy THEN {y} ELSE {}]
MCEnds == [s \in Sessions |-> {[addr |-> x, xpub |-> NoTopic], [addr |-> x, xpub |-> y]}]

\* Inserts and lookups of one chunk and of two, in which a key comes twice
DbRow(k, v, b) == [key |-> k, val |-> v, bytes |-> b]
MCInserts == {<<DbRow(k1, v1, 1)>>, <<DbRow(k2, v2, 2), DbRow(k1, v2, 1), DbRow(k2, v1, 1)>>}
MCLookups == {<<[key |-> k1, bytes |-> 1]>>,
              <<[key |-> k1, bytes |-> 1], [key |-> k2, bytes |-> 1], [key |-> k2, bytes |-> 1]>>}
MCTables == {{[key |-> k1, id |-> 1, val |-> v1], [key |-> k2, id |-> 2, val |-> v1]}}

\* An address with no, some or too many transactions, one with none or too many, and one
\* with some; an address may come twice.
MCTooMany == <<5, 4, 3, 2, 1>>
MCHistories == {[a \in ScriptAddrs |-> CASE a = d1 -> h1 [] a = d2 -> h2 [] OTHER -> <<3, 2, 1>>] :
                    h1 \in {<<>>, <<3, 2, 1>>, MCTooMany}, h2 \in {<<>>, MCTooMany}}
MCAddressLists == {<<d1, d2, d3>>, <<d1, d2, d1>>, <<d1, d2>>}

\* Indices for which the process derives, and for which the pool does
MCIndexRanges == {<<0>>, <<2, 3, 4>>}

\* An account that is not known, open or locked, and a Postmix one that is open or locked
MCFirstTypes == {[key \in HdKeys |-> IF key = e1 THEN a ELSE b] :
                    a \in {NoHdRow, BIP44, LOCKED + BIP49}, b \in {BIP84, LOCKED + BIP84}}

-----------------------------------------------------------------------------
\* The parts that begin in several states begin in one when they do not run.
Init ==
    /\ part \in {"queue", "notifications", "authorizations", "caches", "pandotx", "wallet", "database",
                "sources", "derivation"}
    /\ QueueInit /\ WsInit /\ AuthInit /\ TipInit /\ PandoInit /\ WalletInit /\ DbInit
    /\ SourcesInit /\ DerivationInit
    /\ part # "authorizations" => \A k \in ApiKeys : ~apiKeys[k].exists
    /\ part # "pandotx" => fallbackMode = "secure"
    /\ part # "sources" => /\ source = [kind |-> "bitcoind", batch |-> FALSE]
                           /\ histories[d1] = <<>> /\ histories[d2] = <<>>
    /\ part # "derivation" => ~external /\ hdTypes[e1] = NoHdRow /\ hdTypes[e2] = BIP84

Next ==
    /\ UNCHANGED part
    /\ \/ part = "queue" /\ QueueNext
          /\ UNCHANGED <<wsVars, authVars, tipVars, pandoVars, walletVars,
                         wrapperVars, sourceVars, derivationVars>>
       \/ part = "notifications" /\ WsNext
          /\ UNCHANGED <<queueVars, authVars, tipVars, pandoVars, walletVars,
                         wrapperVars, sourceVars, derivationVars>>
       \/ part = "authorizations" /\ AuthNext
          /\ UNCHANGED <<queueVars, wsVars, tipVars, pandoVars, walletVars,
                         wrapperVars, sourceVars, derivationVars>>
       \/ part = "caches" /\ TipNext
          /\ UNCHANGED <<queueVars, wsVars, authVars, pandoVars, walletVars,
                         wrapperVars, sourceVars, derivationVars>>
       \/ part = "pandotx" /\ PandoNext
          /\ UNCHANGED <<queueVars, wsVars, authVars, tipVars, walletVars,
                         wrapperVars, sourceVars, derivationVars>>
       \/ part = "wallet" /\ WalletNext
          /\ UNCHANGED <<queueVars, wsVars, authVars, tipVars, pandoVars,
                         wrapperVars, sourceVars, derivationVars>>
       \/ part = "database" /\ DbNext
          /\ UNCHANGED <<queueVars, wsVars, authVars, tipVars, pandoVars,
                         walletVars, sourceVars, derivationVars>>
       \/ part = "sources" /\ SourcesNext
          /\ UNCHANGED <<queueVars, wsVars, authVars, tipVars, pandoVars,
                         walletVars, wrapperVars, derivationVars>>
       \/ part = "derivation" /\ DerivationNext
          /\ UNCHANGED <<queueVars, wsVars, authVars, tipVars, pandoVars,
                         walletVars, wrapperVars, sourceVars>>

\* QueueFairness, TipFairness and PandoFairness, for the service that runs
Spec ==
    /\ Init /\ [][Next]_vars
    /\ \A p \in Producers : WF_queueVars(part = "queue" /\ alive /\ Produce(p))
    /\ WF_queueVars(part = "queue" /\ alive /\ FinishItem)
    /\ WF_tipVars(part = "caches" /\ AskBest)
    /\ WF_tipVars(part = "caches" /\ (Announce \/ LoseAnnouncement))
    /\ WF_tipVars(part = "caches" /\ (\E r \in headers : OnBlockHash(r)))
    /\ WF_tipVars(part = "caches" /\ (\E s \in Slots : TimerFires(s)))
    /\ \A s \in Slots : WF_tipVars(part = "caches" /\ (Estimate(s) \/ EndRefresh(s)))
    /\ \A e \in Emitters : WF_pandoVars(part = "pandotx" /\ pushtxAlive /\ EmissionStep(e))

-----------------------------------------------------------------------------
\* The types of all of them
ServicesTypeOK ==
    QueueTypeOK /\ WsTypeOK /\ AuthTypeOK /\ TipTypeOK /\ PandoTypeOK /\ WalletTypeOK
    /\ DbTypeOK /\ SourcesTypeOK /\ DerivationTypeOK

\* CachesCatchUp, of the behaviours in which the caches run
RunningCachesCatchUp == part = "caches" => CachesCatchUp
=============================================================================
