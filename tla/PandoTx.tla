-------------------------------- MODULE PandoTx --------------------------------
(***************************************************************************)
(* pushtx/pandotx-emitter.ts, and pushTx of pushtx-processor.ts when       *)
(* PandoTx is active: a transaction is sent to a node of the Soroban       *)
(* network, which should push it and confirm; a watchdog checks after 30 s *)
(* that the local bitcoind knows it, or has it emitted again. What the     *)
(* nodes do, and what of it reaches bitcoind, is not ours: anything.       *)
(***************************************************************************)
EXTENDS Integers, FiniteSets, SequencesExt

CONSTANTS
    PandoTxs,       \* transactions that clients push
    Nodes,          \* urls of the nodes that announce themselves
    NoNode,
    NoEntry,
    Watchdogs,      \* calls of processWatchdog, by the interval or by stop
    MaxNbAttempts,
    MaxPushes,      \* bound: requests of the clients
    MaxExpiries     \* bound: days that pass

\* What is watched: a transaction, the node it was sent to, whether 30 s have passed
Entries == [tx : PandoTxs, node : Nodes, old : BOOLEAN]

ASSUME PandoTxAssumption ==
    /\ MaxNbAttempts \in Nat \ {0} /\ MaxPushes \in Nat /\ MaxExpiries \in Nat
    /\ IsFiniteSet(Nodes) /\ NoNode \notin Nodes
    /\ PandoTxs \cap Watchdogs = {} /\ NoEntry \notin PandoTxs
    /\ NoEntry \notin Entries

\* Emissions: of pushTx, one for each transaction, and of the watchdog, which retry.
Emitters == PandoTxs \cup Watchdogs
Emissions == [step : {"idle", "list", "send", "wait", "local"},
              tx : PandoTxs \cup {NoEntry}, url : Nodes \cup {NoNode}, left : 0 .. MaxNbAttempts]
NoEmission == [step |-> "idle", tx |-> NoEntry, url |-> NoNode, left |-> 0]
Begun(tx) == [step |-> "list", tx |-> tx, url |-> NoNode, left |-> MaxNbAttempts]

VARIABLES
    fallbackMode,       \* keys.pandoTx.fallbackMode
    emission,           \* emit of each emitter: the transaction, the node, attempts left
    watchdogTxsList,
    watchdogBlacklist,
    dayOld,             \* nodes that were put on the blacklist more than 24 h ago
    expiries,
    isWatchdogActive,
    watchdog,           \* the loop of each call: index, and entry read before an await
    known,              \* transactions that the local bitcoind knows
    published,          \* transactions that were added to a directory
    pushes,             \* number of requests
    answer,             \* what pushTx answered last
    pushtxAlive         \* the process runs

blameVars == <<watchdogBlacklist, dayOld, expiries>>
watchVars == <<isWatchdogActive, watchdog, watchdogTxsList>>
pandoVars == <<fallbackMode, emission, blameVars, watchVars, known, published, pushes,
               answer, pushtxAlive>>

NoWatch == [i |-> 0, entry |-> NoEntry]

PandoInit ==
    /\ fallbackMode \in {"convenient", "secure"}
    /\ emission = [e \in Emitters |-> NoEmission]
    /\ watchdogTxsList = <<>>
    /\ watchdogBlacklist = {} /\ dayOld = {} /\ expiries = 0
    /\ isWatchdogActive = FALSE
    /\ watchdog = [w \in Watchdogs |-> NoWatch]
    /\ known = {} /\ published = {} /\ pushes = 0
    /\ answer = [t \in PandoTxs |-> "none"]
    /\ pushtxAlive = TRUE

-----------------------------------------------------------------------------
(* The loop of processWatchdog, from the last entry to the first. Only the watchdog
   removes entries, and emissions append theirs: an index stays right. *)

\* The next entry that is 30 s old, at i or below; the call ends if there is none.
Scan(w, list, i) ==
    LET aged == {j \in 1 .. Len(list) : j <= i /\ list[j].old}
    IN  \/ /\ aged = {}
           /\ isWatchdogActive' = FALSE
           /\ watchdog' = [watchdog EXCEPT ![w] = NoWatch]
        \/ \E next \in aged :
             /\ \A j \in aged : j <= next
             /\ isWatchdogActive' = TRUE
             /\ watchdog' = [watchdog EXCEPT ![w] = [i |-> next, entry |-> list[next]]]

\* splice(i, 1): nothing is removed past the end.
Spliced(i) == IF i \in DOMAIN watchdogTxsList THEN RemoveAt(watchdogTxsList, i) ELSE watchdogTxsList

\* Fault: a call does not look for another one that runs.
NoneActive_Always == TRUE

NoneActive == ~isWatchdogActive

ProcessWatchdog(w) ==
    /\ watchdog[w] = NoWatch /\ NoneActive
    /\ Scan(w, watchdogTxsList, Len(watchdogTxsList))
    /\ UNCHANGED <<fallbackMode, pushes, emission, watchdogTxsList, blameVars, known, published, answer>>

Checking(w) == watchdog[w].entry # NoEntry /\ emission[w].step = "idle"

\* getrawtransaction finds the transaction.
WatchedIsKnown(w) ==
    /\ Checking(w)
    /\ watchdog[w].entry.tx \in known
    /\ watchdogTxsList' = Spliced(watchdog[w].i)
    /\ Scan(w, watchdogTxsList', watchdog[w].i - 1)
    /\ UNCHANGED <<fallbackMode, pushes, emission, blameVars, known, published, answer>>

\* It does not, or fails: the node is blamed, and the transaction emitted again.
EmitAgain(w) ==
    /\ Checking(w)
    /\ watchdogBlacklist' = watchdogBlacklist \cup {watchdog[w].entry.node}
    /\ dayOld' = dayOld \ {watchdog[w].entry.node}
    /\ watchdogTxsList' = Spliced(watchdog[w].i)
    /\ emission' = [emission EXCEPT ![w] = Begun(watchdog[w].entry.tx)]
    /\ UNCHANGED <<fallbackMode, pushes, expiries, isWatchdogActive, watchdog, known, published, answer>>

-----------------------------------------------------------------------------
(* emit, and what its callers do after it *)

\* Nobody waits for the watchdog: what it throws ends the process. pushTx tries the
\* local bitcoind, or in the secure mode gives up, and answers with the txid.
Throws(e) ==
    /\ UNCHANGED watchVars
    /\ \/ /\ e \in Watchdogs
          /\ pushtxAlive' = FALSE
          /\ UNCHANGED <<emission, answer>>
       \/ /\ e \in PandoTxs /\ fallbackMode = "secure"
          /\ answer' = [answer EXCEPT ![e] = "silent"]
          /\ emission' = [emission EXCEPT ![e] = NoEmission]
          /\ UNCHANGED pushtxAlive
       \/ /\ e \in PandoTxs /\ fallbackMode # "secure"
          /\ emission' = [emission EXCEPT ![e].step = "local"]
          /\ UNCHANGED <<answer, pushtxAlive>>

\* The confirmation of the transaction is found: it is watched from now on.
Watched(e) ==
    LET entry == [tx |-> emission[e].tx, node |-> emission[e].url, old |-> FALSE]
    IN  /\ watchdogTxsList' = Append(watchdogTxsList, entry)
        /\ emission' = [emission EXCEPT ![e] = NoEmission]
        /\ UNCHANGED pushtxAlive
        /\ \/ /\ e \in Watchdogs
              /\ Scan(e, watchdogTxsList', watchdog[e].i - 1)
              /\ UNCHANGED answer
           \/ /\ e \in PandoTxs
              /\ answer' = [answer EXCEPT ![e] = "ok"]
              /\ UNCHANGED <<isWatchdogActive, watchdog>>

\* pushTx, which clients may repeat: the transaction is known already, or is emitted.
Push(t) ==
    /\ emission[t] = NoEmission /\ pushes < MaxPushes
    /\ pushes' = pushes + 1
    /\ \/ /\ t \in known
          /\ answer' = [answer EXCEPT ![t] = "ok"]
          /\ UNCHANGED emission
       \/ /\ t \notin known
          /\ emission' = [emission EXCEPT ![t] = Begun(t)]
          /\ UNCHANGED answer
    /\ UNCHANGED <<fallbackMode, blameVars, watchVars, known, published, pushtxAlive>>

\* The announced nodes us are listed, and an honest one is chosen, if there is one. A
\* node that has been on the blacklist for a day is taken off it.
ListNodes(e, us) ==
    LET honest == us \ (watchdogBlacklist \ dayOld)
    IN  /\ emission[e].step = "list"
        /\ \/ /\ honest = {}
              /\ Throws(e)
              /\ UNCHANGED <<watchdogBlacklist, dayOld>>
           \/ \E u \in honest :
                /\ watchdogBlacklist' = watchdogBlacklist \ {u}
                /\ dayOld' = dayOld \ {u}
                /\ emission' = [emission EXCEPT ![e] =
                                  [step |-> "send", tx |-> emission[e].tx, url |-> u,
                                   left |-> emission[e].left - 1]]
                /\ UNCHANGED <<watchVars, answer, pushtxAlive>>
        /\ UNCHANGED <<fallbackMode, pushes, expiries, known, published>>

\* The transaction is added to the directory of the node, or to the local one at the last
\* attempt, unless the mode is secure.
Added(e) ==
    /\ emission[e].step = "send"
    /\ emission' = [emission EXCEPT ![e].step = "wait"]
    /\ published' = published \cup {emission[e].tx}
    /\ UNCHANGED <<fallbackMode, pushes, blameVars, watchVars, known, answer, pushtxAlive>>

\* It is not: the node may be blamed, and is the one of the next attempt all the same.
SendFails(e) ==
    /\ emission[e].step = "send"
    /\ \/ UNCHANGED <<watchdogBlacklist, dayOld>>
       \/ /\ watchdogBlacklist' = watchdogBlacklist \cup {emission[e].url}
          /\ dayOld' = dayOld \ {emission[e].url}
    /\ \/ /\ emission[e].left = 0
          /\ Throws(e)
       \/ /\ emission[e].left > 0
          /\ emission' = [emission EXCEPT ![e].left = @ - 1]
          /\ UNCHANGED <<watchVars, answer, pushtxAlive>>
    /\ UNCHANGED <<fallbackMode, pushes, expiries, known, published>>

Confirmed(e) ==
    /\ emission[e].step = "wait"
    /\ Watched(e)
    /\ UNCHANGED <<fallbackMode, pushes, blameVars, known, published>>

\* Fault: a node that does not confirm is not put on the blacklist.
BlamedForTimeout_Nobody(u) == {}

BlamedForTimeout(u) == {u}

\* No confirmation after 15 s: an emission of the watchdog begins anew, others fail.
TimesOut(e) ==
    /\ emission[e].step = "wait"
    /\ watchdogBlacklist' = watchdogBlacklist \cup BlamedForTimeout(emission[e].url)
    /\ dayOld' = dayOld \ BlamedForTimeout(emission[e].url)
    /\ \/ /\ e \in Watchdogs
          /\ emission' = [emission EXCEPT ![e] = Begun(@.tx)]
          /\ UNCHANGED <<watchVars, answer, pushtxAlive>>
       \/ /\ e \in PandoTxs
          /\ Throws(e)
    /\ UNCHANGED <<fallbackMode, pushes, expiries, known, published>>

\* The list of confirmations cannot be read.
WaitFails(e) ==
    /\ emission[e].step = "wait"
    /\ Throws(e)
    /\ UNCHANGED <<fallbackMode, pushes, blameVars, known, published>>

\* pushTx: sendrawtransaction
PushLocally(t) ==
    /\ emission[t].step = "local"
    /\ emission' = [emission EXCEPT ![t] = NoEmission]
    /\ \/ known' = known \cup {t} /\ answer' = [answer EXCEPT ![t] = "ok"]
       \/ answer' = [answer EXCEPT ![t] = "failed"] /\ UNCHANGED known
    /\ UNCHANGED <<fallbackMode, pushes, blameVars, watchVars, published, pushtxAlive>>

EmissionStep(e) ==
    \/ \E us \in SUBSET Nodes : ListNodes(e, us)
    \/ Added(e) \/ SendFails(e)
    \/ Confirmed(e) \/ TimesOut(e) \/ WaitFails(e)

-----------------------------------------------------------------------------
(* Around the process *)

\* A transaction that was sent reaches the local bitcoind.
Seen(t) ==
    /\ t \in published \ known
    /\ known' = known \cup {t}
    /\ UNCHANGED <<fallbackMode, pushes, emission, blameVars, watchVars, published, answer, pushtxAlive>>

\* 30 s pass for an entry of the list, and for those before it.
Age(i) ==
    /\ ~watchdogTxsList[i].old
    /\ watchdogTxsList' = [j \in DOMAIN watchdogTxsList |->
                             IF j <= i THEN [watchdogTxsList[j] EXCEPT !.old = TRUE]
                             ELSE watchdogTxsList[j]]
    /\ UNCHANGED <<fallbackMode, pushes, emission, blameVars,
                   isWatchdogActive, watchdog, known, published, answer, pushtxAlive>>

\* A day passes: no emission is that long.
Day ==
    /\ expiries < MaxExpiries /\ watchdogBlacklist # dayOld
    /\ \A e \in Emitters : emission[e].step = "idle"
    /\ dayOld' = watchdogBlacklist
    /\ expiries' = expiries + 1
    /\ UNCHANGED <<fallbackMode, pushes, emission, watchdogBlacklist, watchVars, known, published,
                   answer, pushtxAlive>>

PandoNext ==
    /\ pushtxAlive
    /\ \/ \E t \in PandoTxs : Push(t) \/ PushLocally(t) \/ Seen(t)
       \/ \E e \in Emitters : EmissionStep(e)
       \/ \E w \in Watchdogs :
            /\ ProcessWatchdog(w) \/ WatchedIsKnown(w) \/ EmitAgain(w)
            /\ UNCHANGED pushtxAlive
       \/ \E i \in DOMAIN watchdogTxsList : Age(i)
       \/ Day

PandoSpec == PandoInit /\ [][PandoNext]_pandoVars

\* Requests to the directories and to bitcoind are answered, or fail.
PandoFairness ==
    \A e \in Emitters : WF_pandoVars(pushtxAlive /\ EmissionStep(e))

-----------------------------------------------------------------------------
(* Properties *)

PandoTypeOK ==
    /\ fallbackMode \in {"convenient", "secure"}
    /\ emission \in [Emitters -> Emissions]
    /\ watchdogTxsList \in Seq(Entries)
    /\ watchdogBlacklist \subseteq Nodes /\ dayOld \subseteq watchdogBlacklist
    /\ expiries \in Nat /\ isWatchdogActive \in BOOLEAN
    /\ watchdog \in [Watchdogs -> [i : Nat, entry : Entries \cup {NoEntry}]]
    /\ known \subseteq PandoTxs /\ published \subseteq PandoTxs /\ pushes \in Nat
    /\ answer \in [PandoTxs -> {"none", "ok", "silent", "failed"}]
    /\ pushtxAlive \in BOOLEAN

\* A transaction whose push was answered is known to the local bitcoind, or watched, or
\* being emitted again, for as long as the process runs, however emissions and the
\* watchdog, which removes entries by an index read before it waits, overlap. (In the
\* secure mode a push that failed on every node is answered in the same way: "silent".)
NotForgotten ==
    \A t \in PandoTxs : pushtxAlive /\ answer[t] = "ok" =>
        \/ t \in known
        \/ \E j \in DOMAIN watchdogTxsList : watchdogTxsList[j].tx = t
        \/ \E w \in Watchdogs : emission[w].tx = t

\* Each emission ends, also those of the watchdog that begin anew at each timeout: the
\* node that did not confirm is on the blacklist, and there are only so many.
EveryEmissionEnds ==
    \A e \in Emitters :
        emission[e].step \in {"list", "send", "wait"} ~>
            emission[e].step \in {"idle", "local"} \/ ~pushtxAlive
=============================================================================
