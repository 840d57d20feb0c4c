------------------------------ MODULE LatestBlock ------------------------------
(***************************************************************************)
(* The two caches that lib/bitcoind-rpc keeps of bitcoind: latest-block.ts *)
(* asks for the header of each block that is announced, and fees.ts asks   *)
(* for estimates every minute, and when a client asks for fees after a new *)
(* block. Requests run concurrently: bitcoind's answers come in any order. *)
(*                                                                         *)
(* Blocks are numbered by their heights, in the order in which they become *)
(* the tip of bitcoind; the process starts when it is at block 1.          *)
(***************************************************************************)
EXTENDS Integers, FiniteSets

CONSTANTS
    Idle, Asked, Failed,    \* a refresh that does not run, has no answer yet, has failed
    MaxTip,         \* bound: the last block found
    MaxLost,        \* bound: announcements that zmq loses
    MaxErrors,      \* bound: requests that fail
    MaxCalls        \* bound: refreshes that clients cause

ASSUME LatestBlockAssumption ==
    /\ MaxTip \in Nat \ {0} /\ MaxLost \in Nat /\ MaxErrors \in Nat /\ MaxCalls \in Nat
    /\ {Idle, Asked, Failed} \cap Nat = {}
    /\ Idle # Asked /\ Idle # Failed /\ Asked # Failed

\* No block yet: null, or -1
NoBlock == 0

\* A refresh that runs has a slot: there is one that runs or waits for its timer at the
\* start, and one more for each call.
Slots == 0 .. MaxCalls

VARIABLES
    tip,            \* the best block of bitcoind
    announced,      \* last block announced by zmq, or lost
    best,           \* answer of getbestblockhash, asked for at the start
    headers,        \* requests of headers without an answer yet
    height,         \* LatestBlock.height, with hash, time and diff
    overtaken,      \* history: the header of a block came after that of a later one
    refreshes,      \* refreshes that run, and the answers they have
    older, timer,   \* timers that are set: those that were replaced, and this.timer
    block,          \* Fees.block
    fees,           \* block at which bitcoind made the estimates that are kept
    lost, errors, calls \* numbers of faults and of calls

tipVars == <<tip, announced, best, headers, height, overtaken, refreshes, older, timer,
             block, fees, lost, errors, calls>>

headerVars == <<tip, announced, best, headers, height, overtaken>>
feeVars == <<refreshes, older, timer, block, fees, calls>>

\* The process starts: the first refresh runs.
RefreshesAtStart == [s \in Slots |-> IF s = 0 THEN Asked ELSE Idle]

TipInit ==
    /\ tip = 1 /\ announced = 1
    /\ best = NoBlock /\ headers = {}
    /\ height = NoBlock /\ overtaken = FALSE
    /\ refreshes = RefreshesAtStart
    /\ older = 0 /\ timer = FALSE
    /\ block = NoBlock /\ fees = NoBlock
    /\ lost = 0 /\ errors = 0 /\ calls = 0

-----------------------------------------------------------------------------
(* latest-block.ts *)

FindBlock ==
    /\ tip < MaxTip
    /\ tip' = tip + 1
    /\ UNCHANGED <<announced, best, headers, height, overtaken, feeVars, lost, errors>>

\* bitcoind answers getbestblockhash.
AskBest ==
    /\ best = NoBlock
    /\ best' = tip
    /\ headers' = headers \cup {[block |-> tip, from |-> "start"]}
    /\ UNCHANGED <<tip, announced, height, overtaken, feeVars, lost, errors>>

\* Nobody handles its failure: the process ends, and is started again. What was announced and
\* has not arrived is gone with it.
AskBestFails ==
    /\ best = NoBlock /\ errors < MaxErrors
    /\ errors' = errors + 1
    /\ announced' = tip /\ headers' = {}
    /\ height' = NoBlock /\ overtaken' = FALSE
    /\ refreshes' = RefreshesAtStart
    /\ older' = 0 /\ timer' = FALSE
    /\ block' = NoBlock /\ fees' = NoBlock
    /\ UNCHANGED <<tip, best, lost, calls>>

\* Event 'message' for the next block: its header is asked for; or zmq lost it.
Announce ==
    /\ announced < tip
    /\ announced' = announced + 1
    /\ headers' = headers \cup {[block |-> announced', from |-> "zmq"]}
    /\ UNCHANGED <<tip, best, height, overtaken, feeVars, lost, errors>>

LoseAnnouncement ==
    /\ announced < tip /\ lost < MaxLost
    /\ announced' = announced + 1
    /\ lost' = lost + 1
    /\ UNCHANGED <<tip, best, headers, height, overtaken, feeVars, errors>>

OnBlockHash(r) ==
    /\ r \in headers
    /\ headers' = headers \ {r}
    /\ height' = r.block
    /\ overtaken' = (overtaken \/ r.block < height)
    /\ UNCHANGED <<tip, announced, best, feeVars, lost, errors>>

\* Fault: a request that fails is not made again.
Retried_Never(r) == headers \ {r}

\* The same request is made again two seconds later.
Retried(r) == headers

OnBlockHashFails(r) ==
    /\ r \in headers /\ errors < MaxErrors
    /\ headers' = Retried(r)
    /\ errors' = errors + 1
    /\ UNCHANGED <<tip, announced, best, height, overtaken, feeVars, lost>>

-----------------------------------------------------------------------------
(* fees.ts *)

\* getFees starts a refresh if the latest block is above that of the fees.
GetFees(s) ==
    /\ calls < MaxCalls
    /\ height > block
    /\ refreshes[s] = Idle
    /\ refreshes' = [refreshes EXCEPT ![s] = Asked]
    /\ timer' = FALSE
    /\ calls' = calls + 1
    /\ UNCHANGED <<headerVars, older, block, fees, lost, errors>>

\* The oldest timer fires; the refresh that it starts clears this.timer.
TimerFires(s) ==
    /\ older > 0 \/ timer
    /\ refreshes[s] = Idle
    /\ refreshes' = [refreshes EXCEPT ![s] = Asked]
    /\ older' = IF older > 0 THEN older - 1 ELSE 0
    /\ timer' = FALSE
    /\ UNCHANGED <<headerVars, block, fees, calls, lost, errors>>

\* bitcoind makes the estimates,
Estimate(s) ==
    /\ refreshes[s] = Asked
    /\ refreshes' = [refreshes EXCEPT ![s] = tip]
    /\ UNCHANGED <<headerVars, older, timer, block, fees, calls, lost, errors>>

EstimateFails(s) ==
    /\ refreshes[s] = Asked /\ errors < MaxErrors
    /\ refreshes' = [refreshes EXCEPT ![s] = Failed]
    /\ errors' = errors + 1
    /\ UNCHANGED <<headerVars, older, timer, block, fees, calls, lost>>

\* Fault: a refresh that fails does not set the timer.
SetTimer_UnlessFailed(answer) ==
    IF answer = Failed THEN UNCHANGED <<older, timer>>
    ELSE older' = (IF timer THEN older + 1 ELSE older) /\ timer' = TRUE

SetTimer(answer) ==
    /\ older' = IF timer THEN older + 1 ELSE older
    /\ timer' = TRUE

\* and the refresh ends: the block of the fees is that of the cache by now.
EndRefresh(s) ==
    /\ refreshes[s] \notin {Idle, Asked}
    /\ fees' = IF refreshes[s] = Failed THEN fees ELSE refreshes[s]
    /\ block' = IF height = NoBlock THEN block ELSE height
    /\ SetTimer(refreshes[s])
    /\ refreshes' = [refreshes EXCEPT ![s] = Idle]
    /\ UNCHANGED <<headerVars, calls, lost, errors>>

-----------------------------------------------------------------------------
TipNext ==
    \/ FindBlock \/ AskBest \/ AskBestFails \/ Announce \/ LoseAnnouncement
    \/ \E r \in headers : OnBlockHash(r) \/ OnBlockHashFails(r)
    \/ \E s \in Slots :
         GetFees(s) \/ TimerFires(s) \/ Estimate(s) \/ EstimateFails(s) \/ EndRefresh(s)

TipSpec == TipInit /\ [][TipNext]_tipVars

\* Announcements arrive, timers fire and bitcoind answers; nobody has to ask for fees.
TipFairness ==
    /\ WF_tipVars(AskBest) /\ WF_tipVars(Announce \/ LoseAnnouncement)
    /\ WF_tipVars(\E r \in headers : OnBlockHash(r))
    /\ WF_tipVars(\E s \in Slots : TimerFires(s))
    /\ \A s \in Slots : WF_tipVars(Estimate(s) \/ EndRefresh(s))

-----------------------------------------------------------------------------
(* Properties *)

TipTypeOK ==
    /\ tip \in Nat /\ announced \in Nat /\ announced <= tip
    /\ best \in Nat /\ height \in Nat /\ overtaken \in BOOLEAN
    /\ headers \subseteq [block : Nat, from : {"start", "zmq"}]
    /\ refreshes \in [Slots -> Nat \cup {Idle, Asked, Failed}]
    /\ older \in Nat /\ timer \in BOOLEAN
    /\ block \in Nat /\ fees \in Nat
    /\ lost \in Nat /\ errors \in Nat /\ calls \in Nat

\* "A singleton providing information about the latest block": failures included, the
\* cache shows the tip in the end, unless an announcement was lost, or the answer of an
\* older request came after it. However the refreshes of timers and of clients overlap,
\* fail and clear each other's timers, there always is another: the fees are those of the
\* tip in the end, although a refresh takes the block that is the latest when it ends for
\* the one its estimates were made at (fees.ts:146).
CachesCatchUp == <>[](/\ lost = 0 /\ ~overtaken => height = tip
                      /\ fees = tip)
=============================================================================
