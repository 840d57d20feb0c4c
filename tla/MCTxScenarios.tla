---------------------------- MODULE MCTxScenarios ----------------------------
(***************************************************************************)
(* Two scenarios of TxTracking in one run. "alone": b is pushed, c never   *)
(* comes, and the tracker may crash. "rivals": b and c replace each other, *)
(* nobody pushes, and bitcoind may evict.                                  *)
(***************************************************************************)
EXTENDS MCTxTracking

VARIABLE scenario

MCInit == Init /\ scenario \in {"alone", "rivals"}

MCNext ==
    /\ Next
    /\ UNCHANGED scenario
    /\ scenario = "alone" => c \notin announced' /\ evictions' = 0
    /\ scenario = "rivals" => pushes \subseteq pushes' /\ crashes' = 0

\* The fairness of FairSpec, where the push of "rivals" is never received
MCSpec ==
    /\ MCInit /\ [][MCNext]_<<vars, scenario>>
    /\ WF_vars(MempoolStep) /\ WF_vars(BlockStep) /\ WF_vars(UnconfirmedStep)
    /\ \A w \in Loops : WF_vars(CheckerStep(w))
    /\ \A w \in Pushers : WF_vars(scenario = "alone" /\ CheckerStep(w))

\* EventuallyRegistered, of a transaction that has no rival: what is mined, and of
\* interest, is recorded and confirmed in the end, after any restart.
AloneIsRegistered ==
    <>[](scenario = "alone" => \A t \in Txs : Interesting(t) => Registered(t))
=============================================================================
