------------------------------- MODULE MCPushTx -------------------------------
(***************************************************************************)
(* The script of the PushTx runs: t1, then t2 and t3 of the next hop, given *)
(* in the wrong order. It starts in the future when it is asked early, in  *)
(* the past when it is asked, or asked again, later; t2 may follow t1      *)
(* without a delay.                                                        *)
(***************************************************************************)
EXTENDS PushTx, TLC

CONSTANTS t1, t2, t3, r1, r2

MCLockTime == [t \in Txs |-> IF t = t3 THEN 5 ELSE 3]

Step(t, hop) == [tx |-> t, hop |-> hop, nlocktime |-> MCLockTime[t]]

\* The requests send the same script.
RequestSymmetry == Permutations({r1, r2})

MCScripts == {<<Step(t1, 0), Step(t3, 1), Step(t2, 1)>>}
=============================================================================
