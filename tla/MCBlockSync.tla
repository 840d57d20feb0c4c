----------------------------- MODULE MCBlockSync -----------------------------
(***************************************************************************)
(* The trees of the BlockSync runs: a branch a1 a2 a3, a longer one that   *)
(* forks above a1, b2 b3 b4, and one that forks above genesis, c1 c2 c3.   *)
(* A run takes some of these blocks. The transactions are mined on the     *)
(* branches of a and c, at different heights.                              *)
(***************************************************************************)
EXTENDS BlockSync

CONSTANTS g, a1, a2, a3, b2, b3, b4, c1, c2, c3, t1

Branch(path) == [h \in 0 .. Len(path) - 1 |-> path[h + 1]]

MCAnc == [b \in Blocks |->
    CASE b = g  -> Branch(<<g>>)
      [] b = a1 -> Branch(<<g, a1>>)
      [] b = a2 -> Branch(<<g, a1, a2>>)
      [] b = a3 -> Branch(<<g, a1, a2, a3>>)
      [] b = b2 -> Branch(<<g, a1, b2>>)
      [] b = b3 -> Branch(<<g, a1, b2, b3>>)
      [] b = b4 -> Branch(<<g, a1, b2, b3, b4>>)
      [] b = c1 -> Branch(<<g, c1>>)
      [] b = c2 -> Branch(<<g, c1, c2>>)
      [] b = c3 -> Branch(<<g, c1, c2, c3>>)]

MCHeight == [b \in Blocks |-> Cardinality(DOMAIN MCAnc[b]) - 1]

MCBlockTxs == [b \in Blocks |-> IF b \in {a1, c2} THEN Txs ELSE {}]
=============================================================================
