---------------------------- MODULE MCTxTracking ----------------------------
(***************************************************************************)
(* The transactions of the TxTracking runs. p is there from the start. b   *)
(* and c spend its output, b to another tracked address; d spends that     *)
(* output of b.                                                            *)
(***************************************************************************)
EXTENDS TxTracking

CONSTANTS p, b, c, d, p0, b0, l1, l2, x1

MCPays == [t \in Range(Order) |->
    CASE t = p -> {p0} [] t = b -> {b0} [] OTHER -> {}]

MCSpends == [t \in Range(Order) |->
    CASE t \in {b, c} -> {p0} [] t = d -> {b0} [] OTHER -> {}]

Rivals == <<p, b, c>>
Family == <<p, b, d>>
=============================================================================
