------------------------------- MODULE MCWallet -------------------------------
(***************************************************************************)
(* Account xa is known and xb is not. a1 and a2 are derived from xa, b1    *)
(* from xb; l1 is loose. The third transaction moves what a1 got to a2.    *)
(***************************************************************************)
EXTENDS Wallet

CONSTANTS xa, xb, a1, a2, b1, l1, ca, cb, cl, cm

MCOwner == [a \in WalletAddrs |->
    IF a \in {a1, a2} THEN xa ELSE IF a = b1 THEN xb ELSE NoAccount]
MCCoinTx == [c \in Coins |-> CASE c = ca -> 1 [] c \in {cb, cl} -> 2 [] OTHER -> 3]
MCCoinAddr == [c \in Coins |->
    CASE c = ca -> a1 [] c = cb -> b1 [] c = cl -> l1 [] OTHER -> a2]
MCSpentBy == [c \in Coins |-> IF c = ca THEN 3 ELSE 0]
MCValue == [c \in Coins |-> CASE c = ca -> 4 [] c = cb -> 2 [] c = cl -> 1 [] OTHER -> 3]

\* A known and an unknown account with addresses of theirs and a loose one; a new account
\* with its own address given as a public key; new addresses
MCAsks ==
    {[NoAsk EXCEPT !.kind = k, !.accounts = {xa, xb}, !.loose = {a1, l1}] :
        k \in {"full", "info", "utxos", "txs"}}
    \cup {[NoAsk EXCEPT !.kind = k, !.accounts = {xa}, !.newAccounts = {xb}, !.fresh = {b1, l1},
                        !.keyed = {b1}] : k \in {"full", "info"}}
    \cup {[NoAsk EXCEPT !.kind = "info", !.get = TRUE, !.accounts = {xa}],
          [NoAsk EXCEPT !.segwit = {l1}]}
=============================================================================
