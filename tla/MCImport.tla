------------------------------ MODULE MCImport ------------------------------
(***************************************************************************)
(* The requests of the Import runs. Two schemes; the gap limits are 2 and  *)
(* 1. Address 1 of chain 0 has transactions from the start: found only     *)
(* across a gap of one address, and addresses 2 and 3 follow it.           *)
(***************************************************************************)
EXTENDS Import

CONSTANTS r1, r2, xpub

MCGap == [c \in Chains |-> IF c = 0 THEN 2 ELSE 1]

MCUsed == {<<"BIP44", 0, 1>>}

Order(kind) == [kind |-> kind, scheme |-> "BIP44", force |-> FALSE,
                lock |-> FALSE, start |-> 0, keys |-> {}]

New(s) == [Order("new") EXCEPT !.scheme = s]
Restore(s, force) == [Order("restore") EXCEPT !.scheme = s, !.force = force]
Lock(b) == [Order("lock") EXCEPT !.lock = b]
Rescan(start) == [Order("rescan") EXCEPT !.start = start]
Loose(keys) == [Order("loose") EXCEPT !.keys = keys]

Addr1 == <<"BIP44", 0, 1>>
Addr2 == <<"BIP44", 0, 2>>

MCOrders ==
    {New("BIP84"), Order("ensure"), Restore("BIP84", TRUE), Lock(TRUE),
     Order("delete"), Rescan(1), Loose({Addr1, Addr2})}

\* A locked account and a restoration that does not force anything.
LockOrders == {Lock(TRUE), Restore("BIP84", FALSE)}

MCPayable == {Addr2}
=============================================================================
