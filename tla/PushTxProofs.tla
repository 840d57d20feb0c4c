----------------------------- MODULE PushTxProofs -----------------------------
(***************************************************************************)
(* Proofs about scheduled pushes, for any transactions, scripts and        *)
(* requests, and any number of blocks, reorganisations, crashes and        *)
(* failures: what bitcoind gets is in the order of the script, with its    *)
(* delays, and never early; nothing of a script that is scheduled is lost; *)
(* and a late push puts off those that follow it by its lateness only.     *)
(***************************************************************************)
EXTENDS PushTx, FiniteSetTheorems, FunctionTheorems, SequenceTheorems, WellFoundedInduction, TLAPS

ClientEntry == [tx : Txs, hop : Nat, nlocktime : Nat]

-----------------------------------------------------------------------------
(* The invariant *)

\* bitcoind: what it has was sent, a block after that at the earliest.
BitcoindOK ==
    /\ mempool \subseteq {t \in Txs : sentAt[t] # 0}
    /\ \A t \in Txs : sentAt[t] <= height
    /\ \A t \in Txs : minedAt[t] # 0 =>
         sentAt[t] # 0 /\ sentAt[t] < minedAt[t] /\ minedAt[t] <= height
    /\ \A i \in 1 .. Len(inbox) : inbox[i] <= height

\* A script that passed the validation
Consistent(s) ==
    /\ s # <<>>
    /\ \A i \in DOMAIN s : LockTime[s[i].tx] = s[i].nlocktime /\ Delta(s, i) >= 0
    /\ \A i \in 2 .. Len(s) : s[i - 1].nlocktime <= s[i].nlocktime

PrevTx(s, i) == IF i = 1 THEN NoTx ELSE s[i - 1].tx
PrevDelta(s, i) == IF i = 1 THEN 0 ELSE Delta(s, i - 1)

Safe(t) == t \in Stored \/ sentAt[t] # 0 \/ t \in rejected \cup unsent

Begun(r) == req[r].step \in {"first", "store"}

\* The next entry of the script of r
Position(r) == Len(Script(r)) - Len(req[r].script) + 1

\* What is left of the script is the rebased end of it; its predecessor is known, and what
\* comes before is stored or was pushed.
CallOK(r) ==
    LET s == Script(r)
        c == req[r]
        n == Position(r)
    IN  /\ Consistent(s)
        /\ Len(c.script) <= Len(s)
        /\ c.last <= height
        /\ \A j \in 1 .. Len(c.script) : c.script[j] = Rebase(s, c.last)[n + j - 1]
        /\ c.parentTx = PrevTx(s, n)
        /\ c.parentNlt = BaseHeight(s, c.last) + PrevDelta(s, n)
        /\ c.parentId < nextId
        /\ c.step = "first" =>
             /\ c.parentId = NoId
             /\ \A j \in 1 .. n - 1 : Delta(s, j) = 0 /\ sentAt[s[j].tx] # 0
        /\ c.step = "store" => n > 1 /\ c.parentId # NoId
        /\ \A t \in Stored : c.parentId # NoId /\ rows[t].id = c.parentId => t = c.parentTx
        /\ \A j \in 1 .. n - 1 : Safe(s[j].tx)

CallsOK == \A r \in Requests : Begun(r) => CallOK(r)

\* A row is never released before its nLockTime, and waits for the transaction before it in
\* its script, as many blocks as the script says. Its parent is that transaction's row.
RowsOK ==
    /\ \A t \in Stored :
         /\ NoId < rows[t].id /\ rows[t].id < nextId /\ rows[t].parent < rows[t].id
         /\ rows[t].trigger >= LockTime[t]
         /\ rows[t].parent # NoId =>
              rows[t].parentTx \in Stored /\ rows[rows[t].parentTx].id = rows[t].parent
    /\ \A t, u \in Stored : rows[t].id = rows[u].id => t = u
    /\ \A r \in Requests : \A i \in 1 .. Len(Script(r)) :
         LET t == Script(r)[i].tx
         IN  t \in Stored => /\ rows[t].parentTx = PrevTx(Script(r), i)
                             /\ rows[t].delay = Delta(Script(r), i) - PrevDelta(Script(r), i)

\* The rows that were read are still first ones. The one at hand was found ready, and what
\* it waited for holds from then on; once past its push, something became of it.
OrchOK ==
    /\ orch.height <= height
    /\ orch.txs \subseteq Activated(orch.height)
    /\ orch.step \in {"push", "shift", "delete"} => orch.tx \in orch.txs
    /\ orch.step = "push" /\ rows[orch.tx].parentTx # NoTx =>
         LET p == rows[orch.tx].parentTx
         IN  sentAt[p] # 0 /\ sentAt[p] + rows[orch.tx].delay <= height
    /\ orch.step = "shift" =>
         orch.cursor # NoId /\ orch.shift > 0 /\ orch.cursor < nextId
    /\ orch.step \in {"shift", "delete"} => sentAt[orch.tx] # 0 \/ orch.tx \in rejected \cup unsent

PushInv ==
    /\ TypeOK /\ BitcoindOK /\ CallsOK /\ RowsOK /\ OrchOK
    /\ PushedInOrder /\ NeverEarly /\ NothingLost

-----------------------------------------------------------------------------
(* The triggers, of one request without crash nor fault *)

OneQuietRequest ==
    /\ crashes = 0 /\ faults = 0
    /\ \A r, q \in Requests : req[r].step # "new" /\ req[q].step # "new" => r = q

\* The height that stands for t in the triggers of those that follow it
Bound(t) ==
    IF orch.step \in {"shift", "delete"} /\ t = orch.tx THEN orch.height ELSE rows[t].trigger

\* What is still to be added to those that follow row id
Owed(id) == IF orch.step = "shift" /\ orch.cursor = id THEN orch.shift ELSE 0

\* What was sent is about to be deleted, and put off by what it was late.
SentOK ==
    /\ up /\ rejected = {} /\ unsent = {}
    /\ \A t \in Txs : sentAt[t] # 0 \/ t \in Stored => \E r \in Requests : req[r].step # "new"
    /\ \A t \in Stored : sentAt[t] # 0 => orch.step \in {"shift", "delete"} /\ t = orch.tx
    /\ orch.step \in {"shift", "delete"} => sentAt[orch.tx] >= orch.height
    /\ orch.step = "shift" => rows[orch.tx].trigger + orch.shift = orch.height

RowLinks ==
    /\ \A t \in Stored : rows[t].parent # NoId =>
         rows[t].trigger + Owed(rows[t].parent) <= Bound(rows[t].parentTx) + rows[t].delay
    /\ \A t \in Stored : rows[t].parent = NoId /\ rows[t].parentTx # NoTx =>
         rows[t].trigger <= sentAt[rows[t].parentTx] + rows[t].delay

\* The same of the entry that is stored next
CallLink(r) ==
    /\ \A j \in Position(r) .. Len(Script(r)) :
         sentAt[Script(r)[j].tx] = 0 /\ Script(r)[j].tx \notin Stored
    /\ req[r].step = "first" /\ req[r].parentTx # NoTx =>
         sentAt[req[r].parentTx] >= req[r].parentNlt
    /\ req[r].parentId # NoId /\ req[r].parentTx \in Stored
       /\ rows[req[r].parentTx].id = req[r].parentId =>
         req[r].parentNlt + Owed(req[r].parentId) <= Bound(req[r].parentTx)

CallLinks == \A r \in Requests : Begun(r) => CallLink(r)

LinksOK == SentOK /\ RowLinks /\ CallLinks

ShiftInv == OneQuietRequest => LinksOK

-----------------------------------------------------------------------------
(* Scripts *)

\* A set of naturals has a least member.
LEMMA LeastNat ==
    ASSUME NEW S \in SUBSET Nat, S # {}
    PROVE  \E m \in S : \A n \in S : m <= n
<1>1. IsWellFoundedOn(OpToRel(<, Nat), Nat)
    BY NatLessThanWellFounded
<1>2. PICK m \in S : \A n \in S : ~(<<n, m>> \in OpToRel(<, Nat))
    BY <1>1, WFMin
<1>3. \A k, n \in Nat : k < n => <<k, n>> \in OpToRel(<, Nat)
    BY DEF OpToRel
<1>4. \A n \in S : ~(n < m)
    BY <1>2, <1>3
<1> QED BY <1>4

\* Before is a strict total order of the places of a script.
LEMMA BeforeOrders ==
    ASSUME NEW s \in Seq(ClientEntry)
    PROVE  /\ \A i \in DOMAIN s : ~Before(s, i, i)
           /\ \A i, j \in DOMAIN s : i = j \/ Before(s, i, j) \/ Before(s, j, i)
           /\ \A i, j, k \in DOMAIN s : Before(s, i, j) /\ Before(s, j, k) => Before(s, i, k)
<1>1. DOMAIN s = 1 .. Len(s) /\ Len(s) \in Nat
    OBVIOUS
<1>2. \A i \in DOMAIN s : i \in Int /\ s[i].hop \in Nat /\ s[i].nlocktime \in Nat
    <2>1. \A i \in DOMAIN s : i \in Int /\ s[i] \in ClientEntry
        BY <1>1
    <2> QED BY <2>1 DEF ClientEntry
<1>3. \A i, j \in DOMAIN s : i = j \/ Before(s, i, j) \/ Before(s, j, i)
    BY <1>2 DEF Before
<1>4. ASSUME NEW i \in DOMAIN s, NEW j \in DOMAIN s, NEW k \in DOMAIN s,
             Before(s, i, j), Before(s, j, k)
      PROVE  Before(s, i, k)
    BY <1>2, <1>4 DEF Before
<1> QED BY <1>2, <1>3, <1>4 DEF Before

\* Its places are numbered one by one.
LEMMA PlaceNumbers ==
    ASSUME NEW s \in Seq(ClientEntry)
    PROVE  /\ \A j \in DOMAIN s : Place(s, j) \in DOMAIN s
           /\ \A i, j \in DOMAIN s : Before(s, i, j) => Place(s, i) < Place(s, j)
           /\ \A k \in DOMAIN s : \E j \in DOMAIN s : Place(s, j) = k
<1> DEFINE D == DOMAIN s
           B(j) == {i \in D : Before(s, i, j)}
<1>1. D = 1 .. Len(s) /\ Len(s) \in Nat
    OBVIOUS
<1>2. IsFiniteSet(D) /\ Cardinality(D) = Len(s)
    BY <1>1, FS_Interval
<1>3. ASSUME NEW j \in D PROVE IsFiniteSet(B(j)) /\ Cardinality(B(j)) \in Nat
    <2>1. B(j) \in SUBSET D
        OBVIOUS
    <2> QED BY <1>2, <2>1, FS_Subset, FS_CardinalityType
<1>4. ASSUME NEW j \in D PROVE Place(s, j) = Cardinality(B(j)) + 1
    BY DEF Place
<1> HIDE DEF B
<1>5. ASSUME NEW j \in D PROVE Place(s, j) \in D
    <2>1. B(j) \in SUBSET (D \ {j})
        BY BeforeOrders DEF B
    <2>2. IsFiniteSet(D \ {j}) /\ Cardinality(D \ {j}) = Len(s) - 1
        BY <1>1, <1>2, FS_RemoveElement
    <2>3. Cardinality(B(j)) <= Len(s) - 1
        BY <2>1, <2>2, FS_Subset
    <2> QED BY <1>1, <1>3, <1>4, <2>3
<1>6. ASSUME NEW i \in D, NEW j \in D, Before(s, i, j) PROVE Place(s, i) < Place(s, j)
    <2>1. B(i) \cup {i} \in SUBSET B(j)
        BY <1>6, BeforeOrders DEF B
    <2>2. i \notin B(i)
        BY BeforeOrders DEF B
    <2>3. IsFiniteSet(B(i) \cup {i}) /\ Cardinality(B(i) \cup {i}) = Cardinality(B(i)) + 1
        BY <1>3, <2>2, FS_AddElement
    <2>4. Cardinality(B(i) \cup {i}) <= Cardinality(B(j))
        BY <1>3, <2>1, FS_Subset
    <2> QED BY <1>3, <1>4, <2>3, <2>4
<1>7. \A k \in D : \E j \in D : Place(s, j) = k
    <2> DEFINE f == [j \in D |-> Place(s, j)]
    <2>1. f \in Injection(D, D)
        <3>1. f \in [D -> D]
            BY <1>5
        <3>2. \A i, j \in D : f[i] = f[j] => i = j
            <4> SUFFICES ASSUME NEW i \in D, NEW j \in D, i # j PROVE f[i] # f[j]
                OBVIOUS
            <4>1. Place(s, i) \in Int /\ Place(s, j) \in Int
                BY <1>1, <1>5
            <4> QED BY <1>6, <4>1, BeforeOrders
        <3> QED BY <3>1, <3>2 DEF Injection, IsInjective
    <2>2. f \in Surjection(D, D)
        BY <1>2, <2>1, FS_Injection
    <2> QED BY <2>2 DEF Surjection
<1> QED BY <1>5, <1>6, <1>7

\* SortScript gives the same entries, each once, by hop and then nLockTime.
LEMMA SortScriptSorts ==
    ASSUME NEW s \in Seq(ClientEntry)
    PROVE  /\ SortScript(s) \in Seq(ClientEntry) /\ Len(SortScript(s)) = Len(s)
           /\ \E p \in [DOMAIN s -> DOMAIN s] :
                /\ \A k \in DOMAIN s : SortScript(s)[k] = s[p[k]]
                /\ \A k, l \in DOMAIN s : p[k] = p[l] => k = l
           /\ \A k, l \in DOMAIN s : k < l =>
                \/ SortScript(s)[k].hop < SortScript(s)[l].hop
                \/ /\ SortScript(s)[k].hop = SortScript(s)[l].hop
                   /\ SortScript(s)[k].nlocktime <= SortScript(s)[l].nlocktime
<1> DEFINE D == DOMAIN s
           p == [k \in D |-> CHOOSE j \in D : Place(s, j) = k]
<1>1. D = 1 .. Len(s) /\ Len(s) \in Nat
    OBVIOUS
<1>2. \A k \in D : p[k] \in D /\ Place(s, p[k]) = k
    BY PlaceNumbers
<1> HIDE DEF p
<1>3. p \in [D -> D]
    BY <1>2 DEF p
<1>4. SortScript(s) = [k \in D |-> s[p[k]]]
    BY DEF SortScript, p
<1>5. \A k \in D : s[p[k]] \in ClientEntry
    BY <1>1, <1>2
<1>6. SortScript(s) \in Seq(ClientEntry) /\ Len(SortScript(s)) = Len(s)
    BY <1>1, <1>4, <1>5
<1>7. \A k, l \in D : p[k] = p[l] => k = l
    BY <1>2
<1>8. ASSUME NEW k \in D, NEW l \in D, k < l
      PROVE  \/ s[p[k]].hop < s[p[l]].hop
             \/ s[p[k]].hop = s[p[l]].hop /\ s[p[k]].nlocktime <= s[p[l]].nlocktime
    <2>0. k \in Int /\ l \in Int
        BY <1>1
    <2>1. ~Before(s, p[l], p[k])
        BY <1>2, <1>8, <2>0, PlaceNumbers
    <2>2. p[k] # p[l]
        BY <1>1, <1>7, <1>8
    <2>3. Before(s, p[k], p[l])
        BY <1>2, <2>1, <2>2, BeforeOrders
    <2>4. s[p[k]].nlocktime \in Nat /\ s[p[l]].nlocktime \in Nat
        BY <1>5 DEF ClientEntry
    <2> QED BY <2>3, <2>4 DEF Before
<1>9. /\ \A k \in DOMAIN s : SortScript(s)[k] = s[p[k]]
      /\ \A k, l \in DOMAIN s : p[k] = p[l] => k = l
    BY <1>4, <1>7
<1>10. \A k, l \in DOMAIN s : k < l =>
         \/ SortScript(s)[k].hop < SortScript(s)[l].hop
         \/ /\ SortScript(s)[k].hop = SortScript(s)[l].hop
            /\ SortScript(s)[k].nlocktime <= SortScript(s)[l].nlocktime
    BY <1>8, <1>9
<1> HIDE DEF D
<1> QED BY <1>3, <1>6, <1>9, <1>10 DEF D

\* The script of a request is a sequence, and no other script has its transactions.
LEMMA ScriptsAreOwn ==
    ASSUME asked \in [Requests -> Scripts]
    PROVE  /\ \A r \in Requests : Script(r) \in Seq(ClientEntry)
           /\ \A r, q \in Requests : \A i \in 1 .. Len(Script(r)), j \in 1 .. Len(Script(q)) :
                Script(r)[i].tx = Script(q)[j].tx => Script(r) = Script(q) /\ i = j
<1>1. \A r \in Requests : asked[r] \in Scripts /\ Script(r) = SortScript(asked[r])
    BY DEF Script, SortedScripts
<1>2. \A r \in Requests : asked[r] \in Seq(ClientEntry)
    BY <1>1, ScriptsAssumption DEF ClientEntry
<1>3. \A r \in Requests : Script(r) \in Seq(ClientEntry)
    BY <1>1, <1>2, SortScriptSorts
<1>4. ASSUME NEW r \in Requests, NEW q \in Requests,
             NEW i \in 1 .. Len(Script(r)), NEW j \in 1 .. Len(Script(q)),
             Script(r)[i].tx = Script(q)[j].tx
      PROVE  Script(r) = Script(q) /\ i = j
    <2>0. /\ asked[r] \in Seq(ClientEntry) /\ Script(r) = SortScript(asked[r])
          /\ asked[q] \in Seq(ClientEntry) /\ Script(q) = SortScript(asked[q])
        BY <1>1, <1>2
    <2>1. PICK p \in [DOMAIN asked[r] -> DOMAIN asked[r]] :
              /\ \A k \in DOMAIN asked[r] : Script(r)[k] = asked[r][p[k]]
              /\ \A k, l \in DOMAIN asked[r] : p[k] = p[l] => k = l
        <3>1. \E p \in [DOMAIN asked[r] -> DOMAIN asked[r]] :
                  /\ \A k \in DOMAIN asked[r] : SortScript(asked[r])[k] = asked[r][p[k]]
                  /\ \A k, l \in DOMAIN asked[r] : p[k] = p[l] => k = l
            BY <2>0, SortScriptSorts
        <3> QED BY <2>0, <3>1
    <2>2. PICK o \in [DOMAIN asked[q] -> DOMAIN asked[q]] :
              \A k \in DOMAIN asked[q] : Script(q)[k] = asked[q][o[k]]
        <3>1. \E o \in [DOMAIN asked[q] -> DOMAIN asked[q]] :
                  \A k \in DOMAIN asked[q] : SortScript(asked[q])[k] = asked[q][o[k]]
            BY <2>0, SortScriptSorts
        <3> QED BY <2>0, <3>1
    <2>3. i \in DOMAIN asked[r] /\ j \in DOMAIN asked[q]
        BY <1>1, <1>2, SortScriptSorts
    <2>4. asked[r][p[i]].tx = asked[q][o[j]].tx
        BY <1>4, <2>1, <2>2, <2>3
    <2>5. asked[r] = asked[q]
        BY <1>1, <2>3, <2>4, OwnScriptAssumption
    <2>6. Script(r) = Script(q)
        BY <1>1, <2>5
    <2>7. asked[r][p[i]].tx = asked[r][p[j]].tx
        BY <1>4, <2>1, <2>3, <2>5, <2>6
    <2>8. p[i] = p[j]
        BY <1>1, <2>3, <2>5, <2>7, OwnScriptAssumption
    <2> QED BY <2>1, <2>3, <2>5, <2>6, <2>8
<1> QED BY <1>3, <1>4

\* The script of a request that is accepted
LEMMA ValidIsConsistent ==
    ASSUME asked \in [Requests -> Scripts], height \in Nat, NEW r \in Requests,
           Len(Script(r)) > 0, Valid(Script(r), height)
    PROVE  Consistent(Script(r))
<1> DEFINE s == Script(r)
<1>1. s \in Seq(ClientEntry)
    BY ScriptsAreOwn
<1>2. \A i \in DOMAIN s : s[i].nlocktime \in Nat /\ s[i].hop \in Nat
    <2>1. \A i \in DOMAIN s : s[i] \in ClientEntry
        BY <1>1
    <2> QED BY <2>1 DEF ClientEntry
<1>3. \A i \in 2 .. Len(s) : s[i - 1].nlocktime <= s[i].nlocktime
    <2> SUFFICES ASSUME NEW i \in 2 .. Len(s) PROVE s[i - 1].nlocktime <= s[i].nlocktime
        OBVIOUS
    <2>1. i \in DOMAIN s /\ i - 1 \in DOMAIN s /\ i > 1 /\ i - 1 < i
        BY <1>1
    <2>2. CASE s[i].hop # s[i - 1].hop
        BY <2>1, <2>2, <1>2 DEF Valid
    <2>3. CASE s[i].hop = s[i - 1].hop
        <3>1. asked[r] \in Seq(ClientEntry) /\ s = SortScript(asked[r])
            BY ScriptsAssumption DEF Script, SortedScripts, ClientEntry
        <3>2. DOMAIN s = DOMAIN asked[r]
            BY <1>1, <3>1, SortScriptSorts
        <3>3. \/ s[i - 1].hop < s[i].hop
              \/ s[i - 1].nlocktime <= s[i].nlocktime
            BY <2>1, <3>1, <3>2, SortScriptSorts
        <3> QED BY <1>2, <2>1, <2>3, <3>3
    <2> QED BY <2>2, <2>3
<1>4. \A i \in DOMAIN s : s[1].nlocktime <= s[i].nlocktime
    <2> DEFINE S == {i \in DOMAIN s : s[i].nlocktime < s[1].nlocktime}
    <2>1. S = {}
        <3> SUFFICES ASSUME S # {} PROVE FALSE
            OBVIOUS
        <3>1. S \in SUBSET Nat
            BY <1>1
        <3>2. PICK m \in S : \A n \in S : m <= n
            BY <3>1, LeastNat
        <3>3. m \in DOMAIN s /\ m \in 1 .. Len(s) /\ s[m].nlocktime < s[1].nlocktime
            BY <1>1
        <3>4. m # 1
            BY <1>2, <3>3
        <3>5. m - 1 \in DOMAIN s /\ m \in 2 .. Len(s)
            BY <1>1, <3>3, <3>4
        <3>6. s[m - 1].nlocktime <= s[m].nlocktime
            BY <1>3, <3>5
        <3>7. m - 1 \in S
            BY <1>1, <1>2, <3>3, <3>5, <3>6
        <3> QED BY <3>2, <3>3, <3>7
    <2> QED BY <1>1, <1>2, <2>1
<1>5. s # <<>>
    OBVIOUS
<1>6. \A i \in DOMAIN s : LockTime[s[i].tx] = s[i].nlocktime
    BY DEF Valid
<1>7. \A i \in DOMAIN s : Delta(s, i) >= 0
    <2>1. 1 \in DOMAIN s
        BY <1>1
    <2> QED BY <1>2, <1>4, <2>1 DEF Delta, Nlt0
<1> QED BY <1>3, <1>5, <1>6, <1>7 DEF Consistent

-----------------------------------------------------------------------------
(* What the steps have in common *)

LEMMA ScriptsStay ==
    ASSUME asked' = asked
    PROVE  \A r \in Requests : Script(r)' = Script(r)
BY DEF Script

\* The entries of a script
LEMMA EntryTypes ==
    ASSUME TypeOK, NEW r \in Requests
    PROVE  /\ Script(r) \in Seq(ClientEntry)
           /\ \A i \in 1 .. Len(Script(r)) :
                /\ Script(r)[i].tx \in Txs /\ Script(r)[i].nlocktime \in Nat
                /\ Delta(Script(r), i) \in Int /\ Delta(Script(r), 1) = 0
                /\ i > 1 => Script(r)[i - 1].tx \in Txs /\ Script(r)[i - 1].nlocktime \in Nat
<1>1. Script(r) \in Seq(ClientEntry)
    BY ScriptsAreOwn DEF TypeOK
<1>2. \A i \in 1 .. Len(Script(r)) : Script(r)[i] \in ClientEntry
    BY <1>1
<1>3. \A i \in 1 .. Len(Script(r)) : Script(r)[i].tx \in Txs /\ Script(r)[i].nlocktime \in Nat
    BY <1>2 DEF ClientEntry
<1>4. \A i \in 1 .. Len(Script(r)) : 1 \in 1 .. Len(Script(r)) /\ (i > 1 => i - 1 \in 1 .. Len(Script(r)))
    BY <1>1
<1> QED BY <1>1, <1>3, <1>4 DEF Delta, Nlt0

\* The places of a script that a call went through
LEMMA CallTypes ==
    ASSUME TypeOK, NEW r \in Requests
    PROVE  /\ req[r].script \in Seq(Entry) /\ req[r].last \in Nat /\ req[r].parentId \in Nat
           /\ req[r].parentNlt \in Nat
           /\ Position(r) \in Int
           /\ \A j \in 1 .. Position(r) - 1 :
                j \in 1 .. Len(Script(r)) /\ Script(r)[j].tx \in Txs
<1> DEFINE a == Len(Script(r))
           b == Len(req[r].script)
<1>1. req[r] \in Call
    BY DEF TypeOK
<1>2. req[r].script \in Seq(Entry) /\ req[r].last \in Nat /\ req[r].parentId \in Nat /\ req[r].parentNlt \in Nat
    BY <1>1 DEF Call
<1>3. a \in Nat /\ b \in Nat
    BY <1>2, EntryTypes
<1>4. Position(r) = a - b + 1
    BY DEF Position
<1>5. \A j \in 1 .. Position(r) - 1 : j \in 1 .. a
    <2> HIDE DEF a, b
    <2> QED BY <1>3, <1>4
<1>6. Position(r) \in Int
    <2> HIDE DEF a, b
    <2> QED BY <1>3, <1>4
<1> QED BY <1>2, <1>5, <1>6, EntryTypes

\* What is at hand of a script
LEMMA NextEntry ==
    ASSUME TypeOK, NEW r \in Requests, Begun(r), CallOK(r), req[r].script # <<>>
    PROVE  LET s == Script(r)
               n == Position(r)
               e == req[r].script[1]
               rest == Tail(req[r].script)
           IN  /\ n \in 1 .. Len(s)
               /\ e \in Entry /\ e.tx = s[n].tx
               /\ e.delta = Delta(s, n)
               /\ e.nlocktime = BaseHeight(s, req[r].last) + Delta(s, n)
               /\ LockTime[e.tx] = s[n].nlocktime /\ s[n].nlocktime <= e.nlocktime
               /\ DelayOf(r) = Delta(s, n) - PrevDelta(s, n) /\ DelayOf(r) \in Nat
               /\ rest \in Seq(Entry)
               /\ Len(s) - Len(rest) + 1 = n + 1
               /\ \A j \in 1 .. Len(rest) : rest[j] = Rebase(s, req[r].last)[n + j]
<1> DEFINE s == Script(r)
           n == Position(r)
           q == req[r].script
           e == q[1]
           rest == Tail(q)
<1>1. s \in Seq(ClientEntry) /\ \A i \in 1 .. Len(s) : s[i].tx \in Txs /\ s[i].nlocktime \in Nat
    BY EntryTypes
<1>2. q \in Seq(Entry) /\ q # <<>> /\ req[r].last \in Nat
    BY DEF TypeOK, Call
<1>3. Len(q) \in Nat /\ Len(q) > 0 /\ e \in Entry
    BY <1>2
<1>4. n \in 1 .. Len(s)
    BY <1>1, <1>3 DEF CallOK, Position
<1>5. e = Rebase(s, req[r].last)[n]
    BY <1>1, <1>3, <1>4 DEF CallOK
<1>6. /\ e.tx = s[n].tx /\ e.delta = Delta(s, n)
      /\ e.nlocktime = BaseHeight(s, req[r].last) + Delta(s, n)
    BY <1>1, <1>4, <1>5 DEF Rebase
<1>7. /\ 1 \in 1 .. Len(s) /\ s[1].nlocktime \in Nat /\ s[n].nlocktime \in Nat
      /\ BaseHeight(s, req[r].last) \in Nat /\ BaseHeight(s, req[r].last) >= s[1].nlocktime
    BY <1>1, <1>2, <1>4 DEF BaseHeight, Nlt0
<1>8. LockTime[e.tx] = s[n].nlocktime /\ s[n].nlocktime <= e.nlocktime
    BY <1>1, <1>4, <1>6, <1>7 DEF CallOK, Consistent, Delta, Nlt0
<1>9. DelayOf(r) = Delta(s, n) - PrevDelta(s, n) /\ DelayOf(r) \in Nat
    <2>1. CASE n = 1
        BY <2>1, <1>6, <1>7 DEF CallOK, DelayOf, PrevDelta, Delta, Nlt0
    <2>2. CASE n # 1
        <3>1. n \in 2 .. Len(s) /\ n - 1 \in 1 .. Len(s)
            BY <1>1, <1>4, <2>2
        <3>2. s[n - 1].nlocktime \in Nat /\ s[n - 1].nlocktime <= s[n].nlocktime
            BY <1>1, <3>1 DEF CallOK, Consistent
        <3> QED BY <1>6, <1>7, <2>2, <3>2 DEF CallOK, DelayOf, PrevDelta, Delta, Nlt0
    <2> QED BY <2>1, <2>2
<1>10. rest \in Seq(Entry) /\ Len(rest) = Len(q) - 1 /\ \A j \in 1 .. Len(rest) : rest[j] = q[j + 1]
    BY <1>2, <1>3, HeadTailProperties
<1>11. Len(s) - Len(rest) + 1 = n + 1
    <2>1. Len(s) \in Nat
        BY <1>1
    <2>2. n = Len(s) - Len(q) + 1
        BY DEF Position
    <2>3. Len(rest) = Len(q) - 1 /\ Len(q) \in Nat
        BY <1>3, <1>10
    <2> HIDE DEF s, n, q, rest
    <2> QED BY <2>1, <2>2, <2>3
<1>12. ASSUME NEW j \in 1 .. Len(rest) PROVE rest[j] = Rebase(s, req[r].last)[n + j]
    <2>1. j + 1 \in 1 .. Len(q) /\ n + (j + 1) - 1 = n + j
        BY <1>3, <1>4, <1>10
    <2>2. q[j + 1] = Rebase(s, req[r].last)[n + (j + 1) - 1]
        BY <2>1 DEF CallOK
    <2> QED BY <1>10, <2>1, <2>2
<1> QED BY <1>3, <1>4, <1>6, <1>8, <1>9, <1>10, <1>11, <1>12

\* A call that the step leaves alone
LEMMA CallKept ==
    ASSUME TypeOK, NEW r \in Requests, CallOK(r), Begun(r), req'[r] = req[r], asked' = asked,
           height' \in Nat, height <= height', nextId' \in Nat, nextId <= nextId',
           \A t \in Txs : sentAt[t] # 0 => sentAt'[t] # 0,
           \A t \in Txs : Safe(t) => Safe(t)',
           \A t \in Txs : rows'[t] # NoRow =>
               (rows[t] # NoRow /\ rows'[t].id = rows[t].id) \/ rows'[t].id = nextId
    PROVE  CallOK(r)'
<1> DEFINE s == Script(r)
           c == req[r]
           n == Position(r)
<1>1. Script(r)' = s /\ Position(r)' = n
    BY ScriptsStay DEF Position
<1>2. /\ s \in Seq(ClientEntry) /\ \A i \in 1 .. Len(s) : s[i].tx \in Txs
      /\ c.script \in Seq(Entry) /\ c.last \in Nat /\ c.parentId \in Nat
      /\ height \in Nat /\ nextId \in Nat
    <2>1. s \in Seq(ClientEntry) /\ \A i \in 1 .. Len(s) : s[i].tx \in Txs
        BY EntryTypes
    <2>2. c \in Call /\ nextId \in Nat /\ height \in Nat
        BY ConfigAssumption DEF TypeOK
    <2> QED BY <2>1, <2>2 DEF Call
<1>3. \A j \in 1 .. n - 1 : j \in 1 .. Len(s)
    BY CallTypes
<1>4. c.last <= height' /\ c.parentId < nextId'
    BY <1>2 DEF CallOK
<1>5. \A j \in 1 .. n - 1 : Safe(s[j].tx)'
    <2> SUFFICES ASSUME NEW j \in 1 .. n - 1 PROVE Safe(s[j].tx)'
        BY <1>1
    <2>1. j \in 1 .. Len(s) /\ s[j].tx \in Txs
        BY <1>2, <1>3
    <2>2. Safe(s[j].tx)
        BY DEF CallOK
    <2>3. PICK t \in Txs : t = s[j].tx
        BY <2>1
    <2>4. Safe(t)'
        BY <2>2, <2>3
    <2> QED BY <2>3, <2>4, <1>1 DEF Safe
<1>6. c.step = "first" => \A j \in 1 .. n - 1 : Delta(s, j) = 0 /\ sentAt'[s[j].tx] # 0
    BY <1>2, <1>3 DEF CallOK
<1>7. \A t \in Stored' : c.parentId # NoId /\ rows'[t].id = c.parentId => t = c.parentTx
    BY <1>2 DEF CallOK, Stored
<1>8. CallOK(r)' <=>
        /\ Consistent(s)
        /\ Len(c.script) <= Len(s)
        /\ c.last <= height'
        /\ \A j \in 1 .. Len(c.script) : c.script[j] = Rebase(s, c.last)[n + j - 1]
        /\ c.parentTx = PrevTx(s, n)
        /\ c.parentNlt = BaseHeight(s, c.last) + PrevDelta(s, n)
        /\ c.parentId < nextId'
        /\ c.step = "first" =>
             /\ c.parentId = NoId
             /\ \A j \in 1 .. n - 1 : Delta(s, j) = 0 /\ sentAt'[s[j].tx] # 0
        /\ c.step = "store" => n > 1 /\ c.parentId # NoId
        /\ \A t \in Stored' : c.parentId # NoId /\ rows'[t].id = c.parentId => t = c.parentTx
        /\ \A j \in 1 .. n - 1 : Safe(s[j].tx)'
    BY <1>1 DEF CallOK
<1> QED BY <1>4, <1>5, <1>6, <1>7, <1>8 DEF CallOK

\* What the steps let grow: the chain, and what became of the transactions.
Later ==
    /\ asked' = asked /\ height' \in Nat /\ height <= height'
    /\ \A t \in Txs : sentAt[t] # 0 => sentAt'[t] = sentAt[t]
    /\ rejected \subseteq rejected' /\ unsent \subseteq unsent'

\* A step that leaves the table alone keeps all that is said of it.
LEMMA TableKept ==
    ASSUME PushInv, Later, UNCHANGED <<rows, nextId>>
    PROVE  /\ RowsOK'
           /\ \A t \in Txs : Safe(t) => Safe(t)'
           /\ \A r \in Requests : Begun(r) /\ req'[r] = req[r] => CallOK(r)'
           /\ orch' = orch => OrchOK'
           /\ (\A r \in Requests : req'[r].step = "done" => req[r].step = "done") => NothingLost'
           /\ UNCHANGED sentAt => PushedInOrder'
<1>1. TypeOK /\ CallsOK /\ RowsOK /\ OrchOK /\ NothingLost /\ PushedInOrder
    BY DEF PushInv
<1>2. \A r \in Requests : Script(r)' = Script(r)
    BY ScriptsStay DEF Later
<1>3. RowsOK'
    BY <1>1, <1>2 DEF RowsOK, Stored, NoRow
<1>4. \A t \in Txs : Safe(t) => Safe(t)'
    BY DEF Safe, Stored, Later, NoRow
<1>5. ASSUME NEW r \in Requests, Begun(r), req'[r] = req[r] PROVE CallOK(r)'
    <2>1. CallOK(r)
        BY <1>1, <1>5 DEF CallsOK
    <2>2. nextId \in Nat
        BY <1>1 DEF TypeOK
    <2>3. nextId <= nextId' /\ nextId' \in Nat
        BY <2>2
    <2>4. \A t \in Txs : rows'[t] # NoRow => rows[t] # NoRow /\ rows'[t].id = rows[t].id
        OBVIOUS
    <2>5. /\ asked' = asked /\ height' \in Nat /\ height <= height'
          /\ \A t \in Txs : sentAt[t] # 0 => sentAt'[t] # 0
        BY DEF Later
    <2> QED BY <1>1, <1>4, <1>5, <2>1, <2>3, <2>4, <2>5, CallKept
<1>6. ASSUME orch' = orch PROVE OrchOK'
    <2>1. orch.height <= height'
        BY <1>1, ConfigAssumption DEF TypeOK, OrchOK, Later
    <2>2. Activated(orch.height)' = Activated(orch.height)
        BY <1>6 DEF Activated, Stored, NoRow
    <2>3. orch.step = "push" /\ rows[orch.tx].parentTx # NoTx =>
            LET p == rows[orch.tx].parentTx
            IN  sentAt'[p] # 0 /\ sentAt'[p] + rows[orch.tx].delay <= height'
        <3> SUFFICES ASSUME orch.step = "push", rows[orch.tx].parentTx # NoTx
                     PROVE  /\ sentAt'[rows[orch.tx].parentTx] # 0
                            /\ sentAt'[rows[orch.tx].parentTx] + rows[orch.tx].delay <= height'
            OBVIOUS
        <3>1. orch.tx \in Stored
            BY <1>1 DEF OrchOK, Activated
        <3>2. rows[orch.tx] \in Row /\ height \in Nat
            BY <1>1, <3>1, ConfigAssumption DEF TypeOK, Stored
        <3>3. /\ rows[orch.tx].parentTx \in Txs /\ rows[orch.tx].delay \in Nat
            BY <3>2 DEF Row
        <3>4. /\ sentAt[rows[orch.tx].parentTx] # 0
              /\ sentAt[rows[orch.tx].parentTx] + rows[orch.tx].delay <= height
              /\ sentAt[rows[orch.tx].parentTx] \in Nat
            BY <1>1, <3>3 DEF OrchOK, TypeOK
        <3>5. sentAt'[rows[orch.tx].parentTx] = sentAt[rows[orch.tx].parentTx] /\ height <= height' /\ height' \in Nat
            BY <3>3, <3>4 DEF Later
        <3> QED BY <3>2, <3>3, <3>4, <3>5
    <2>4. orch.step \in {"shift", "delete"} =>
            sentAt'[orch.tx] # 0 \/ orch.tx \in rejected' \cup unsent'
        <3> SUFFICES ASSUME orch.step \in {"shift", "delete"}
                     PROVE  sentAt'[orch.tx] # 0 \/ orch.tx \in rejected' \cup unsent'
            OBVIOUS
        <3>1. orch.tx \in Txs
            BY <1>1 DEF OrchOK, Activated, Stored
        <3> QED BY <1>1, <3>1 DEF OrchOK, Later
    <2> QED BY <1>1, <1>6, <2>1, <2>2, <2>3, <2>4 DEF OrchOK
<1>7. ASSUME \A r \in Requests : req'[r].step = "done" => req[r].step = "done" PROVE NothingLost'
    <2> SUFFICES ASSUME NEW r \in Requests, req[r].step = "done", NEW i \in 1 .. Len(Script(r))
                 PROVE  Safe(Script(r)[i].tx)'
        <3>1. \A q \in Requests : DOMAIN Script(q) = 1 .. Len(Script(q))
            BY <1>1, EntryTypes
        <3> QED BY <1>1, <1>2, <1>7, EntryTypes DEF NothingLost, Safe
    <2>1. PICK t \in Txs : t = Script(r)[i].tx
        BY <1>1, EntryTypes
    <2>2. Safe(t)
        BY <1>1, <2>1, EntryTypes DEF NothingLost, Safe
    <2>3. Safe(t)'
        BY <1>4, <2>2
    <2> QED BY <1>2, <2>1, <2>3 DEF Safe
<1>8. ASSUME UNCHANGED sentAt PROVE PushedInOrder'
    BY <1>1, <1>2, <1>8 DEF PushedInOrder
<1> QED BY <1>3, <1>4, <1>5, <1>6, <1>7, <1>8

\* A step that neither touches the table nor pushes, and begins no call
LEMMA QuietStep ==
    ASSUME PushInv, Later, UNCHANGED <<rows, nextId, sentAt, early>>,
           TypeOK', BitcoindOK', orch' = orch \/ OrchOK',
           \A r \in Requests : req'[r] = req[r] \/ req'[r].step = "failed"
    PROVE  PushInv'
<1>1. /\ RowsOK' /\ OrchOK' /\ PushedInOrder'
      /\ \A r \in Requests : Begun(r) /\ req'[r] = req[r] => CallOK(r)'
    BY TableKept
<1>2. NothingLost'
    <2>1. \A r \in Requests : req'[r].step = "done" => req[r].step = "done"
        OBVIOUS
    <2> QED BY <2>1, TableKept
<1>3. CallsOK'
    BY <1>1 DEF CallsOK, Begun
<1>4. NeverEarly'
    BY DEF PushInv, NeverEarly
<1> QED BY <1>1, <1>2, <1>3, <1>4 DEF PushInv

-----------------------------------------------------------------------------
(* bitcoind *)

LEMMA EnvironmentKeeps ==
    ASSUME PushInv, Environment
    PROVE  PushInv'
<1>1. TypeOK /\ BitcoindOK /\ height \in Nat /\ StartHeight \in Nat /\ MaxHeight \in Nat
    BY ConfigAssumption DEF PushInv, TypeOK
<1>2. ASSUME NEW mined \in SUBSET mempool, NEW told \in BOOLEAN, NewBlock(mined, told)
      PROVE  PushInv'
    <2>1. TypeOK'
        <3>1. height' \in StartHeight .. MaxHeight /\ mempool' \subseteq Txs
            BY <1>1, <1>2 DEF NewBlock, TypeOK
        <3>2. minedAt' \in [Txs -> Nat]
            BY <1>1, <1>2 DEF NewBlock, TypeOK
        <3>3. inbox' \in Seq(Nat)
            BY <1>1, <1>2 DEF NewBlock, TypeOK
        <3>4. missed' \in BOOLEAN /\ faults' \in Nat
            BY <1>1, <1>2 DEF NewBlock, TypeOK
        <3>5. UNCHANGED <<up, reorgs, rows, nextId, asked, req, orch, crashes, ghosts>>
            BY <1>2 DEF NewBlock
        <3> QED BY <1>1, <3>1, <3>2, <3>3, <3>4, <3>5 DEF TypeOK, ghosts
    <2>2. BitcoindOK'
        <3>1. /\ height' = height + 1 /\ mempool' = mempool \ mined /\ sentAt' = sentAt
              /\ minedAt' = [t \in Txs |-> IF t \in mined THEN height + 1 ELSE minedAt[t]]
              /\ inbox' = inbox \/ inbox' = Append(inbox, height + 1)
            BY <1>2 DEF NewBlock, ghosts
        <3>2. mempool' \subseteq {t \in Txs : sentAt'[t] # 0} /\ \A t \in Txs : sentAt'[t] <= height'
            BY <1>1, <3>1 DEF BitcoindOK, TypeOK
        <3>3. \A t \in Txs : minedAt'[t] # 0 =>
                sentAt'[t] # 0 /\ sentAt'[t] < minedAt'[t] /\ minedAt'[t] <= height'
            <4> SUFFICES ASSUME NEW t \in Txs, minedAt'[t] # 0
                         PROVE  sentAt'[t] # 0 /\ sentAt'[t] < minedAt'[t] /\ minedAt'[t] <= height'
                OBVIOUS
            <4>1. sentAt[t] \in Nat /\ minedAt[t] \in Nat /\ sentAt[t] <= height
                BY <1>1 DEF BitcoindOK, TypeOK
            <4>2. CASE t \in mined
                BY <1>1, <3>1, <4>1, <4>2 DEF BitcoindOK
            <4>3. CASE t \notin mined
                BY <1>1, <3>1, <4>1, <4>3 DEF BitcoindOK
            <4> QED BY <4>2, <4>3
        <3>4. \A i \in 1 .. Len(inbox') : inbox'[i] <= height'
            <4>1. \A i \in 1 .. Len(inbox) : inbox[i] \in Nat /\ inbox[i] <= height
                BY <1>1 DEF BitcoindOK, TypeOK
            <4>2. CASE inbox' = inbox
                BY <1>1, <3>1, <4>1, <4>2
            <4>3. CASE inbox' = Append(inbox, height + 1)
                BY <1>1, <3>1, <4>1, <4>3 DEF TypeOK
            <4> QED BY <3>1, <4>2, <4>3
        <3> QED BY <3>2, <3>3, <3>4 DEF BitcoindOK
    <2>3. Later /\ UNCHANGED <<rows, nextId, sentAt, early, orch, req>>
        BY <1>1, <1>2 DEF NewBlock, Later, ghosts
    <2> QED BY <2>1, <2>2, <2>3, QuietStep
<1>3. CASE Reorg
    <2> DEFINE undone == {t \in Txs : minedAt[t] = height}
    <2>0. /\ height' = height + 1 /\ height < MaxHeight /\ StartHeight < height
          /\ mempool' = mempool \cup undone
          /\ minedAt' = [t \in Txs |-> IF t \in undone THEN 0 ELSE minedAt[t]]
          /\ inbox' = inbox \/ inbox' = Append(inbox, height + 1)
          /\ missed' \in BOOLEAN /\ reorgs' = reorgs + 1
          /\ UNCHANGED <<up, rows, nextId, asked, req, orch, crashes, faults>>
          /\ UNCHANGED <<sentAt, early, rejected, unsent>>
        BY <1>3 DEF Reorg, ghosts
    <2>1. TypeOK'
        <3>1. height' \in StartHeight .. MaxHeight
            BY <1>1, <2>0
        <3>2. mempool' \subseteq Txs
            <4>1. mempool \subseteq Txs /\ undone \subseteq Txs
                BY <1>1 DEF TypeOK
            <4> QED BY <2>0, <4>1
        <3>3. minedAt' \in [Txs -> Nat]
            <4>1. \A t \in Txs : minedAt[t] \in Nat
                BY <1>1 DEF TypeOK
            <4> HIDE DEF undone
            <4> QED BY <2>0, <4>1
        <3>4. inbox' \in Seq(Nat)
            <4>1. inbox \in Seq(Nat) /\ height + 1 \in Nat
                BY <1>1 DEF TypeOK
            <4>2. Append(inbox, height + 1) \in Seq(Nat)
                BY <4>1
            <4> QED BY <2>0, <4>1, <4>2, Zenon
        <3> QED BY <1>1, <2>0, <3>1, <3>2, <3>3, <3>4 DEF TypeOK
    <2>2. BitcoindOK'
        <3>1. \A t \in Txs : sentAt[t] \in Nat /\ minedAt[t] \in Nat /\ sentAt[t] <= height
            BY <1>1 DEF BitcoindOK, TypeOK
        <3>2. mempool' \subseteq {t \in Txs : sentAt'[t] # 0} /\ \A t \in Txs : sentAt'[t] <= height'
            BY <1>1, <2>0, <3>1, ConfigAssumption DEF BitcoindOK
        <3>3. \A t \in Txs : minedAt'[t] # 0 =>
                sentAt'[t] # 0 /\ sentAt'[t] < minedAt'[t] /\ minedAt'[t] <= height'
            BY <1>1, <2>0, <3>1 DEF BitcoindOK
        <3>4. \A i \in 1 .. Len(inbox') : inbox'[i] <= height'
            <4>1. \A i \in 1 .. Len(inbox) : inbox[i] \in Nat /\ inbox[i] <= height
                BY <1>1 DEF BitcoindOK, TypeOK
            <4>2. CASE inbox' = inbox
                BY <1>1, <2>0, <4>1, <4>2
            <4>3. CASE inbox' = Append(inbox, height + 1)
                BY <1>1, <2>0, <4>1, <4>3 DEF TypeOK
            <4> QED BY <2>0, <4>2, <4>3
        <3> QED BY <3>2, <3>3, <3>4 DEF BitcoindOK
    <2>3. Later
        BY <1>1, <2>0 DEF Later
    <2> QED BY <2>0, <2>1, <2>2, <2>3, QuietStep
<1>4. CASE Disconnect \/ Reconnect
    <2>1. /\ up' \in BOOLEAN /\ faults' \in Nat
          /\ UNCHANGED <<height, minedAt, mempool, reorgs, inbox, rows, nextId, asked, req, orch,
                         crashes, ghosts, missed>>
        <3>1. CASE Disconnect
            <4>1. up' = FALSE /\ faults' = faults + 1 /\ faults \in Nat
                BY <1>1, <3>1 DEF Disconnect, TypeOK
            <4>2. up' \in BOOLEAN
                BY <4>1, Zenon
            <4>3. faults' \in Nat
                BY <4>1
            <4> QED BY <3>1, <4>2, <4>3 DEF Disconnect
        <3>2. CASE Reconnect
            BY <1>1, <3>2 DEF Reconnect, TypeOK
        <3> QED BY <1>4, <3>1, <3>2
    <2>2. TypeOK' /\ BitcoindOK'
        BY <1>1, <2>1 DEF TypeOK, BitcoindOK, ghosts
    <2>3. Later /\ UNCHANGED <<rows, nextId, sentAt, early, orch, req>>
        BY <1>1, <2>1 DEF Later, ghosts
    <2> QED BY <2>2, <2>3, QuietStep
<1>5. ASSUME NEW t \in Txs, Evict(t) PROVE PushInv'
    <2>1. /\ mempool' = mempool \ {t} /\ faults' \in Nat
          /\ UNCHANGED <<height, minedAt, up, reorgs, inbox, rows, nextId, asked, req, orch,
                         crashes, ghosts, missed>>
        BY <1>1, <1>5 DEF Evict, TypeOK
    <2>2. TypeOK' /\ BitcoindOK'
        BY <1>1, <2>1 DEF TypeOK, BitcoindOK, ghosts
    <2>3. Later /\ UNCHANGED <<rows, nextId, sentAt, early, orch, req>>
        BY <1>1, <2>1 DEF Later, ghosts
    <2> QED BY <2>2, <2>3, QuietStep
<1> QED BY <1>2, <1>3, <1>4, <1>5 DEF Environment

\* bitcoind accepts a transaction whose predecessor it got, long enough ago.
LEMMA AcceptedKeeps ==
    ASSUME PushInv, NEW t \in Txs, PushAccepted(t), UNCHANGED <<height, minedAt, inbox, asked>>,
           \A r \in Requests : \A i \in 2 .. Len(Script(r)) :
               Script(r)[i].tx = t =>
                 /\ sentAt[Script(r)[i - 1].tx] # 0
                 /\ height >= sentAt[Script(r)[i - 1].tx]
                              + Script(r)[i].nlocktime - Script(r)[i - 1].nlocktime
    PROVE  /\ Later /\ BitcoindOK' /\ PushedInOrder' /\ NeverEarly' /\ UNCHANGED faults
           /\ sentAt' \in [Txs -> Nat] /\ mempool' \subseteq Txs /\ UNCHANGED <<early, rejected, unsent>>
           /\ sentAt'[t] # 0
<1>1. /\ TypeOK /\ BitcoindOK /\ PushedInOrder /\ NeverEarly
      /\ height \in Nat /\ height > 0 /\ sentAt \in [Txs -> Nat] /\ mempool \subseteq Txs
    BY ConfigAssumption DEF PushInv, TypeOK
<1>2. /\ mempool' = mempool \/ mempool' = mempool \cup {t}
      /\ sentAt' = [sentAt EXCEPT ![t] = IF @ = 0 THEN height ELSE @]
      /\ UNCHANGED <<early, rejected, unsent, faults>>
    BY DEF PushAccepted
<1>3. /\ sentAt' \in [Txs -> Nat] /\ sentAt'[t] # 0
      /\ sentAt[t] = 0 => sentAt'[t] = height
      /\ \A u \in Txs : sentAt[u] # 0 => sentAt'[u] = sentAt[u]
      /\ \A u \in Txs : u # t => sentAt'[u] = sentAt[u]
    BY <1>1, <1>2
<1>4. mempool' \subseteq Txs
    BY <1>1, <1>2
<1>5. Later
    BY <1>1, <1>2, <1>3 DEF Later
<1>6. BitcoindOK'
    <2>1. mempool' \subseteq {u \in Txs : sentAt'[u] # 0}
        BY <1>1, <1>2, <1>3 DEF BitcoindOK
    <2>2. \A u \in Txs : sentAt'[u] <= height
        BY <1>1, <1>3 DEF BitcoindOK
    <2>3. \A u \in Txs : minedAt[u] # 0 =>
            sentAt'[u] # 0 /\ sentAt'[u] < minedAt[u] /\ minedAt[u] <= height
        BY <1>1, <1>3 DEF BitcoindOK
    <2>4. \A i \in 1 .. Len(inbox) : inbox[i] <= height
        BY <1>1 DEF BitcoindOK
    <2> QED BY <2>1, <2>2, <2>3, <2>4 DEF BitcoindOK
<1>7. PushedInOrder'
    <2>1. \A r \in Requests : Script(r)' = Script(r)
        BY ScriptsStay
    <2> SUFFICES ASSUME NEW r \in Requests, NEW i \in 2 .. Len(Script(r)), sentAt'[Script(r)[i].tx] # 0
                 PROVE  /\ sentAt'[Script(r)[i - 1].tx] # 0
                        /\ sentAt'[Script(r)[i].tx] >= sentAt'[Script(r)[i - 1].tx]
                             + Script(r)[i].nlocktime - Script(r)[i - 1].nlocktime
        BY <2>1 DEF PushedInOrder
    <2>2. i \in 1 .. Len(Script(r)) /\ i > 1
        BY <1>1, EntryTypes
    <2>3. Script(r)[i - 1].tx \in Txs /\ Script(r)[i].tx \in Txs
        BY <1>1, <2>2, EntryTypes
    <2>4. CASE sentAt[Script(r)[i].tx] # 0
        BY <1>1, <1>3, <2>3, <2>4 DEF PushedInOrder
    <2>5. CASE sentAt[Script(r)[i].tx] = 0
        <3>1. Script(r)[i].tx = t /\ sentAt'[Script(r)[i].tx] = height
            BY <1>3, <2>3, <2>5
        <3>2. sentAt'[Script(r)[i - 1].tx] = sentAt[Script(r)[i - 1].tx]
            BY <1>3, <2>3, <3>1
        <3> QED BY <3>1, <3>2
    <2> QED BY <2>4, <2>5
<1>8. NeverEarly'
    BY <1>1, <1>2 DEF NeverEarly
<1> QED BY <1>2, <1>3, <1>4, <1>5, <1>6, <1>7, <1>8

\* bitcoind refuses a transaction whose nLockTime is over.
LEMMA RejectedKeeps ==
    ASSUME PushInv, NEW t \in Txs, PushRejected(t), UNCHANGED <<height, minedAt, inbox, asked>>,
           height >= LockTime[t]
    PROVE  /\ Later /\ BitcoindOK' /\ PushedInOrder' /\ NeverEarly'
           /\ faults' \in Nat /\ rejected' \subseteq Txs /\ t \in rejected'
           /\ UNCHANGED <<mempool, sentAt, unsent, early>>
<1>1. /\ TypeOK /\ BitcoindOK /\ PushedInOrder /\ NeverEarly /\ height \in Nat
      /\ faults \in Nat /\ rejected \subseteq Txs /\ LockTime[t] \in Nat
    BY ConfigAssumption DEF PushInv, TypeOK
<1>2. ~(height < LockTime[t])
    BY <1>1
<1>3. /\ faults' = faults + 1 /\ rejected' = rejected \cup {t}
      /\ UNCHANGED <<mempool, sentAt, unsent, early>>
    BY <1>2 DEF PushRejected
<1>4. Later
    BY <1>1, <1>3 DEF Later
<1>5. BitcoindOK' /\ NeverEarly'
    BY <1>1, <1>3 DEF BitcoindOK, NeverEarly
<1>6. PushedInOrder'
    BY <1>1, <1>3, ScriptsStay DEF PushedInOrder
<1> QED BY <1>1, <1>3, <1>4, <1>5, <1>6

-----------------------------------------------------------------------------
(* The scheduler *)

LEMMA PlaceArithmetic ==
    ASSUME NEW a \in Nat, NEW b \in Nat, NEW n \in 1 .. a, a - b + 1 = n + 1
    PROVE  /\ b <= a /\ n + 1 > 1 /\ n + 1 # 1 /\ n + 1 - 1 = n /\ n \in Nat
           /\ \A j \in 1 .. n : j \in 1 .. a
           /\ \A j \in 1 .. n : j = n \/ j \in 1 .. n - 1
           /\ \A j \in 1 .. b : n + 1 + j - 1 = n + j
OBVIOUS

\* A call that has dealt with the entry at hand
LEMMA CallAdvances ==
    ASSUME TypeOK, NEW r \in Requests, Begun(r), CallOK(r), req[r].script # <<>>,
           asked' = asked, height' = height,
           req'[r].script = Tail(req[r].script), req'[r].last = req[r].last,
           req'[r].parentTx = req[r].script[1].tx, req'[r].parentNlt = req[r].script[1].nlocktime,
           req'[r].parentId < nextId',
           req'[r].step = "first" =>
             /\ req[r].step = "first" /\ req'[r].parentId = NoId
             /\ req[r].script[1].delta = 0 /\ sentAt'[req[r].script[1].tx] # 0,
           req'[r].step = "store" => req'[r].parentId # NoId,
           \A t \in Txs : sentAt[t] # 0 => sentAt'[t] # 0,
           \A t \in Txs : Safe(t) => Safe(t)',
           \E t \in Txs : t = req[r].script[1].tx /\ Safe(t)',
           \A t \in Txs : rows'[t] # NoRow /\ req'[r].parentId # NoId /\ rows'[t].id = req'[r].parentId =>
               t = req'[r].parentTx
    PROVE  CallOK(r)'
<1> DEFINE s == Script(r)
           n == Position(r)
           c == req[r]
           d == req'[r]
<1>1. /\ n \in 1 .. Len(s) /\ c.script[1].tx = s[n].tx /\ c.script[1].delta = Delta(s, n)
      /\ c.script[1].nlocktime = BaseHeight(s, c.last) + Delta(s, n)
      /\ d.script \in Seq(Entry) /\ Len(s) - Len(d.script) + 1 = n + 1
      /\ \A j \in 1 .. Len(d.script) : d.script[j] = Rebase(s, c.last)[n + j]
    BY NextEntry
<1>2. Script(r)' = s /\ Position(r)' = n + 1
    BY <1>1, ScriptsStay DEF Position
<1>3. /\ s \in Seq(ClientEntry) /\ Len(s) \in Nat /\ \A i \in 1 .. Len(s) : s[i].tx \in Txs
      /\ Len(d.script) \in Nat
    BY <1>1, EntryTypes
<1> HIDE DEF s, n, c, d
<1>4. /\ Len(d.script) <= Len(s) /\ n + 1 > 1 /\ n + 1 # 1 /\ n + 1 - 1 = n /\ n \in Nat
      /\ \A j \in 1 .. n : j \in 1 .. Len(s)
      /\ \A j \in 1 .. n : j = n \/ j \in 1 .. n - 1
      /\ \A j \in 1 .. Len(d.script) : n + 1 + j - 1 = n + j
    BY <1>1, <1>3, PlaceArithmetic
<1>5. Consistent(s) /\ c.last <= height
    BY DEF CallOK, s, c
<1>6. \A j \in 1 .. Len(d.script) : d.script[j] = Rebase(s, d.last)[n + 1 + j - 1]
    BY <1>1, <1>4 DEF c, d
<1>7. d.parentTx = PrevTx(s, n + 1) /\ d.parentNlt = BaseHeight(s, d.last) + PrevDelta(s, n + 1)
    BY <1>1, <1>4 DEF PrevTx, PrevDelta, c, d
<1>8. d.step = "first" =>
        d.parentId = NoId /\ \A j \in 1 .. n : Delta(s, j) = 0 /\ sentAt'[s[j].tx] # 0
    <2> SUFFICES ASSUME d.step = "first", NEW j \in 1 .. n
                 PROVE  d.parentId = NoId /\ Delta(s, j) = 0 /\ sentAt'[s[j].tx] # 0
        BY DEF d
    <2>1. CASE j = n
        BY <1>1, <2>1 DEF c, d
    <2>2. CASE j \in 1 .. n - 1
        <3>1. Delta(s, j) = 0 /\ sentAt[s[j].tx] # 0
            BY <2>2 DEF CallOK, s, n, c, d
        <3> QED BY <1>3, <1>4, <3>1 DEF d
    <2> QED BY <1>4, <2>1, <2>2
<1>9. \A j \in 1 .. n : Safe(s[j].tx)'
    <2> SUFFICES ASSUME NEW j \in 1 .. n PROVE Safe(s[j].tx)'
        BY <1>2
    <2>1. PICK t \in Txs : t = s[j].tx
        BY <1>3, <1>4
    <2>2. CASE j = n
        <3>1. Safe(t)'
            BY <1>1, <2>1, <2>2 DEF c
        <3> QED BY <1>2, <2>1, <3>1 DEF Safe, s
    <2>3. CASE j \in 1 .. n - 1
        <3>1. Safe(t)
            BY <2>1, <2>3 DEF CallOK, s, n
        <3>2. Safe(t)'
            BY <3>1
        <3> QED BY <1>2, <2>1, <3>2 DEF Safe, s
    <2> QED BY <1>4, <2>2, <2>3
<1>10. /\ Consistent(Script(r))' /\ (Len(req[r].script) <= Len(Script(r)))'
       /\ req'[r].last <= height' /\ req'[r].parentId < nextId'
       /\ req'[r].step = "store" => Position(r)' > 1 /\ req'[r].parentId # NoId
    BY <1>2, <1>4, <1>5 DEF Consistent, Delta, Nlt0, c, d
<1>11. \A j \in 1 .. Len(req'[r].script) : req'[r].script[j] = Rebase(Script(r), req[r].last)'[Position(r)' + j - 1]
    BY <1>2, <1>6 DEF d, Rebase, BaseHeight, Delta, Nlt0
<1>12. /\ req'[r].parentTx = PrevTx(Script(r), Position(r))'
       /\ req'[r].parentNlt = (BaseHeight(Script(r), req[r].last) + PrevDelta(Script(r), Position(r)))'
    BY <1>2, <1>7 DEF d, PrevTx, BaseHeight, PrevDelta, Delta, Nlt0
<1>13. req'[r].step = "first" =>
         /\ req'[r].parentId = NoId
         /\ \A j \in 1 .. Position(r)' - 1 : Delta(Script(r), j)' = 0 /\ sentAt'[Script(r)'[j].tx] # 0
    BY <1>2, <1>4, <1>8 DEF d, Delta, Nlt0
<1>14. \A j \in 1 .. Position(r)' - 1 : Safe(Script(r)[j].tx)'
    BY <1>2, <1>4, <1>9 DEF Safe, s
<1>15. \A t \in Stored' : req'[r].parentId # NoId /\ rows'[t].id = req'[r].parentId => t = req'[r].parentTx
    BY DEF Stored
<1> QED BY <1>10, <1>11, <1>12, <1>13, <1>14, <1>15 DEF CallOK

\* The record of a call that begins
LEMMA RebaseTypes ==
    ASSUME TypeOK, NEW r \in Requests, Consistent(Script(r)), NEW h \in Nat
    PROVE  /\ Rebase(Script(r), h) \in Seq(Entry)
           /\ Len(Rebase(Script(r), h)) = Len(Script(r))
           /\ BaseHeight(Script(r), h) \in Nat
<1> DEFINE s == Script(r)
<1>1. s \in Seq(ClientEntry) /\ Len(s) \in Nat /\ DOMAIN s = 1 .. Len(s)
    BY EntryTypes
<1>2. 1 \in 1 .. Len(s)
    <2>1. s # <<>>
        BY DEF Consistent
    <2> QED BY <1>1, <2>1
<1>3. BaseHeight(s, h) \in Nat
    BY <1>2, EntryTypes DEF BaseHeight, Nlt0
<1>4. \A i \in 1 .. Len(s) : s[i].tx \in Txs /\ Delta(s, i) \in Nat
    <2>1. \A i \in 1 .. Len(s) : s[i].tx \in Txs /\ Delta(s, i) \in Int /\ Delta(s, i) >= 0
        BY <1>1, EntryTypes DEF Consistent
    <2> QED BY <2>1
<1>5. \A i \in 1 .. Len(s) :
        [tx |-> s[i].tx, nlocktime |-> BaseHeight(s, h) + Delta(s, i), delta |-> Delta(s, i)] \in Entry
    BY <1>3, <1>4 DEF Entry
<1> HIDE DEF s
<1>6. Rebase(s, h) = [i \in 1 .. Len(s) |->
        [tx |-> s[i].tx, nlocktime |-> BaseHeight(s, h) + Delta(s, i), delta |-> Delta(s, i)]]
    BY <1>1 DEF Rebase
<1>7. Rebase(s, h) \in Seq(Entry) /\ Len(Rebase(s, h)) = Len(s)
    BY <1>1, <1>5, <1>6
<1> QED BY <1>3, <1>7 DEF s

LEMMA ScheduleKeeps ==
    ASSUME PushInv, NEW r \in Requests, Schedule(r)
    PROVE  PushInv'
<1> DEFINE s == Script(r)
           begun == [step |-> "first", script |-> Rebase(s, height), last |-> height,
                     parentTx |-> NoTx, parentNlt |-> BaseHeight(s, height), parentId |-> NoId]
<1>1. /\ TypeOK /\ BitcoindOK /\ OrchOK /\ CallsOK /\ height \in Nat /\ req \in [Requests -> Call]
      /\ nextId \in Nat /\ nextId # 0 /\ asked \in [Requests -> Scripts]
    BY ConfigAssumption DEF PushInv, TypeOK, NoId
<1>2. UNCHANGED <<outside, inbox, rows, nextId, orch, crashes, faults, ghosts, missed>>
    BY DEF Schedule
<1>3. /\ UNCHANGED <<height, minedAt, mempool, up, reorgs, asked, inbox, rows, nextId, orch>>
      /\ UNCHANGED <<crashes, faults, sentAt, early, rejected, unsent, missed>>
    BY <1>2 DEF outside, ghosts
<1>4. Later /\ BitcoindOK' /\ NeverEarly'
    BY <1>1, <1>3 DEF Later, BitcoindOK, PushInv, NeverEarly
<1>5. ASSUME req' \in [Requests -> Call] PROVE TypeOK'
    BY <1>1, <1>3, <1>5 DEF TypeOK
<1>6. CASE req' = [req EXCEPT ![r] = Over("failed")]
    <2>1. Over("failed") \in Call
        BY DEF Over, Call, NoId
    <2>2. req' \in [Requests -> Call]
        BY <1>1, <1>6, <2>1
    <2>3. \A q \in Requests : req'[q] = req[q] \/ req'[q].step = "failed"
        BY <1>1, <1>6 DEF Over
    <2> QED BY <1>3, <1>4, <1>5, <2>2, <2>3, QuietStep
<1>7. CASE /\ Len(s) \in 1 .. MaxEntries /\ Valid(s, height)
           /\ req' = [req EXCEPT ![r] = begun]
    <2>1. Consistent(s)
        BY <1>1, <1>7, ValidIsConsistent
    <2>2. /\ Rebase(s, height) \in Seq(Entry) /\ Len(Rebase(s, height)) = Len(s)
          /\ BaseHeight(s, height) \in Nat /\ Len(s) \in Nat
        <3>1. s \in Seq(ClientEntry)
            BY <1>1, EntryTypes
        <3>2. Len(s) \in Nat
            BY <3>1
        <3> QED BY <1>1, <2>1, <3>2, RebaseTypes
    <2>3. begun \in Call
        BY <1>1, <2>2 DEF Call, NoId
    <2>4. req' \in [Requests -> Call] /\ req'[r] = begun /\ \A q \in Requests \ {r} : req'[q] = req[q]
        BY <1>1, <1>7, <2>3
    <2>5. CallOK(r)'
        <3>1. Script(r)' = s
            BY <1>3, ScriptsStay
        <3>2. /\ req'[r].script = Rebase(s, height) /\ req'[r].last = height /\ req'[r].step = "first"
              /\ req'[r].parentTx = NoTx /\ req'[r].parentNlt = BaseHeight(s, height)
              /\ req'[r].parentId = NoId
            BY <2>4
        <3>3. Position(r)' = 1
            BY <2>2, <3>1, <3>2 DEF Position
        <3>4. /\ Consistent(Script(r))' /\ (Len(req[r].script) <= Len(Script(r)))'
              /\ req'[r].last <= height' /\ req'[r].parentId < nextId'
            BY <1>1, <1>3, <2>1, <2>2, <3>1, <3>2 DEF Consistent, Delta, Nlt0, NoId
        <3>5. \A j \in 1 .. Len(req'[r].script) :
                req'[r].script[j] = Rebase(Script(r), req[r].last)'[Position(r)' + j - 1]
            <4>1. \A j \in 1 .. Len(s) : 1 + j - 1 = j
                BY <2>2
            <4> HIDE DEF s
            <4> QED BY <2>2, <3>1, <3>2, <3>3, <4>1 DEF Rebase, BaseHeight, Delta, Nlt0
        <3>6. /\ req'[r].parentTx = PrevTx(Script(r), Position(r))'
              /\ req'[r].parentNlt = (BaseHeight(Script(r), req[r].last) + PrevDelta(Script(r), Position(r)))'
            BY <2>2, <3>1, <3>2, <3>3 DEF PrevTx, PrevDelta, BaseHeight, Nlt0
        <3>7. 1 .. Position(r)' - 1 = {}
            BY <3>3
        <3> QED BY <3>2, <3>4, <3>5, <3>6, <3>7 DEF CallOK
    <2>6. CallsOK'
        <3>1. \A q \in Requests : Begun(q) /\ req'[q] = req[q] => CallOK(q)'
            BY <1>3, <1>4, TableKept
        <3> QED BY <2>4, <2>5, <3>1 DEF CallsOK, Begun
    <2>7. RowsOK' /\ OrchOK' /\ PushedInOrder'
        BY <1>3, <1>4, TableKept
    <2>8. NothingLost'
        <3>1. \A q \in Requests : req'[q].step = "done" => req[q].step = "done"
            BY <2>4
        <3> QED BY <1>3, <1>4, <3>1, TableKept
    <2>9. TypeOK'
        BY <1>5, <2>4
    <2> QED BY <1>4, <2>6, <2>7, <2>8, <2>9 DEF PushInv
<1> QED BY <1>6, <1>7 DEF Schedule

LEMMA ScheduledKeeps ==
    ASSUME PushInv, NEW r \in Requests, Scheduled(r)
    PROVE  PushInv'
<1>1. /\ TypeOK /\ BitcoindOK /\ CallsOK /\ height \in Nat /\ req \in [Requests -> Call] /\ NothingLost
    BY ConfigAssumption DEF PushInv, TypeOK
<1>2. /\ UNCHANGED <<height, minedAt, mempool, up, reorgs, asked, inbox, rows, nextId, orch>>
      /\ UNCHANGED <<crashes, faults, sentAt, early, rejected, unsent, missed>>
      /\ req' = [req EXCEPT ![r] = Over("done")] /\ Begun(r) /\ req[r].script = <<>>
    BY DEF Scheduled, outside, ghosts, Begun
<1>3. Over("done") \in Call
    BY DEF Over, Call, NoId
<1>4. /\ req' \in [Requests -> Call] /\ \A q \in Requests \ {r} : req'[q] = req[q]
      /\ req'[r].step = "done"
    BY <1>1, <1>2, <1>3 DEF Over
<1>5. TypeOK'
    BY <1>1, <1>2, <1>4 DEF TypeOK
<1>6. Later /\ BitcoindOK' /\ NeverEarly'
    BY <1>1, <1>2 DEF Later, BitcoindOK, PushInv, NeverEarly
<1>7. /\ RowsOK' /\ OrchOK' /\ PushedInOrder' /\ \A t \in Txs : Safe(t) => Safe(t)'
      /\ \A q \in Requests : Begun(q) /\ req'[q] = req[q] => CallOK(q)'
    BY <1>2, <1>6, TableKept
<1>8. CallsOK'
    BY <1>4, <1>7 DEF CallsOK, Begun
<1>9. NothingLost'
    <2> SUFFICES ASSUME NEW q \in Requests, req'[q].step = "done", NEW i \in 1 .. Len(Script(q))
                 PROVE  Safe(Script(q)[i].tx)
        <3>1. \A u \in Requests : Script(u)' = Script(u) /\ DOMAIN Script(u) = 1 .. Len(Script(u))
            BY <1>1, <1>2, ScriptsStay, EntryTypes
        <3>2. \A u \in Requests : \A i \in 1 .. Len(Script(u)) : Script(u)[i].tx \in Txs
            BY <1>1, EntryTypes
        <3> QED BY <1>7, <3>1, <3>2 DEF NothingLost, Safe
    <2>0. Script(q) \in Seq(ClientEntry)
        BY <1>1, EntryTypes
    <2>1. CASE q = r
        <3>1. CallOK(r) /\ Len(Script(r)) \in Nat
            BY <1>1, <1>2, <2>0, <2>1 DEF CallsOK
        <3>2. Position(r) - 1 = Len(Script(r))
            BY <1>2, <3>1 DEF Position
        <3> QED BY <2>1, <3>1, <3>2 DEF CallOK
    <2>2. CASE q # r
        <3>1. req[q].step = "done"
            BY <1>4, <2>2
        <3> QED BY <1>1, <2>0, <3>1 DEF NothingLost, Safe
    <2> QED BY <2>1, <2>2
<1> QED BY <1>5, <1>6, <1>7, <1>8, <1>9 DEF PushInv

\* The place of a transaction in its script is the only one where it has to be in order.
LEMMA InOrderThere ==
    ASSUME TypeOK, NEW r \in Requests, NEW n \in 1 .. Len(Script(r)),
           n > 1 => /\ sentAt[Script(r)[n - 1].tx] # 0
                    /\ height >= sentAt[Script(r)[n - 1].tx]
                                 + Script(r)[n].nlocktime - Script(r)[n - 1].nlocktime
    PROVE  \A q \in Requests : \A i \in 2 .. Len(Script(q)) :
               Script(q)[i].tx = Script(r)[n].tx =>
                 /\ sentAt[Script(q)[i - 1].tx] # 0
                 /\ height >= sentAt[Script(q)[i - 1].tx]
                              + Script(q)[i].nlocktime - Script(q)[i - 1].nlocktime
<1> SUFFICES ASSUME NEW q \in Requests, NEW i \in 2 .. Len(Script(q)),
                    Script(q)[i].tx = Script(r)[n].tx
             PROVE  /\ sentAt[Script(q)[i - 1].tx] # 0
                    /\ height >= sentAt[Script(q)[i - 1].tx]
                                 + Script(q)[i].nlocktime - Script(q)[i - 1].nlocktime
    OBVIOUS
<1>1. i \in 1 .. Len(Script(q)) /\ i > 1
    OBVIOUS
<1>2. Script(q) = Script(r) /\ i = n
    BY <1>1, ScriptsAreOwn DEF TypeOK
<1> QED BY <1>1, <1>2

LEMMA PushFirstKeeps ==
    ASSUME PushInv, NEW r \in Requests, PushFirst(r)
    PROVE  PushInv'
<1> DEFINE s == Script(r)
           n == Position(r)
           e == req[r].script[1]
<1>1. /\ TypeOK /\ BitcoindOK /\ CallsOK /\ RowsOK /\ height \in Nat /\ req \in [Requests -> Call]
      /\ sentAt \in [Txs -> Nat]
    BY ConfigAssumption DEF PushInv, TypeOK
<1>2. /\ req[r].step = "first" /\ Begun(r) /\ req[r].script # <<>>
      /\ e.nlocktime <= req[r].last /\ e.delta = 0
      /\ UNCHANGED <<height, minedAt, up, reorgs, asked, inbox, rows, nextId, orch, crashes, missed>>
    BY DEF PushFirst, IsFirst, Begun
<1>3. CallOK(r)
    BY <1>1, <1>2 DEF CallsOK
<1>4. /\ n \in 1 .. Len(s) /\ e \in Entry /\ e.tx = s[n].tx /\ Delta(s, n) = 0
      /\ LockTime[e.tx] = s[n].nlocktime /\ s[n].nlocktime <= e.nlocktime
      /\ Tail(req[r].script) \in Seq(Entry)
    BY <1>1, <1>2, <1>3, NextEntry
<1>5. e.tx \in Txs /\ e.nlocktime \in Nat /\ s[n].nlocktime \in Nat /\ req[r].last \in Nat
    BY <1>1, <1>4, EntryTypes, CallTypes DEF Entry
<1>6. height >= LockTime[e.tx]
    <2>1. req[r].last <= height
        BY <1>3 DEF CallOK
    <2> QED BY <1>1, <1>2, <1>4, <1>5, <2>1
<1>7. \A q \in Requests : \A i \in 2 .. Len(Script(q)) :
        Script(q)[i].tx = e.tx =>
          /\ sentAt[Script(q)[i - 1].tx] # 0
          /\ height >= sentAt[Script(q)[i - 1].tx]
                       + Script(q)[i].nlocktime - Script(q)[i - 1].nlocktime
    <2>1. n > 1 => /\ sentAt[s[n - 1].tx] # 0
                   /\ height >= sentAt[s[n - 1].tx] + s[n].nlocktime - s[n - 1].nlocktime
        <3> SUFFICES ASSUME n > 1
                     PROVE  /\ sentAt[s[n - 1].tx] # 0
                            /\ height >= sentAt[s[n - 1].tx] + s[n].nlocktime - s[n - 1].nlocktime
            OBVIOUS
        <3>1. n - 1 \in 1 .. n - 1 /\ n - 1 \in 1 .. Len(s)
            BY <1>4
        <3>2. Delta(s, n - 1) = 0 /\ sentAt[s[n - 1].tx] # 0
            BY <1>2, <1>3, <3>1 DEF CallOK
        <3>3. s[n - 1].tx \in Txs /\ s[n - 1].nlocktime \in Nat /\ s[1].nlocktime \in Nat
            <4>1. 1 \in 1 .. Len(s)
                BY <3>1
            <4> QED BY <1>1, <3>1, <4>1, EntryTypes
        <3>4. s[n].nlocktime - s[n - 1].nlocktime = 0
            BY <1>4, <1>5, <3>2, <3>3 DEF Delta, Nlt0
        <3>5. sentAt[s[n - 1].tx] \in Nat /\ sentAt[s[n - 1].tx] <= height
            BY <1>1, <3>3 DEF BitcoindOK
        <3> QED BY <1>1, <1>5, <3>2, <3>3, <3>4, <3>5
    <2>2. \A q \in Requests : \A i \in 2 .. Len(Script(q)) :
            Script(q)[i].tx = s[n].tx =>
              /\ sentAt[Script(q)[i - 1].tx] # 0
              /\ height >= sentAt[Script(q)[i - 1].tx]
                           + Script(q)[i].nlocktime - Script(q)[i - 1].nlocktime
        BY <1>1, <1>4, <2>1, InOrderThere
    <2> QED BY <1>4, <2>2
<1>8. Over("failed") \in Call
    BY DEF Over, Call, NoId
<1>9. CASE /\ PushAccepted(e.tx)
           /\ req' = [req EXCEPT ![r].script = Tail(@), ![r].parentTx = e.tx, ![r].parentNlt = e.nlocktime]
    <2>1. /\ Later /\ BitcoindOK' /\ PushedInOrder' /\ NeverEarly' /\ UNCHANGED faults
          /\ sentAt' \in [Txs -> Nat] /\ mempool' \subseteq Txs /\ UNCHANGED <<early, rejected, unsent>>
          /\ sentAt'[e.tx] # 0
        <3> HIDE DEF e
        <3> QED BY <1>2, <1>5, <1>7, <1>9, AcceptedKeeps
    <2>2. /\ req' \in [Requests -> Call] /\ \A q \in Requests \ {r} : req'[q] = req[q]
          /\ req'[r] = [req[r] EXCEPT !.script = Tail(@), !.parentTx = e.tx, !.parentNlt = e.nlocktime]
        <3>1. req' = [req EXCEPT ![r] = [req[r] EXCEPT !.script = Tail(@), !.parentTx = e.tx,
                                                       !.parentNlt = e.nlocktime]]
            BY <1>1, <1>9
        <3>2. [req[r] EXCEPT !.script = Tail(@), !.parentTx = e.tx, !.parentNlt = e.nlocktime] \in Call
            <4> DEFINE rest == Tail(req[r].script)
            <4>1. rest \in Seq(Entry) /\ req[r] \in Call
                BY <1>1, <1>4
            <4> HIDE DEF rest, e
            <4>2. [req[r] EXCEPT !.script = rest, !.parentTx = e.tx, !.parentNlt = e.nlocktime] \in Call
                BY <1>5, <4>1 DEF Call
            <4> QED BY <4>2 DEF rest
        <3> QED BY <1>1, <3>1, <3>2
    <2>3. /\ req'[r].script = Tail(req[r].script) /\ req'[r].last = req[r].last
          /\ req'[r].parentTx = e.tx /\ req'[r].parentNlt = e.nlocktime
          /\ req'[r].parentId = req[r].parentId /\ req'[r].step = req[r].step
        <3>1. req[r] \in Call
            BY <1>1
        <3> QED BY <2>2, <3>1 DEF Call
    <2>4. TypeOK'
        BY <1>1, <1>2, <2>1, <2>2 DEF TypeOK
    <2>5. /\ RowsOK' /\ OrchOK' /\ \A t \in Txs : Safe(t) => Safe(t)'
          /\ \A q \in Requests : Begun(q) /\ req'[q] = req[q] => CallOK(q)'
        BY <1>2, <2>1, TableKept
    <2>6. CallOK(r)'
        <3>1. req[r].parentId = NoId /\ NoId < nextId'
            BY <1>1, <1>2, <1>3 DEF CallOK, TypeOK, NoId
        <3>2. \A t \in Txs : sentAt[t] # 0 => sentAt'[t] # 0
            BY <2>1 DEF Later
        <3>3. \E t \in Txs : t = e.tx /\ Safe(t)'
            BY <1>5, <2>1 DEF Safe
        <3> QED BY <1>1, <1>2, <1>3, <2>1, <2>3, <2>5, <3>1, <3>2, <3>3, CallAdvances
    <2>7. CallsOK'
        BY <2>2, <2>5, <2>6 DEF CallsOK, Begun
    <2>8. NothingLost'
        <3>1. \A q \in Requests : req'[q].step = "done" => req[q].step = "done"
            BY <2>2, <2>3
        <3> QED BY <1>2, <2>1, <3>1, TableKept
    <2> QED BY <2>1, <2>4, <2>5, <2>7, <2>8 DEF PushInv
<1>10. CASE /\ PushRejected(e.tx) \/ (~up /\ UNCHANGED <<mempool, faults, ghosts>>)
            /\ req' = [req EXCEPT ![r] = Over("failed")]
    <2>1. /\ Later /\ BitcoindOK' /\ UNCHANGED <<mempool, sentAt, early, unsent>>
          /\ faults' \in Nat /\ rejected' \subseteq Txs
        <3>1. CASE PushRejected(e.tx)
            <4> HIDE DEF e
            <4> QED BY <1>2, <1>5, <1>6, <3>1, RejectedKeeps
        <3>2. CASE UNCHANGED <<mempool, faults, ghosts>>
            BY <1>1, <1>2, <3>2 DEF Later, BitcoindOK, ghosts, TypeOK
        <3> QED BY <1>10, <3>1, <3>2
    <2>2. req' \in [Requests -> Call] /\ \A q \in Requests : req'[q] = req[q] \/ req'[q].step = "failed"
        BY <1>1, <1>8, <1>10 DEF Over
    <2>3. TypeOK'
        BY <1>1, <1>2, <2>1, <2>2 DEF TypeOK
    <2> QED BY <1>2, <2>1, <2>2, <2>3, QuietStep
<1> QED BY <1>9, <1>10 DEF PushFirst

LEMMA StoreEntryKeeps ==
    ASSUME PushInv, NEW r \in Requests, StoreEntry(r)
    PROVE  PushInv'
<1> DEFINE s == Script(r)
           n == Position(r)
           e == req[r].script[1]
           row == [id |-> nextId, parent |-> req[r].parentId, parentTx |-> req[r].parentTx,
                   delay |-> DelayOf(r), trigger |-> e.nlocktime]
           moved == [req[r] EXCEPT !.step = "store", !.script = Tail(req[r].script),
                                   !.parentTx = e.tx, !.parentNlt = e.nlocktime,
                                   !.parentId = nextId]
<1>1. /\ TypeOK /\ BitcoindOK /\ CallsOK /\ RowsOK /\ OrchOK /\ height \in Nat
      /\ req \in [Requests -> Call] /\ rows \in [Txs -> Row] /\ nextId \in Nat /\ nextId > 0
      /\ orch.height \in Nat /\ faults \in Nat /\ missed \in BOOLEAN
    BY ConfigAssumption DEF PushInv, TypeOK, NoId
<1>2. /\ Begun(r) /\ req[r].script # <<>>
      /\ UNCHANGED <<height, minedAt, mempool, up, reorgs, asked, inbox, orch, crashes>>
      /\ UNCHANGED <<sentAt, early, rejected, unsent>>
    BY DEF StoreEntry, Begun, outside, ghosts
<1>3. CallOK(r)
    BY <1>1, <1>2 DEF CallsOK
<1>4. /\ n \in 1 .. Len(s) /\ e \in Entry /\ e.tx = s[n].tx
      /\ LockTime[e.tx] = s[n].nlocktime /\ s[n].nlocktime <= e.nlocktime
      /\ DelayOf(r) = Delta(s, n) - PrevDelta(s, n) /\ DelayOf(r) \in Nat
      /\ Tail(req[r].script) \in Seq(Entry)
    BY <1>1, <1>2, <1>3, NextEntry
<1>5. e.tx \in Txs /\ e.nlocktime \in Nat /\ LockTime[e.tx] \in Nat
    BY <1>4, ConfigAssumption DEF Entry
<1>6. /\ req[r].parentId \in Nat /\ req[r].parentTx \in Txs \cup {NoTx}
      /\ req[r].parentTx = PrevTx(s, n) /\ req[r].parentId < nextId
    <2>1. req[r] \in Call
        BY <1>1
    <2> QED BY <1>3, <2>1 DEF Call, CallOK
<1>7. Later /\ BitcoindOK' /\ PushedInOrder' /\ NeverEarly'
    <2>1. Later /\ BitcoindOK' /\ NeverEarly'
        BY <1>1, <1>2 DEF Later, BitcoindOK, PushInv, NeverEarly
    <2>2. PushedInOrder'
        BY <1>2, ScriptsStay DEF PushInv, PushedInOrder
    <2> QED BY <2>1, <2>2
<1>8. CASE /\ UNCHANGED <<rows, nextId>> /\ req' = [req EXCEPT ![r] = Over("failed")]
           /\ faults' \in Nat /\ missed' = missed
    <2>1. Over("failed") \in Call
        BY DEF Over, Call, NoId
    <2>2. req' \in [Requests -> Call] /\ \A q \in Requests : req'[q] = req[q] \/ req'[q].step = "failed"
        BY <1>1, <1>8, <2>1 DEF Over
    <2>3. TypeOK'
        BY <1>1, <1>2, <1>8, <2>2 DEF TypeOK
    <2> QED BY <1>2, <1>7, <1>8, <2>2, <2>3, QuietStep
<1>9. CASE /\ AddScheduledTransaction(e.tx, req[r].parentId, req[r].parentTx, DelayOf(r), e.nlocktime)
           /\ req' = [req EXCEPT ![r] = moved]
           /\ missed' = (missed \/ e.nlocktime <= height)
           /\ UNCHANGED faults
    <2>1. /\ rows[e.tx] = NoRow
          /\ req[r].parentId = NoId \/ \E t \in Stored : rows[t].id = req[r].parentId
          /\ rows' = [rows EXCEPT ![e.tx] = row] /\ nextId' = nextId + 1
        BY <1>9 DEF AddScheduledTransaction, Insertable
    <2>2. row \in Row
        BY <1>1, <1>4, <1>5, <1>6 DEF Row
    <2>3. rows' \in [Txs -> Row] /\ rows'[e.tx] = row /\ \A t \in Txs \ {e.tx} : rows'[t] = rows[t]
        BY <1>1, <1>5, <2>1, <2>2
    <2>4. /\ row.id = nextId /\ row.parent = req[r].parentId /\ row.parentTx = req[r].parentTx
          /\ row.delay = DelayOf(r) /\ row.trigger = e.nlocktime
        OBVIOUS
    <2> HIDE DEF row
    <2>5. row # NoRow
        BY <1>1, <2>4 DEF NoRow, NoId
    <2>6. /\ Stored' = Stored \cup {e.tx} /\ e.tx \notin Stored
          /\ \A t \in Stored : t # e.tx /\ t \in Txs /\ rows'[t] = rows[t]
        BY <1>5, <2>1, <2>3, <2>5 DEF Stored
    <2>7. moved \in Call
        <3>1. req[r] \in Call
            BY <1>1
        <3> QED BY <1>1, <1>4, <1>5, <3>1 DEF Call
    <2>8. /\ req' \in [Requests -> Call] /\ req'[r] = moved
          /\ \A q \in Requests \ {r} : req'[q] = req[q]
        BY <1>1, <1>9, <2>7
    <2>9. /\ req'[r].script = Tail(req[r].script) /\ req'[r].last = req[r].last
          /\ req'[r].parentTx = e.tx /\ req'[r].parentNlt = e.nlocktime
          /\ req'[r].parentId = nextId /\ req'[r].step = "store"
        <3>1. req[r] \in Call
            BY <1>1
        <3> QED BY <2>8, <3>1 DEF Call
    <2>10. TypeOK'
        <3>1. missed' \in BOOLEAN
            BY <1>9
        <3>2. nextId' \in Nat \ {NoId}
            BY <1>1, <2>1 DEF NoId
        <3> QED BY <1>1, <1>2, <1>9, <2>3, <2>8, <3>1, <3>2 DEF TypeOK
    <2>11. \A t \in Txs : Safe(t) => Safe(t)'
        BY <1>2, <2>6 DEF Safe
    <2>12. CallsOK'
        <3>1. CallOK(r)'
            <4>1. \E t \in Txs : t = e.tx /\ Safe(t)'
                BY <1>5, <2>6 DEF Safe
            <4>2. \A t \in Txs : rows'[t] # NoRow /\ req'[r].parentId # NoId /\ rows'[t].id = req'[r].parentId =>
                    t = req'[r].parentTx
                <5>1. \A t \in Stored : rows[t].id < nextId /\ rows[t].id \in Nat
                    BY <1>1 DEF RowsOK, Stored, Row
                <5> QED BY <1>1, <2>3, <2>6, <2>9, <5>1 DEF Stored
            <4>3. req'[r].parentId < nextId' /\ req'[r].parentId # NoId
                BY <1>1, <2>1, <2>9 DEF NoId
            <4>4. \A t \in Txs : sentAt[t] # 0 => sentAt'[t] # 0
                BY <1>2
            <4> QED BY <1>1, <1>2, <1>3, <2>9, <2>11, <4>1, <4>2, <4>3, <4>4, CallAdvances
        <3>2. ASSUME NEW q \in Requests, q # r, Begun(q) PROVE CallOK(q)'
            <4>1. req'[q] = req[q] /\ CallOK(q)
                BY <1>1, <2>8, <3>2 DEF CallsOK
            <4>2. \A t \in Txs : rows'[t] # NoRow =>
                    (rows[t] # NoRow /\ rows'[t].id = rows[t].id) \/ rows'[t].id = nextId
                BY <2>3, <2>4, <2>6 DEF Stored
            <4>3. nextId' \in Nat /\ nextId <= nextId' /\ height' \in Nat /\ height <= height'
                BY <1>1, <1>2, <2>1
            <4>4. \A t \in Txs : sentAt[t] # 0 => sentAt'[t] # 0
                BY <1>2
            <4> QED BY <1>1, <1>2, <2>11, <3>2, <4>1, <4>2, <4>3, <4>4, CallKept
        <3> QED BY <2>8, <3>1, <3>2 DEF CallsOK, Begun
    <2>13. RowsOK'
        <3>1. ASSUME NEW t \in Stored'
              PROVE  /\ NoId < rows'[t].id /\ rows'[t].id < nextId' /\ rows'[t].parent < rows'[t].id
                     /\ rows'[t].trigger >= LockTime[t]
                     /\ rows'[t].parent # NoId =>
                          rows'[t].parentTx \in Stored' /\ rows'[rows'[t].parentTx].id = rows'[t].parent
            <4>1. CASE t = e.tx
                <5>1. rows'[t].parent # NoId =>
                        rows'[t].parentTx \in Stored' /\ rows'[rows'[t].parentTx].id = rows'[t].parent
                    <6> SUFFICES ASSUME req[r].parentId # NoId
                                 PROVE  /\ req[r].parentTx \in Stored'
                                        /\ rows'[req[r].parentTx].id = req[r].parentId
                        BY <2>3, <2>4, <4>1
                    <6>1. PICK p \in Stored : rows[p].id = req[r].parentId
                        BY <2>1
                    <6>2. p = req[r].parentTx
                        BY <1>3, <6>1 DEF CallOK
                    <6> QED BY <2>6, <6>1, <6>2
                <5>2. row.trigger >= LockTime[t] /\ row.parent < row.id /\ NoId < row.id /\ row.id < nextId'
                    BY <1>1, <1>4, <1>5, <1>6, <2>1, <2>4, <4>1, EntryTypes DEF NoId
                <5> QED BY <2>3, <4>1, <5>1, <5>2
            <4>2. CASE t # e.tx
                <5>1. t \in Stored /\ rows'[t] = rows[t] /\ rows[t] \in Row
                    BY <1>1, <2>6, <4>2
                <5>2. rows[t].parent # NoId =>
                        rows[t].parentTx \in Stored' /\ rows'[rows[t].parentTx].id = rows[t].parent
                    BY <1>1, <2>6, <5>1 DEF RowsOK
                <5> QED BY <1>1, <2>1, <5>1, <5>2 DEF RowsOK, Row
            <4> QED BY <4>1, <4>2
        <3>2. \A t, u \in Stored' : rows'[t].id = rows'[u].id => t = u
            <4>1. \A t \in Stored : rows[t].id \in Nat /\ rows[t].id < nextId
                BY <1>1 DEF RowsOK, Stored, Row
            <4> QED BY <1>1, <2>3, <2>4, <2>6, <4>1 DEF RowsOK
        <3>3. ASSUME NEW q \in Requests, NEW i \in 1 .. Len(Script(q)), Script(q)[i].tx \in Stored'
              PROVE  /\ rows'[Script(q)[i].tx].parentTx = PrevTx(Script(q), i)
                     /\ rows'[Script(q)[i].tx].delay = Delta(Script(q), i) - PrevDelta(Script(q), i)
            <4>1. CASE Script(q)[i].tx = e.tx
                <5>1. asked \in [Requests -> Scripts] /\ n \in 1 .. Len(Script(r))
                    BY <1>1, <1>4 DEF TypeOK
                <5>2. Script(q)[i].tx = Script(r)[n].tx
                    BY <1>4, <4>1
                <5>3. Script(q) = s /\ i = n
                    BY <5>1, <5>2, ScriptsAreOwn
                <5> QED BY <1>4, <1>6, <2>3, <2>4, <4>1, <5>3
            <4>2. CASE Script(q)[i].tx # e.tx
                <5>1. Script(q)[i].tx \in Stored
                    BY <2>6, <3>3, <4>2
                <5> QED BY <1>1, <2>6, <5>1 DEF RowsOK
            <4> QED BY <4>1, <4>2
        <3>4. \A q \in Requests : Script(q)' = Script(q)
            BY <1>2, ScriptsStay
        <3> QED BY <3>1, <3>2, <3>3, <3>4 DEF RowsOK, PrevTx, PrevDelta, Delta, Nlt0
    <2>14. OrchOK'
        <3>1. orch.txs \subseteq Stored
            BY <1>1 DEF OrchOK, Activated
        <3>2. Activated(orch.height) \subseteq Activated(orch.height)'
            BY <1>2, <2>6 DEF Activated
        <3>3. orch.step = "push" => orch.tx \in Stored /\ rows'[orch.tx] = rows[orch.tx]
            BY <1>1, <2>6, <3>1 DEF OrchOK
        <3>4. orch.cursor < nextId => orch.cursor < nextId'
            BY <1>1, <2>1 DEF TypeOK
        <3> QED BY <1>1, <1>2, <3>2, <3>3, <3>4 DEF OrchOK
    <2>15. NothingLost'
        <3> SUFFICES ASSUME NEW q \in Requests, req'[q].step = "done", NEW i \in 1 .. Len(Script(q))
                     PROVE  Safe(Script(q)[i].tx)
            <4>1. \A u \in Requests : Script(u)' = Script(u) /\ DOMAIN Script(u) = 1 .. Len(Script(u))
                BY <1>1, <1>2, ScriptsStay, EntryTypes
            <4>2. \A u \in Requests : \A i \in 1 .. Len(Script(u)) : Script(u)[i].tx \in Txs
                BY <1>1, EntryTypes
            <4> QED BY <2>11, <4>1, <4>2 DEF NothingLost, Safe
        <3>1. q # r /\ req[q].step = "done"
            BY <2>8, <2>9
        <3>2. Script(q) \in Seq(ClientEntry)
            BY <1>1, EntryTypes
        <3> QED BY <3>1, <3>2 DEF PushInv, NothingLost, Safe
    <2> QED BY <1>7, <2>10, <2>12, <2>13, <2>14, <2>15 DEF PushInv
<1> QED
    <2>1. ASSUME faults' = faults + 1 PROVE faults' \in Nat
        BY <1>1, <2>1
    <2> QED BY <1>1, <1>8, <1>9, <2>1 DEF StoreEntry

LEMMA SchedulerCrashKeeps ==
    ASSUME PushInv, SchedulerCrash
    PROVE  PushInv'
<1>1. /\ TypeOK /\ BitcoindOK /\ req \in [Requests -> Call] /\ height \in Nat /\ crashes \in Nat
    BY ConfigAssumption DEF PushInv, TypeOK
<1>2. /\ UNCHANGED <<height, minedAt, mempool, up, reorgs, asked, inbox, rows, nextId, orch>>
      /\ UNCHANGED <<faults, sentAt, early, rejected, unsent, missed>>
      /\ req' = [r \in Requests |-> IF req[r].step \in {"first", "store"} THEN Over("failed")
                                    ELSE req[r]]
      /\ crashes' = crashes + 1
    BY DEF SchedulerCrash, outside, ghosts
<1>3. Over("failed") \in Call /\ Over("failed").step = "failed"
    BY DEF Over, Call, NoId
<1>4. req' \in [Requests -> Call] /\ \A r \in Requests : req'[r] = req[r] \/ req'[r].step = "failed"
    BY <1>1, <1>2, <1>3
<1>5. TypeOK'
    BY <1>1, <1>2, <1>4 DEF TypeOK
<1>6. Later /\ BitcoindOK'
    BY <1>1, <1>2 DEF Later, BitcoindOK
<1> QED BY <1>2, <1>4, <1>5, <1>6, QuietStep

-----------------------------------------------------------------------------
(* The orchestrator *)

Orch == [step : {"idle", "select", "loop", "push", "shift", "delete", "down"},
         height : Nat, txs : SUBSET Txs, tx : Txs \cup {NoTx}, pushed : BOOLEAN,
         shift : Nat, cursor : Nat]

LEMMA WaitingTypes ==
    /\ OrchIdle \in Orch /\ OrchDown \in Orch
    /\ \A h \in Nat : [OrchIdle EXCEPT !.step = "select", !.height = h] \in Orch
<1>1. OrchIdle \in Orch
    BY DEF OrchIdle, Orch, NoId
<1>2. OrchDown \in Orch
    BY DEF OrchDown, OrchIdle, Orch, NoId
<1>3. \A h \in Nat : [OrchIdle EXCEPT !.step = "select", !.height = h] \in Orch
    BY DEF OrchIdle, Orch, NoId
<1> QED BY <1>1, <1>2, <1>3

\* The steps of the orchestrator that change its own locals only
LEMMA OnlyOrch ==
    ASSUME PushInv, orch' \in Orch, OrchOK', faults' \in Nat, crashes' \in Nat, missed' \in BOOLEAN,
           inbox' \in Seq(Nat), \A i \in 1 .. Len(inbox') : inbox'[i] <= height,
           UNCHANGED <<outside, rows, nextId, req, ghosts>>
    PROVE  PushInv'
<1>1. /\ TypeOK /\ BitcoindOK /\ height \in Nat
      /\ UNCHANGED <<height, minedAt, mempool, up, reorgs, asked, sentAt, early, rejected, unsent>>
    BY ConfigAssumption DEF PushInv, TypeOK, outside, ghosts
<1>2. TypeOK'
    BY <1>1 DEF TypeOK, Orch
<1>3. Later /\ BitcoindOK'
    BY <1>1 DEF Later, BitcoindOK
<1> QED BY <1>1, <1>2, <1>3, QuietStep

LEMMA WaitingKeeps ==
    ASSUME PushInv, OnBlockHash \/ OrchestratorCrash \/ Start
    PROVE  PushInv'
<1>1. /\ TypeOK /\ BitcoindOK /\ height \in Nat /\ inbox \in Seq(Nat)
      /\ faults \in Nat /\ crashes \in Nat /\ missed \in BOOLEAN
      /\ \A i \in 1 .. Len(inbox) : inbox[i] <= height
    BY ConfigAssumption DEF PushInv, TypeOK, BitcoindOK
<1>2. CASE OnBlockHash
    <2>1. /\ inbox # <<>> /\ inbox' = Tail(inbox) /\ missed' \in BOOLEAN
          /\ \/ orch' = OrchIdle
             \/ orch' = [OrchIdle EXCEPT !.step = "select", !.height = Head(inbox)]
          /\ UNCHANGED <<outside, rows, nextId, req, crashes, faults, ghosts>>
        BY <1>1, <1>2 DEF OnBlockHash
    <2>2. /\ Head(inbox) \in Nat /\ Head(inbox) <= height /\ inbox' \in Seq(Nat)
          /\ \A i \in 1 .. Len(inbox') : inbox'[i] <= height
        <3>1. /\ Len(inbox) \in Nat /\ Len(inbox) > 0 /\ Head(inbox) = inbox[1] /\ inbox' \in Seq(Nat)
              /\ Len(inbox') = Len(inbox) - 1 /\ \A i \in 1 .. Len(inbox') : inbox'[i] = inbox[i + 1]
            BY <1>1, <2>1, HeadTailProperties
        <3>2. 1 \in 1 .. Len(inbox) /\ \A i \in 1 .. Len(inbox') : i + 1 \in 1 .. Len(inbox)
            BY <3>1
        <3>3. \A i \in 1 .. Len(inbox) : inbox[i] \in Nat
            BY <1>1
        <3> QED BY <1>1, <3>1, <3>2, <3>3
    <2>3. orch' \in Orch /\ OrchOK'
        <3>1. height' = height
            BY <2>1 DEF outside
        <3>2. CASE orch' = OrchIdle
            <4>1. orch'.step = "idle" /\ orch'.height = 0 /\ orch'.txs = {}
                BY <3>2 DEF OrchIdle
            <4>2. OrchOK'
                BY <1>1, <3>1, <4>1 DEF OrchOK
            <4> QED BY <3>2, <4>2, WaitingTypes
        <3>3. CASE orch' = [OrchIdle EXCEPT !.step = "select", !.height = Head(inbox)]
            <4>1. orch' \in Orch
                BY <1>1, <2>2, <3>3, WaitingTypes
            <4>2. orch'.step = "select" /\ orch'.height = Head(inbox) /\ orch'.txs = {}
                BY <3>3 DEF OrchIdle
            <4> QED BY <2>2, <3>1, <4>1, <4>2 DEF OrchOK
        <3> QED BY <2>1, <3>2, <3>3
    <2> QED BY <1>1, <2>1, <2>2, <2>3, OnlyOrch
<1>3. CASE OrchestratorCrash
    <2>1. /\ inbox' = <<>> /\ missed' = TRUE /\ orch' = OrchDown /\ crashes' = crashes + 1
          /\ UNCHANGED <<outside, rows, nextId, req, faults, ghosts>>
        BY <1>3 DEF OrchestratorCrash
    <2>2. missed' \in BOOLEAN
        BY <2>1, Zenon
    <2>3. orch' \in Orch
        BY <1>1, <2>1, WaitingTypes
    <2>4. OrchOK'
        <3>1. height' = height /\ orch'.step = "down" /\ orch'.height = 0 /\ orch'.txs = {}
            BY <2>1 DEF outside, OrchDown, OrchIdle
        <3> QED BY <1>1, <3>1 DEF OrchOK
    <2>5. inbox' \in Seq(Nat) /\ Len(inbox') = 0 /\ crashes' \in Nat /\ faults' \in Nat
        BY <1>1, <2>1
    <2>6. \A i \in 1 .. Len(inbox') : inbox'[i] <= height
        BY <2>5
    <2> QED BY <2>1, <2>2, <2>3, <2>4, <2>5, <2>6, OnlyOrch
<1>4. CASE Start
    <2>1. /\ orch' = OrchIdle
          /\ UNCHANGED <<outside, inbox, rows, nextId, req, crashes, faults, ghosts, missed>>
        BY <1>4 DEF Start
    <2>2. orch' \in Orch
        BY <1>1, <2>1, WaitingTypes
    <2>3. OrchOK'
        <3>1. height' = height /\ orch'.step = "idle" /\ orch'.height = 0 /\ orch'.txs = {}
            BY <2>1 DEF outside, OrchIdle
        <3> QED BY <1>1, <3>1 DEF OrchOK
    <2> QED BY <1>1, <2>1, <2>2, <2>3, OnlyOrch
<1> QED BY <1>2, <1>3, <1>4

\* A transaction whose parent has enough confirmations was sent long enough after it.
LEMMA ReadyIsLater ==
    ASSUME PushInv, NEW t \in Stored, rows[t].parentTx # NoTx, IsReady(t)
    PROVE  /\ rows[t].parentTx \in Txs /\ sentAt[rows[t].parentTx] # 0
           /\ sentAt[rows[t].parentTx] + rows[t].delay <= height
<1> DEFINE p == rows[t].parentTx
           n == Confirmations(p)
<1>1. TypeOK /\ BitcoindOK /\ height \in Nat /\ t \in Txs
    BY ConfigAssumption DEF PushInv, TypeOK, Stored
<1>2. rows[t] \in Row
    BY <1>1 DEF TypeOK
<1>3. p \in Txs /\ rows[t].delay \in Nat
    BY <1>2 DEF Row
<1>4. n > 0 /\ n >= rows[t].delay
    BY DEF IsReady
<1>5. minedAt[p] # 0 /\ n = height - minedAt[p] + 1
    <2>1. minedAt[p] # 0
        BY <1>4 DEF Confirmations
    <2> QED BY <2>1 DEF Confirmations
<1>6. minedAt[p] \in Nat /\ sentAt[p] \in Nat /\ sentAt[p] # 0 /\ sentAt[p] < minedAt[p]
    BY <1>1, <1>3, <1>5 DEF TypeOK, BitcoindOK
<1> HIDE DEF n
<1> QED BY <1>1, <1>3, <1>4, <1>5, <1>6

LEMMA LoopKeeps ==
    ASSUME PushInv, SelectActivated \/ (\E t \in Txs : NextActivated(t)) \/ EndLoop \/ EndShift
    PROVE  PushInv'
<1>1. /\ TypeOK /\ OrchOK /\ height \in Nat /\ inbox \in Seq(Nat) /\ orch \in Orch
      /\ faults \in Nat /\ crashes \in Nat /\ missed \in BOOLEAN
      /\ \A i \in 1 .. Len(inbox) : inbox[i] <= height
    BY ConfigAssumption DEF PushInv, TypeOK, BitcoindOK, Orch
<1>2. orch.height \in Nat /\ orch.txs \subseteq Stored /\ orch.height <= height
    BY <1>1 DEF OrchOK, Orch, Activated
<1>3. ASSUME UNCHANGED <<outside, inbox, rows, nextId, req, crashes, ghosts>>,
             faults' = faults \/ faults' = faults + 1, missed' \in BOOLEAN,
             orch' \in Orch, orch' = OrchIdle \/ OrchOK'
      PROVE  PushInv'
    <2>1. OrchOK'
        <3>1. height' = height /\ OrchIdle.step = "idle" /\ OrchIdle.height = 0 /\ OrchIdle.txs = {}
            BY <1>3 DEF outside, OrchIdle
        <3> QED BY <1>1, <1>3, <3>1 DEF OrchOK
    <2>2. faults' \in Nat
        BY <1>1, <1>3
    <2> QED BY <1>1, <1>3, <2>1, <2>2, OnlyOrch
<1>4. CASE SelectActivated
    <2>1. /\ orch.step = "select"
          /\ UNCHANGED <<outside, inbox, rows, nextId, req, crashes, ghosts>>
          /\ faults' = faults \/ faults' = faults + 1
          /\ \/ orch' = OrchIdle
             \/ orch' = [orch EXCEPT !.step = "loop", !.txs = Activated(orch.height), !.pushed = FALSE]
        BY <1>4 DEF SelectActivated
    <2>2. missed' \in BOOLEAN
        BY <1>1, <1>4 DEF SelectActivated
    <2>3. CASE orch' = OrchIdle
        BY <1>3, <2>1, <2>2, <2>3, WaitingTypes
    <2>4. CASE orch' = [orch EXCEPT !.step = "loop", !.txs = Activated(orch.height), !.pushed = FALSE]
        <3>1. Activated(orch.height) \subseteq Txs
            BY DEF Activated, Stored
        <3>2. orch' \in Orch
            BY <1>1, <2>4, <3>1 DEF Orch
        <3>3. orch'.step = "loop" /\ orch'.txs = Activated(orch.height) /\ orch'.height = orch.height
            BY <1>1, <2>4 DEF Orch
        <3>4. height' = height /\ Activated(orch.height)' = Activated(orch.height)
            BY <2>1, <3>3 DEF outside, Activated, Stored
        <3>5. OrchOK'
            BY <1>2, <3>3, <3>4 DEF OrchOK
        <3> QED BY <1>3, <2>1, <2>2, <3>2, <3>5
    <2> QED BY <2>1, <2>3, <2>4
<1>5. ASSUME NEW t \in Txs, NextActivated(t) PROVE PushInv'
    <2>1. /\ orch.step = "loop" /\ t \in orch.txs
          /\ UNCHANGED <<outside, inbox, rows, nextId, req, crashes, faults, ghosts>>
          /\ \/ /\ rows[t].parentTx # NoTx => IsReady(t)
                /\ orch' = [orch EXCEPT !.step = "push", !.tx = t]
             \/ orch' = [orch EXCEPT !.txs = @ \ {t}]
        BY <1>5 DEF NextActivated
    <2>2. missed' \in BOOLEAN
        BY <1>1, <1>5 DEF NextActivated
    <2>3. height' = height /\ Activated(orch.height) \subseteq {u \in Txs : u \in Activated(orch.height)}
        BY <2>1 DEF outside, Activated, Stored
    <2>4. CASE /\ rows[t].parentTx # NoTx => IsReady(t)
               /\ orch' = [orch EXCEPT !.step = "push", !.tx = t]
        <3>1. orch' \in Orch
            BY <1>1, <2>4 DEF Orch
        <3>2. orch'.step = "push" /\ orch'.tx = t /\ orch'.txs = orch.txs /\ orch'.height = orch.height
            BY <1>1, <2>4 DEF Orch
        <3>3. Activated(orch.height)' = Activated(orch.height)
            BY <2>1, <3>2 DEF Activated, Stored
        <3>4. rows[t].parentTx # NoTx =>
                sentAt[rows[t].parentTx] # 0 /\ sentAt[rows[t].parentTx] + rows[t].delay <= height
            BY <1>2, <2>1, <2>4, ReadyIsLater
        <3>5. sentAt' = sentAt /\ rows' = rows
            BY <2>1 DEF ghosts
        <3>6. OrchOK'
            BY <1>1, <2>1, <2>3, <3>2, <3>3, <3>4, <3>5 DEF OrchOK
        <3> QED BY <1>3, <2>1, <2>2, <3>1, <3>6
    <2>5. CASE orch' = [orch EXCEPT !.txs = @ \ {t}]
        <3>1. orch' \in Orch
            BY <1>1, <2>5 DEF Orch
        <3>2. orch'.step = "loop" /\ orch'.txs \subseteq orch.txs /\ orch'.height = orch.height
            BY <1>1, <2>1, <2>5 DEF Orch
        <3>3. Activated(orch.height)' = Activated(orch.height)
            BY <2>1, <3>2 DEF Activated, Stored
        <3>4. OrchOK'
            BY <1>1, <2>3, <3>2, <3>3 DEF OrchOK
        <3> QED BY <1>3, <2>1, <2>2, <3>1, <3>4
    <2> QED BY <2>1, <2>4, <2>5
<1>6. CASE EndLoop
    <2>1. /\ UNCHANGED <<outside, inbox, rows, nextId, req, crashes, faults, ghosts, missed>>
          /\ orch' = OrchIdle \/ orch' = [orch EXCEPT !.step = "select"]
          /\ orch.txs = {}
        BY <1>6 DEF EndLoop
    <2>2. CASE orch' = OrchIdle
        BY <1>1, <1>3, <2>1, <2>2, WaitingTypes
    <2>3. CASE orch' = [orch EXCEPT !.step = "select"]
        <3>1. orch' \in Orch
            BY <1>1, <2>3 DEF Orch
        <3>2. orch'.step = "select" /\ orch'.txs = {} /\ orch'.height = orch.height /\ height' = height
            BY <1>1, <2>1, <2>3 DEF Orch, outside
        <3>3. OrchOK'
            BY <1>2, <3>2 DEF OrchOK
        <3> QED BY <1>1, <1>3, <2>1, <3>1, <3>3
    <2> QED BY <2>1, <2>2, <2>3
<1>7. CASE EndShift
    <2>1. /\ UNCHANGED <<outside, inbox, rows, nextId, req, crashes, ghosts, missed>>
          /\ faults' = faults \/ faults' = faults + 1
          /\ orch' = [orch EXCEPT !.step = "delete", !.cursor = NoId, !.shift = 0]
          /\ orch.step = "shift"
        BY <1>7 DEF EndShift
    <2>2. orch' \in Orch
        BY <1>1, <2>1 DEF Orch, NoId
    <2>3. /\ orch'.step = "delete" /\ orch'.txs = orch.txs /\ orch'.height = orch.height
          /\ orch'.tx = orch.tx
        BY <1>1, <2>1 DEF Orch
    <2>4. Activated(orch.height)' = Activated(orch.height) /\ height' = height
        BY <2>1, <2>3 DEF Activated, Stored, outside
    <2>5. sentAt' = sentAt /\ rejected' = rejected /\ unsent' = unsent
        BY <2>1 DEF ghosts
    <2>6. OrchOK'
        BY <1>1, <2>1, <2>3, <2>4, <2>5 DEF OrchOK
    <2> QED BY <1>1, <1>3, <2>1, <2>2, <2>6
<1> QED BY <1>4, <1>5, <1>6, <1>7

LEMMA PushScheduledKeeps ==
    ASSUME PushInv, PushScheduled
    PROVE  PushInv'
<1> DEFINE t == orch.tx
<1>1. /\ TypeOK /\ BitcoindOK /\ OrchOK /\ RowsOK /\ CallsOK /\ PushedInOrder /\ NeverEarly
      /\ height \in Nat /\ orch \in Orch
    BY ConfigAssumption DEF PushInv, TypeOK, Orch
<1>2. /\ orch.step = "push"
      /\ UNCHANGED <<height, minedAt, up, reorgs, asked, inbox, rows, nextId, req, crashes>>
    BY DEF PushScheduled
<1>3. t \in orch.txs /\ t \in Activated(orch.height) /\ t \in Stored /\ t \in Txs
    BY <1>1, <1>2 DEF OrchOK, Activated, Stored
<1>4. /\ orch.height \in Nat /\ orch.height <= height
      /\ rows[t].trigger \in Nat /\ rows[t].trigger <= orch.height /\ rows[t].id \in Nat
      /\ rows[t].delay \in Nat
    <2>1. rows[t] \in Row
        BY <1>1, <1>3 DEF TypeOK
    <2> QED BY <1>1, <1>3, <2>1 DEF Row, OrchOK, Orch, Activated
<1>5. height >= LockTime[t]
    <2>1. LockTime[t] \in Nat /\ rows[t].trigger >= LockTime[t]
        BY <1>1, <1>3, ConfigAssumption DEF RowsOK
    <2> QED BY <1>1, <1>4, <2>1
<1>6. \A q \in Requests : \A i \in 2 .. Len(Script(q)) :
        Script(q)[i].tx = t =>
          /\ sentAt[Script(q)[i - 1].tx] # 0
          /\ height >= sentAt[Script(q)[i - 1].tx]
                       + Script(q)[i].nlocktime - Script(q)[i - 1].nlocktime
    <2> SUFFICES ASSUME NEW q \in Requests, NEW i \in 2 .. Len(Script(q)), Script(q)[i].tx = t
                 PROVE  /\ sentAt[Script(q)[i - 1].tx] # 0
                        /\ height >= sentAt[Script(q)[i - 1].tx]
                                     + Script(q)[i].nlocktime - Script(q)[i - 1].nlocktime
        OBVIOUS
    <2> DEFINE s == Script(q)
    <2>1. i \in 1 .. Len(s) /\ i > 1 /\ i # 1 /\ i - 1 \in 1 .. Len(s) /\ 1 \in 1 .. Len(s)
        <3>1. Len(s) \in Nat
            BY <1>1, EntryTypes
        <3> QED BY <3>1
    <2>2. /\ s[i - 1].tx \in Txs /\ s[i - 1].nlocktime \in Nat /\ s[i].nlocktime \in Nat
          /\ s[1].nlocktime \in Nat
        BY <1>1, <2>1, EntryTypes
    <2>3. rows[t].parentTx = PrevTx(s, i) /\ rows[t].delay = Delta(s, i) - PrevDelta(s, i)
        BY <1>1, <1>3, <2>1 DEF RowsOK
    <2>4. rows[t].parentTx = s[i - 1].tx /\ rows[t].parentTx # NoTx
        BY <2>1, <2>2, <2>3, ConfigAssumption DEF PrevTx
    <2>5. rows[t].delay = s[i].nlocktime - s[i - 1].nlocktime
        BY <2>1, <2>2, <2>3 DEF PrevDelta, Delta, Nlt0
    <2>6. sentAt[s[i - 1].tx] # 0 /\ sentAt[s[i - 1].tx] + rows[t].delay <= height
        BY <1>1, <1>2, <2>4 DEF OrchOK
    <2>7. sentAt[s[i - 1].tx] \in Nat
        BY <1>1, <2>2 DEF TypeOK
    <2> QED BY <1>1, <2>2, <2>5, <2>6, <2>7
<1>7. /\ Later /\ BitcoindOK' /\ PushedInOrder' /\ NeverEarly'
      /\ mempool' \subseteq Txs /\ sentAt' \in [Txs -> Nat] /\ faults' \in Nat
      /\ early' \subseteq Txs /\ rejected' \subseteq Txs /\ unsent' \subseteq Txs
      /\ missed' \in BOOLEAN
      /\ orch' # OrchIdle => AfterPush(t) /\ (sentAt'[t] # 0 \/ t \in rejected' \cup unsent')
      /\ orch' = OrchIdle \/ AfterPush(t)
    <2>0. /\ mempool \subseteq Txs /\ sentAt \in [Txs -> Nat] /\ faults \in Nat
          /\ early \subseteq Txs /\ rejected \subseteq Txs /\ unsent \subseteq Txs
          /\ missed \in BOOLEAN
        BY <1>1 DEF TypeOK
    <2>1. CASE PushAccepted(t) /\ AfterPush(t) /\ UNCHANGED missed
        <3>1. /\ Later /\ BitcoindOK' /\ PushedInOrder' /\ NeverEarly' /\ UNCHANGED faults
              /\ sentAt' \in [Txs -> Nat] /\ mempool' \subseteq Txs /\ UNCHANGED <<early, rejected, unsent>>
              /\ sentAt'[t] # 0
            <4> HIDE DEF t
            <4> QED BY <1>2, <1>3, <1>6, <2>1, AcceptedKeeps
        <3> QED BY <2>0, <2>1, <3>1
    <2>2. CASE PushRejected(t) /\ AfterPush(t) /\ UNCHANGED missed
        <3>1. /\ Later /\ BitcoindOK' /\ PushedInOrder' /\ NeverEarly'
              /\ faults' \in Nat /\ rejected' \subseteq Txs /\ t \in rejected'
              /\ UNCHANGED <<mempool, sentAt, unsent, early>>
            <4> HIDE DEF t
            <4> QED BY <1>2, <1>3, <1>5, <2>2, RejectedKeeps
        <3> QED BY <2>0, <2>2, <3>1
    <2>3. CASE orch' = OrchIdle /\ missed' = TRUE /\ UNCHANGED <<mempool, faults, ghosts>>
        <3>1. missed' \in BOOLEAN
            BY <2>3, Zenon
        <3>2. UNCHANGED <<mempool, faults, sentAt, early, rejected, unsent>>
            BY <2>3 DEF ghosts
        <3>3. Later /\ BitcoindOK' /\ NeverEarly'
            BY <1>1, <1>2, <3>2 DEF Later, BitcoindOK, NeverEarly
        <3>4. PushedInOrder'
            BY <1>1, <1>2, <3>2, ScriptsStay DEF PushedInOrder
        <3> QED BY <2>0, <2>3, <3>1, <3>2, <3>3, <3>4
    <2>4. CASE /\ AfterPush(t) /\ UNCHANGED <<mempool, faults, missed, sentAt, early, rejected>>
               /\ unsent' = IF sentAt[t] = 0 THEN unsent \cup {t} ELSE unsent
        <3>1. Later /\ BitcoindOK' /\ NeverEarly'
            BY <1>1, <1>2, <2>4 DEF Later, BitcoindOK, NeverEarly
        <3>2. PushedInOrder'
            BY <1>1, <1>2, <2>4, ScriptsStay DEF PushedInOrder
        <3>3. unsent' \subseteq Txs /\ (sentAt'[t] # 0 \/ t \in unsent')
            BY <1>3, <2>0, <2>4
        <3> QED BY <2>0, <2>4, <3>1, <3>2, <3>3
    <2> QED BY <2>1, <2>2, <2>3, <2>4 DEF PushScheduled
<1>8. orch' \in Orch /\ OrchOK'
    <2>1. CASE orch' = OrchIdle
        <3>1. orch'.step = "idle" /\ orch'.height = 0 /\ orch'.txs = {}
            BY <2>1 DEF OrchIdle
        <3>2. OrchOK'
            BY <1>1, <1>2, <3>1 DEF OrchOK
        <3> QED BY <2>1, <3>2, WaitingTypes
    <2>2. CASE orch' # OrchIdle
        <3>1. AfterPush(t) /\ (sentAt'[t] # 0 \/ t \in rejected' \cup unsent')
            BY <1>7, <2>2
        <3>2. CASE orch' = [orch EXCEPT !.step = "delete"]
            <4>1. orch' \in Orch
                BY <1>1, <3>2 DEF Orch
            <4>2. /\ orch'.step = "delete" /\ orch'.txs = orch.txs /\ orch'.height = orch.height
                  /\ orch'.tx = orch.tx
                BY <1>1, <3>2 DEF Orch
            <4>3. Activated(orch.height)' = Activated(orch.height)
                BY <1>2, <4>2 DEF Activated, Stored
            <4>4. OrchOK'
                BY <1>1, <1>2, <1>3, <3>1, <4>2, <4>3 DEF OrchOK
            <4> QED BY <4>1, <4>4
        <3>3. CASE /\ rows[t].trigger < orch.height
                   /\ orch' = [orch EXCEPT !.step = "shift", !.shift = orch.height - rows[t].trigger,
                                           !.cursor = rows[t].id]
            <4>1. orch.height - rows[t].trigger \in Nat /\ orch.height - rows[t].trigger > 0
                BY <1>4, <3>3
            <4>2. orch' \in Orch
                BY <1>1, <1>4, <3>3, <4>1 DEF Orch
            <4>3. /\ orch'.step = "shift" /\ orch'.txs = orch.txs /\ orch'.height = orch.height
                  /\ orch'.tx = orch.tx /\ orch'.shift = orch.height - rows[t].trigger
                  /\ orch'.cursor = rows[t].id
                BY <1>1, <3>3 DEF Orch
            <4>4. Activated(orch.height)' = Activated(orch.height)
                BY <1>2, <4>3 DEF Activated, Stored
            <4>5. NoId < rows[t].id /\ rows[t].id < nextId' /\ rows[t].id # NoId
                BY <1>1, <1>2, <1>3, <1>4 DEF RowsOK, NoId
            <4>6. OrchOK'
                BY <1>1, <1>2, <1>3, <3>1, <4>1, <4>3, <4>4, <4>5 DEF OrchOK
            <4> QED BY <4>2, <4>6
        <3> QED BY <3>1, <3>2, <3>3 DEF AfterPush
    <2> QED BY <2>1, <2>2
<1>9. TypeOK'
    BY <1>1, <1>2, <1>7, <1>8 DEF TypeOK, Orch
<1>10. RowsOK' /\ CallsOK' /\ NothingLost'
    <2>1. UNCHANGED <<rows, nextId>>
        BY <1>2
    <2>2. /\ RowsOK' /\ \A q \in Requests : Begun(q) /\ req'[q] = req[q] => CallOK(q)'
          /\ (\A q \in Requests : req'[q].step = "done" => req[q].step = "done") => NothingLost'
        BY <1>7, <2>1, TableKept
    <2> QED BY <1>2, <2>2 DEF CallsOK, Begun
<1> QED BY <1>7, <1>8, <1>9, <1>10 DEF PushInv

\* A step of the orchestrator on the table that changes no id
LEMMA TableStep ==
    ASSUME PushInv, UNCHANGED <<outside, inbox, nextId, req, crashes, ghosts>>,
           faults' \in Nat, missed' \in BOOLEAN, rows' \in [Txs -> Row], orch' \in Orch,
           RowsOK', OrchOK',
           \A t \in Stored' : t \in Stored /\ rows'[t].id = rows[t].id,
           \A t \in Stored \ Stored' : sentAt[t] # 0 \/ t \in rejected \cup unsent
    PROVE  PushInv'
<1>1. /\ TypeOK /\ BitcoindOK /\ CallsOK /\ NothingLost /\ height \in Nat /\ nextId \in Nat
      /\ UNCHANGED <<height, minedAt, mempool, up, reorgs, asked, sentAt, early, rejected, unsent>>
    BY ConfigAssumption DEF PushInv, TypeOK, outside, ghosts
<1>2. TypeOK'
    BY <1>1 DEF TypeOK, Orch
<1>3. BitcoindOK' /\ NeverEarly'
    BY <1>1 DEF BitcoindOK, PushInv, NeverEarly
<1>4. PushedInOrder'
    BY <1>1, ScriptsStay DEF PushInv, PushedInOrder
<1>5. \A t \in Txs : Safe(t) => Safe(t)'
    BY <1>1 DEF Safe
<1>6. CallsOK'
    <2> SUFFICES ASSUME NEW r \in Requests, Begun(r) PROVE CallOK(r)'
        BY DEF CallsOK, Begun
    <2>1. CallOK(r)
        BY <1>1 DEF CallsOK
    <2>2. \A t \in Txs : rows'[t] # NoRow => rows[t] # NoRow /\ rows'[t].id = rows[t].id
        BY DEF Stored
    <2>3. /\ height' \in Nat /\ height <= height' /\ nextId' \in Nat /\ nextId <= nextId'
          /\ req'[r] = req[r] /\ asked' = asked /\ \A t \in Txs : sentAt[t] # 0 => sentAt'[t] # 0
        BY <1>1
    <2> QED BY <1>1, <1>5, <2>1, <2>2, <2>3, CallKept
<1>7. NothingLost'
    <2> SUFFICES ASSUME NEW q \in Requests, req[q].step = "done", NEW i \in 1 .. Len(Script(q))
                 PROVE  Safe(Script(q)[i].tx)
        <3>1. \A u \in Requests : Script(u)' = Script(u) /\ DOMAIN Script(u) = 1 .. Len(Script(u))
            BY <1>1, ScriptsStay, EntryTypes
        <3>2. \A u \in Requests : \A i \in 1 .. Len(Script(u)) : Script(u)[i].tx \in Txs
            BY <1>1, EntryTypes
        <3> QED BY <1>5, <3>1, <3>2 DEF NothingLost, Safe
    <2>1. Script(q) \in Seq(ClientEntry)
        BY <1>1, EntryTypes
    <2> QED BY <1>1, <2>1 DEF NothingLost, Safe
<1> QED BY <1>2, <1>3, <1>4, <1>6, <1>7 DEF PushInv

LEMMA ShiftNextKeeps ==
    ASSUME PushInv, ShiftNext
    PROVE  PushInv'
<1>1. /\ TypeOK /\ OrchOK /\ RowsOK /\ orch \in Orch /\ rows \in [Txs -> Row]
      /\ faults \in Nat /\ missed \in BOOLEAN
    BY DEF PushInv, TypeOK, Orch
<1>2. PICK t \in Stored :
        /\ rows[t].parent = orch.cursor
        /\ rows' = [rows EXCEPT ![t] = [rows[t] EXCEPT !.trigger = rows[t].trigger + orch.shift]]
        /\ orch' = [orch EXCEPT !.cursor = rows[t].id]
    <2>1. PICK t \in NextScheduledTransactions(orch.cursor) :
            /\ UpdateTrigger(t, rows[t].trigger + orch.shift)
            /\ orch' = [orch EXCEPT !.cursor = rows[t].id]
        BY DEF ShiftNext
    <2>2. rows' = [rows EXCEPT ![t] = [rows[t] EXCEPT !.trigger = rows[t].trigger + orch.shift]]
        BY <1>1, <2>1 DEF UpdateTrigger
    <2> QED BY <2>1, <2>2 DEF NextScheduledTransactions
<1>3. /\ orch.step = "shift" /\ orch.cursor # NoId /\ orch.shift \in Nat /\ orch.shift > 0
      /\ UNCHANGED <<outside, inbox, nextId, req, crashes, faults, ghosts, missed>>
    BY <1>1 DEF ShiftNext, OrchOK, Orch
<1>4. t \in Txs /\ rows[t] \in Row
    BY <1>1 DEF Stored
<1>5. rows[t].id \in Nat /\ rows[t].trigger \in Nat
    BY <1>4 DEF Row
<1> DEFINE row == [rows[t] EXCEPT !.trigger = rows[t].trigger + orch.shift]
<1>6. /\ row \in Row /\ row.id = rows[t].id /\ row.parent = rows[t].parent
      /\ row.parentTx = rows[t].parentTx /\ row.delay = rows[t].delay
      /\ row.trigger = rows[t].trigger + orch.shift
    BY <1>3, <1>4, <1>5 DEF Row
<1>7. rows' = [rows EXCEPT ![t] = row]
    BY <1>2
<1> HIDE DEF row
<1>8. /\ rows' \in [Txs -> Row] /\ rows'[t] = row /\ \A u \in Txs \ {t} : rows'[u] = rows[u]
    BY <1>1, <1>4, <1>6, <1>7
<1>9. NoId < rows[t].id /\ rows[t].id < nextId /\ NoId = 0
    BY <1>1 DEF RowsOK, NoId
<1>10. Stored' = Stored
    <2>1. row # NoRow
        BY <1>5, <1>6, <1>9 DEF NoRow
    <2> QED BY <1>4, <1>8, <2>1 DEF Stored
<1>11. \A u \in Stored : /\ rows'[u].id = rows[u].id /\ rows'[u].parent = rows[u].parent
                          /\ rows'[u].parentTx = rows[u].parentTx /\ rows'[u].delay = rows[u].delay
    BY <1>6, <1>8 DEF Stored
<1>12. \A u \in Stored : rows'[u].trigger >= rows[u].trigger /\ (u # t => rows'[u].trigger = rows[u].trigger)
    <2>1. \A u \in Stored : rows[u].trigger \in Nat /\ u \in Txs
        BY <1>1 DEF Stored, Row
    <2> QED BY <1>3, <1>5, <1>6, <1>8, <2>1
<1>13. RowsOK'
    <2>1. \A u \in Stored : rows'[u].trigger >= LockTime[u]
        <3>1. \A u \in Stored : rows[u].trigger \in Nat /\ rows'[u].trigger \in Nat /\ LockTime[u] \in Nat
            BY <1>1, <1>8, ConfigAssumption DEF Stored, Row
        <3> QED BY <1>1, <1>12, <3>1 DEF RowsOK
    <2>2. \A u \in Stored :
            /\ NoId < rows'[u].id /\ rows'[u].id < nextId' /\ rows'[u].parent < rows'[u].id
            /\ rows'[u].parent # NoId =>
                 rows'[u].parentTx \in Stored /\ rows'[rows'[u].parentTx].id = rows'[u].parent
        BY <1>1, <1>3, <1>11 DEF RowsOK
    <2>3. \A u, v \in Stored : rows'[u].id = rows'[v].id => u = v
        BY <1>1, <1>11 DEF RowsOK
    <2>4. \A r \in Requests : Script(r)' = Script(r)
        BY <1>3, ScriptsStay DEF outside
    <2>5. \A r \in Requests : \A i \in 1 .. Len(Script(r)) :
            Script(r)[i].tx \in Stored =>
              /\ rows'[Script(r)[i].tx].parentTx = PrevTx(Script(r), i)
              /\ rows'[Script(r)[i].tx].delay = Delta(Script(r), i) - PrevDelta(Script(r), i)
        BY <1>1, <1>11 DEF RowsOK
    <2> QED BY <1>10, <2>1, <2>2, <2>3, <2>4, <2>5 DEF RowsOK, PrevTx, PrevDelta, Delta, Nlt0
<1>14. orch' \in Orch
    BY <1>1, <1>2, <1>5 DEF Orch
<1>15. OrchOK'
    <2>1. /\ orch'.step = "shift" /\ orch'.height = orch.height /\ orch'.txs = orch.txs
          /\ orch'.tx = orch.tx /\ orch'.shift = orch.shift /\ orch'.cursor = rows[t].id
        BY <1>1, <1>2, <1>3 DEF Orch
    <2>2. orch.txs \subseteq Activated(orch.height)'
        <3> SUFFICES ASSUME NEW u \in orch.txs
                     PROVE  u \in Stored' /\ rows'[u].trigger <= orch.height /\ rows'[u].parent = NoId
            BY <2>1 DEF Activated
        <3>1. u \in Stored /\ rows[u].trigger <= orch.height /\ rows[u].parent = NoId
            BY <1>1 DEF OrchOK, Activated
        <3>2. u # t
            BY <1>2, <1>3, <3>1
        <3> QED BY <1>10, <1>11, <1>12, <3>1, <3>2
    <2>3. UNCHANGED <<height, nextId, sentAt, rejected, unsent>>
        BY <1>3 DEF outside, ghosts
    <2> QED BY <1>1, <1>3, <1>9, <2>1, <2>2, <2>3 DEF OrchOK
<1> QED BY <1>1, <1>3, <1>8, <1>10, <1>11, <1>13, <1>14, <1>15, TableStep

\* A row that is deleted, and the row whose parent it was
LEMMA DeletedRow ==
    ASSUME PushInv, NEW t \in Stored, DeleteRow(t)
    PROVE  /\ rows' \in [Txs -> Row] /\ Stored' = Stored \ {t}
           /\ \A u \in Stored' :
                /\ u \in Stored /\ u \in Txs /\ u # t /\ rows'[u].id = rows[u].id
                /\ rows'[u].parentTx = rows[u].parentTx
                /\ rows'[u].delay = rows[u].delay /\ rows'[u].trigger = rows[u].trigger
                /\ rows'[u].parent = IF rows[u].parent = rows[t].id THEN NoId ELSE rows[u].parent
<1>0. RowsOK /\ rows \in [Txs -> Row] /\ t \in Txs /\ rows[t] # NoRow
    BY DEF PushInv, TypeOK, Stored
<1>1. rows' = [u \in Txs |-> IF u = t THEN NoRow ELSE NullParentID(rows[u], rows[t].id)]
    BY <1>0 DEF DeleteRow
<1>2. rows[t].id \in Nat /\ rows[t].id > 0
    BY <1>0 DEF RowsOK, NoId, Row
<1>3. /\ rows'[t] = NoRow
      /\ \A u \in Txs \ {t} : rows'[u] = NullParentID(rows[u], rows[t].id)
    BY <1>0, <1>1
<1>4. ASSUME NEW u \in Txs
      PROVE  LET row == NullParentID(rows[u], rows[t].id)
             IN  /\ row \in Row /\ row.id = rows[u].id /\ row.parentTx = rows[u].parentTx
                 /\ row.delay = rows[u].delay /\ row.trigger = rows[u].trigger
                 /\ row.parent = IF rows[u].parent = rows[t].id THEN NoId ELSE rows[u].parent
    <2>1. rows[u] \in Row
        BY <1>0
    <2>2. CASE rows[u].parent = rows[t].id
        BY <2>1, <2>2 DEF NullParentID, Row, NoId
    <2>3. CASE rows[u].parent # rows[t].id
        BY <2>1, <2>3 DEF NullParentID
    <2> QED BY <2>2, <2>3
<1>5. NoRow \in Row
    BY DEF NoRow, Row, NoId
<1>6. rows' \in [Txs -> Row]
    BY <1>0, <1>1, <1>4, <1>5
<1>7. Stored' = Stored \ {t}
    <2>1. \A u \in Txs \ {t} : rows[u] = NoRow => rows'[u] = NoRow
        BY <1>2, <1>3 DEF NullParentID, NoRow, NoId
    <2>2. \A u \in Stored \ {t} : rows'[u] # NoRow
        <3>1. \A u \in Stored : rows[u].id \in Nat /\ rows[u].id > 0 /\ u \in Txs
            BY <1>0 DEF RowsOK, Stored, NoId, Row
        <3> QED BY <1>3, <1>4, <3>1 DEF NoRow, NoId
    <2> QED BY <1>0, <1>3, <2>1, <2>2 DEF Stored
<1>8. \A u \in Stored' :
        /\ u \in Stored /\ u \in Txs /\ u # t /\ rows'[u].id = rows[u].id
        /\ rows'[u].parentTx = rows[u].parentTx
        /\ rows'[u].delay = rows[u].delay /\ rows'[u].trigger = rows[u].trigger
        /\ rows'[u].parent = IF rows[u].parent = rows[t].id THEN NoId ELSE rows[u].parent
    BY <1>3, <1>4, <1>7 DEF Stored
<1> QED BY <1>6, <1>7, <1>8

LEMMA DeleteScheduledKeeps ==
    ASSUME PushInv, DeleteScheduled
    PROVE  PushInv'
<1> DEFINE t == orch.tx
<1>1. /\ TypeOK /\ OrchOK /\ RowsOK /\ orch \in Orch /\ rows \in [Txs -> Row]
      /\ faults \in Nat /\ missed \in BOOLEAN
    BY DEF PushInv, TypeOK, Orch
<1>2. /\ orch.step = "delete"
      /\ UNCHANGED <<outside, inbox, nextId, req, crashes, ghosts>>
    BY DEF DeleteScheduled
<1>3. /\ t \in orch.txs /\ t \in Stored /\ t \in Txs /\ rows[t] # NoRow
      /\ sentAt[t] # 0 \/ t \in rejected \cup unsent
    BY <1>1, <1>2 DEF OrchOK, Activated, Stored
<1>4. UNCHANGED <<height, nextId, asked, sentAt, rejected, unsent>>
    BY <1>2 DEF outside, ghosts
<1>5. ASSUME NEW b \in BOOLEAN,
             orch' = [orch EXCEPT !.step = "loop", !.txs = @ \ {t}, !.tx = NoTx, !.pushed = b],
             \A u \in orch.txs \ {t} : u \in Activated(orch.height)'
      PROVE  orch' \in Orch /\ OrchOK'
    <2>1. orch' \in Orch
        BY <1>1, <1>5 DEF Orch
    <2>2. orch'.step = "loop" /\ orch'.height = orch.height /\ orch'.txs = orch.txs \ {t}
        BY <1>1, <1>5 DEF Orch
    <2>3. orch'.txs \subseteq Activated(orch.height)'
        BY <1>5, <2>2
    <2> QED BY <1>1, <1>4, <2>1, <2>2, <2>3 DEF OrchOK
<1>6. CASE /\ orch' = [orch EXCEPT !.step = "loop", !.txs = @ \ {t}, !.tx = NoTx]
           /\ faults' = faults + 1 /\ missed' = TRUE /\ UNCHANGED rows
    <2>1. orch' = [orch EXCEPT !.step = "loop", !.txs = @ \ {t}, !.tx = NoTx, !.pushed = orch.pushed]
        BY <1>1, <1>6 DEF Orch
    <2>2. orch.pushed \in BOOLEAN
        BY <1>1 DEF Orch
    <2>3. orch'.height = orch.height
        BY <1>1, <1>6 DEF Orch
    <2>4. \A u \in orch.txs \ {t} : u \in Activated(orch.height)'
        BY <1>1, <1>6, <2>3 DEF OrchOK, Activated, Stored
    <2>5. orch' \in Orch /\ OrchOK'
        BY <1>5, <2>1, <2>2, <2>4
    <2>6. missed' \in BOOLEAN
        BY <1>6, Zenon
    <2>7. faults' \in Nat
        BY <1>1, <1>6
    <2>8. RowsOK'
        BY <1>1, <1>4, <1>6, ScriptsStay DEF RowsOK, Stored, PrevTx, PrevDelta, Delta, Nlt0
    <2>9. Stored' = Stored
        BY <1>6 DEF Stored
    <2> QED BY <1>1, <1>2, <1>6, <2>5, <2>6, <2>7, <2>8, <2>9, TableStep
<1>7. CASE /\ DeleteRow(t)
           /\ orch' = [orch EXCEPT !.step = "loop", !.txs = @ \ {t}, !.tx = NoTx, !.pushed = TRUE]
           /\ UNCHANGED <<faults, missed>>
    <2>1. /\ rows' \in [Txs -> Row] /\ Stored' = Stored \ {t}
          /\ \A u \in Stored' :
               /\ u \in Stored /\ u \in Txs /\ u # t /\ rows'[u].id = rows[u].id
               /\ rows'[u].parentTx = rows[u].parentTx
               /\ rows'[u].delay = rows[u].delay /\ rows'[u].trigger = rows[u].trigger
               /\ rows'[u].parent = IF rows[u].parent = rows[t].id THEN NoId ELSE rows[u].parent
        <3> HIDE DEF t
        <3> QED BY <1>3, <1>7, DeletedRow
    <2>2. RowsOK'
        <3>1. ASSUME NEW u \in Stored'
              PROVE  /\ NoId < rows'[u].id /\ rows'[u].id < nextId' /\ rows'[u].parent < rows'[u].id
                     /\ rows'[u].trigger >= LockTime[u]
                     /\ rows'[u].parent # NoId =>
                          rows'[u].parentTx \in Stored' /\ rows'[rows'[u].parentTx].id = rows'[u].parent
            <4>1. /\ u \in Stored /\ NoId < rows[u].id /\ rows[u].id < nextId
                  /\ rows[u].parent < rows[u].id /\ rows[u].trigger >= LockTime[u]
                BY <1>1, <2>1 DEF RowsOK
            <4>2. ASSUME rows'[u].parent # NoId
                  PROVE  rows'[u].parentTx \in Stored' /\ rows'[rows'[u].parentTx].id = rows'[u].parent
                <5>1. rows'[u].parent = rows[u].parent /\ rows[u].parent # rows[t].id /\ rows[u].parent # NoId
                    BY <2>1, <4>2
                <5>2. rows[u].parentTx \in Stored /\ rows[rows[u].parentTx].id = rows[u].parent
                    BY <1>1, <4>1, <5>1 DEF RowsOK
                <5>3. rows[u].parentTx \in Stored'
                    BY <2>1, <5>1, <5>2
                <5> QED BY <2>1, <5>1, <5>2, <5>3
            <4> QED BY <1>4, <2>1, <4>1, <4>2
        <3>2. \A u, v \in Stored' : rows'[u].id = rows'[v].id => u = v
            BY <1>1, <2>1 DEF RowsOK
        <3>3. \A r \in Requests : Script(r)' = Script(r)
            BY <1>4, ScriptsStay
        <3>4. \A r \in Requests : \A i \in 1 .. Len(Script(r)) :
                Script(r)[i].tx \in Stored' =>
                  /\ rows'[Script(r)[i].tx].parentTx = PrevTx(Script(r), i)
                  /\ rows'[Script(r)[i].tx].delay = Delta(Script(r), i) - PrevDelta(Script(r), i)
            BY <1>1, <2>1 DEF RowsOK
        <3> QED BY <3>1, <3>2, <3>3, <3>4 DEF RowsOK, PrevTx, PrevDelta, Delta, Nlt0
    <2>3. orch'.height = orch.height
        BY <1>1, <1>7 DEF Orch
    <2>4. \A u \in orch.txs \ {t} : u \in Activated(orch.height)'
        <3> SUFFICES ASSUME NEW u \in orch.txs, u # t
                     PROVE  u \in Stored' /\ rows'[u].trigger <= orch.height /\ rows'[u].parent = NoId
            BY <2>3 DEF Activated
        <3>1. u \in Stored /\ rows[u].trigger <= orch.height /\ rows[u].parent = NoId
            BY <1>1 DEF OrchOK, Activated
        <3>2. u \in Stored'
            BY <2>1, <3>1
        <3> QED BY <2>1, <3>1, <3>2
    <2>5. orch' \in Orch /\ OrchOK'
        BY <1>5, <1>7, <2>4
    <2>6. \A u \in Stored \ Stored' : sentAt[u] # 0 \/ u \in rejected \cup unsent
        BY <1>3, <2>1
    <2> QED BY <1>1, <1>2, <1>7, <2>1, <2>2, <2>5, <2>6, TableStep
<1> QED BY <1>6, <1>7 DEF DeleteScheduled

-----------------------------------------------------------------------------
(* What holds in every state *)

LEMMA InitPushInv == Init => PushInv
<1> SUFFICES ASSUME Init PROVE PushInv
    OBVIOUS
<1>1. /\ height = StartHeight /\ height \in Nat /\ minedAt = [t \in Txs |-> 0] /\ mempool = {}
      /\ up = TRUE /\ inbox = <<>> /\ rows = [t \in Txs |-> NoRow] /\ nextId = 1
      /\ asked \in [Requests -> Scripts] /\ req = [r \in Requests |-> Over("new")]
      /\ orch = OrchIdle /\ crashes = 0 /\ faults = 0 /\ reorgs = 0
      /\ sentAt = [t \in Txs |-> 0] /\ early = {} /\ rejected = {} /\ unsent = {}
      /\ missed = FALSE
    BY ConfigAssumption DEF Init
<1>2. Over("new") \in Call /\ Over("new").step = "new"
    BY DEF Over, Call, NoId
<1>3. NoRow \in Row
    BY DEF NoRow, Row, NoId
<1>4. TypeOK
    <2>1. up \in BOOLEAN /\ missed \in BOOLEAN
        BY <1>1, Zenon
    <2>2. req \in [Requests -> Call] /\ rows \in [Txs -> Row]
        BY <1>1, <1>2, <1>3
    <2>3. orch \in Orch
        BY <1>1, WaitingTypes
    <2>4. /\ height \in StartHeight .. MaxHeight /\ inbox \in Seq(Nat) /\ nextId \in Nat \ {NoId}
          /\ minedAt \in [Txs -> Nat] /\ sentAt \in [Txs -> Nat]
        BY <1>1, ConfigAssumption DEF NoId
    <2> QED BY <1>1, <2>1, <2>2, <2>3, <2>4 DEF TypeOK, Orch
<1>5. Stored = {}
    BY <1>1 DEF Stored
<1>6. BitcoindOK
    <2>1. Len(inbox) = 0
        BY <1>1
    <2>2. 1 .. Len(inbox) = {}
        BY <2>1
    <2> QED BY <1>1, <2>2 DEF BitcoindOK
<1>7. CallsOK /\ NothingLost
    BY <1>1, <1>2 DEF CallsOK, Begun, NothingLost
<1>8. RowsOK
    BY <1>5 DEF RowsOK
<1>9. OrchOK
    <2>1. orch.step = "idle" /\ orch.height = 0 /\ orch.txs = {}
        BY <1>1 DEF OrchIdle
    <2> QED BY <1>1, <2>1 DEF OrchOK
<1>10. PushedInOrder /\ NeverEarly
    <2> SUFFICES ASSUME NEW r \in Requests, NEW i \in 2 .. Len(Script(r)), sentAt[Script(r)[i].tx] # 0
                 PROVE  FALSE
        BY <1>1 DEF PushedInOrder, NeverEarly
    <2>1. i \in 1 .. Len(Script(r))
        BY <1>4, EntryTypes
    <2>2. Script(r)[i].tx \in Txs
        BY <1>4, <2>1, EntryTypes
    <2> QED BY <1>1, <2>2
<1> QED BY <1>4, <1>6, <1>7, <1>8, <1>9, <1>10 DEF PushInv

LEMMA StepPushInv == PushInv /\ [Next]_vars => PushInv'
<1> SUFFICES ASSUME PushInv, [Next]_vars PROVE PushInv'
    OBVIOUS
<1>1. CASE Environment
    BY <1>1, EnvironmentKeeps
<1>2. ASSUME NEW r \in Requests, Scheduler(r) PROVE PushInv'
    BY <1>2, ScheduleKeeps, PushFirstKeeps, StoreEntryKeeps, ScheduledKeeps DEF Scheduler
<1>3. CASE SchedulerCrash
    BY <1>3, SchedulerCrashKeeps
<1>4. CASE Orchestrator
    BY <1>4, WaitingKeeps, LoopKeeps, PushScheduledKeeps, ShiftNextKeeps, DeleteScheduledKeeps
       DEF Orchestrator
<1>5. CASE OrchestratorCrash \/ Start
    BY <1>5, WaitingKeeps
<1>6. CASE UNCHANGED vars
    <2>1. /\ UNCHANGED <<height, minedAt, mempool, up, inbox, rows, nextId, asked, req, orch>>
          /\ UNCHANGED <<crashes, faults, reorgs, sentAt, early, rejected, unsent, missed>>
        BY <1>6 DEF vars
    <2>2. TypeOK' /\ BitcoindOK'
        BY <2>1 DEF PushInv, TypeOK, BitcoindOK
    <2>3. Later
        BY <2>1, ConfigAssumption DEF Later, PushInv, TypeOK
    <2> QED BY <2>1, <2>2, <2>3, QuietStep
<1> QED BY <1>1, <1>2, <1>3, <1>4, <1>5, <1>6 DEF Next

THEOREM Invariance == Spec => []PushInv
BY InitPushInv, StepPushInv, PTL DEF Spec

\* TypeOK is an invariant: what the two processes, the table and bitcoind hold is of its
\* type. (That a delay and a shift are natural numbers, which MySQL's unsigned columns and
\* updateTriggers rely on, is a consequence of the order of the scripts and of the rows.)
THEOREM TypeCorrect == Spec => []TypeOK
<1>1. PushInv => TypeOK
    BY DEF PushInv
<1> QED BY <1>1, Invariance, PTL

\* PushedInOrder is an invariant: whatever the scripts, the number of requests and of
\* repeated ones, the crashes, the reorganisations and the failures, bitcoind gets a
\* transaction after the one before it in its script, as many blocks later as the script says.
THEOREM InOrder == Spec => []PushedInOrder
<1>1. PushInv => PushedInOrder
    BY DEF PushInv
<1> QED BY <1>1, Invariance, PTL

\* NeverEarly is an invariant: neither the immediate push of schedule nor the orchestrator
\* hands a transaction to bitcoind before its nLockTime.
THEOREM NothingEarly == Spec => []NeverEarly
<1>1. PushInv => NeverEarly
    BY DEF PushInv
<1> QED BY <1>1, Invariance, PTL

\* NothingLost is an invariant: each transaction of a script the client was told is
\* scheduled is in the table, or was sent, or bitcoind refused it or was out of reach.
THEOREM NothingIsLost == Spec => []NothingLost
<1>1. PushInv => NothingLost
    BY DEF PushInv
<1> QED BY <1>1, Invariance, PTL

\* RetryIsHarmless is an invariant: a request that is sent again, at once or after a crash,
\* neither reorders the pushes nor loses a transaction of its script.
THEOREM RetryHarmless == Spec => []RetryIsHarmless
<1>1. PushInv => RetryIsHarmless
    BY DEF PushInv, RetryIsHarmless
<1> QED BY <1>1, Invariance, PTL

-----------------------------------------------------------------------------
(* A late push puts off those that follow by its lateness only *)

\* The numbers of the rows and of the orchestrator
LEMMA Numbers ==
    ASSUME PushInv
    PROVE  /\ \A t \in Txs : /\ rows[t] \in Row /\ rows[t].id \in Nat /\ rows[t].parent \in Nat
                             /\ rows[t].delay \in Nat /\ rows[t].trigger \in Nat
                             /\ rows[t].parentTx \in Txs \cup {NoTx} /\ sentAt[t] \in Nat
           /\ orch \in Orch /\ orch.height \in Nat /\ orch.shift \in Nat /\ orch.cursor \in Nat
           /\ height \in Nat /\ orch.height <= height /\ nextId \in Nat
           /\ \A r \in Requests : req[r].parentNlt \in Nat /\ req[r].parentId \in Nat
           /\ \A t \in Stored : t \in Txs /\ NoId < rows[t].id /\ rows[t].id < nextId
           /\ \A t \in Txs : Bound(t) \in Nat
           /\ \A id \in Nat : Owed(id) \in Nat
<1>1. TypeOK /\ OrchOK /\ RowsOK
    BY DEF PushInv
<1>2. orch \in Orch /\ rows \in [Txs -> Row] /\ sentAt \in [Txs -> Nat] /\ height \in Nat /\ nextId \in Nat
    BY <1>1, ConfigAssumption DEF TypeOK, Orch
<1>3. \A t \in Txs : /\ rows[t] \in Row /\ rows[t].id \in Nat /\ rows[t].parent \in Nat
                     /\ rows[t].delay \in Nat /\ rows[t].trigger \in Nat
                     /\ rows[t].parentTx \in Txs \cup {NoTx} /\ sentAt[t] \in Nat
    <2>1. \A t \in Txs : rows[t] \in Row /\ sentAt[t] \in Nat
        BY <1>2
    <2> QED BY <2>1 DEF Row
<1>4. orch.height \in Nat /\ orch.shift \in Nat /\ orch.cursor \in Nat /\ orch.height <= height
    BY <1>1, <1>2 DEF Orch, OrchOK
<1>5. \A t \in Stored : t \in Txs /\ NoId < rows[t].id /\ rows[t].id < nextId
    BY <1>1 DEF Stored, RowsOK
<1>6. \A t \in Txs : Bound(t) \in Nat
    BY <1>3, <1>4 DEF Bound
<1>7. \A id \in Nat : Owed(id) \in Nat
    BY <1>4 DEF Owed
<1>8. \A r \in Requests : req[r].parentNlt \in Nat /\ req[r].parentId \in Nat
    BY <1>1, CallTypes
<1> QED BY <1>2, <1>3, <1>4, <1>5, <1>6, <1>7, <1>8

\* The row the orchestrator is about to push, or has pushed
LEMMA RowAtHand ==
    ASSUME PushInv, orch.step \in {"push", "shift", "delete"}
    PROVE  /\ orch.tx \in Stored /\ orch.tx \in Txs /\ rows[orch.tx].parent = NoId
           /\ rows[orch.tx].trigger <= orch.height
BY DEF PushInv, OrchOK, Activated, Stored

\* A row that waits for another one has that one for parent.
LEMMA ParentIsThere ==
    ASSUME PushInv, NEW t \in Stored, rows[t].parent # NoId
    PROVE  /\ rows[t].parentTx \in Stored /\ rows[rows[t].parentTx].id = rows[t].parent
           /\ rows[t].parent < rows[t].id /\ rows[t].parentTx # t
           /\ \A u \in Stored : rows[u].id = rows[t].parent => u = rows[t].parentTx
<1>1. RowsOK /\ rows[t].parent \in Nat /\ rows[t].id \in Nat
    BY Numbers DEF PushInv
<1>2. /\ rows[t].parentTx \in Stored /\ rows[rows[t].parentTx].id = rows[t].parent
      /\ rows[t].parent < rows[t].id
    BY <1>1 DEF RowsOK
<1>3. \A u \in Stored : rows[u].id = rows[t].parent => u = rows[t].parentTx
    BY <1>1, <1>2 DEF RowsOK
<1>4. rows[t].parentTx # t
    BY <1>1, <1>2
<1> QED BY <1>2, <1>3, <1>4

\* A step that changes neither the table nor what was sent, and begins no call
LEMMA LinksKept ==
    ASSUME PushInv, LinksOK, UNCHANGED <<up, rejected, unsent, sentAt, rows, asked>>,
           \/ orch' = orch
           \/ orch.step \notin {"shift", "delete"} /\ orch'.step \notin {"shift", "delete"},
           \A r \in Requests : req'[r] = req[r] \/ req'[r].step \in {"done", "failed"}
    PROVE  LinksOK'
<1>1. Stored' = Stored
    BY DEF Stored
<1>2. \A t \in Txs : Bound(t)' = Bound(t)
    BY DEF Bound
<1>3. \A id \in Nat : Owed(id)' = Owed(id)
    BY DEF Owed
<1>4. SentOK'
    <2>1. SentOK
        BY DEF LinksOK
    <2>2. \A r \in Requests : req[r].step # "new" => req'[r].step # "new"
        OBVIOUS
    <2>3. \A t \in Txs : sentAt'[t] # 0 \/ t \in Stored' => \E r \in Requests : req'[r].step # "new"
        BY <1>1, <2>1, <2>2 DEF SentOK
    <2>4. CASE orch' = orch
        BY <1>1, <2>1, <2>3, <2>4 DEF SentOK
    <2>5. CASE orch.step \notin {"shift", "delete"} /\ orch'.step \notin {"shift", "delete"}
        BY <1>1, <2>1, <2>3, <2>5 DEF SentOK
    <2> QED BY <2>4, <2>5
<1>5. RowLinks'
    <2> SUFFICES ASSUME NEW t \in Stored
                 PROVE  /\ rows[t].parent # NoId =>
                              rows[t].trigger + Owed(rows[t].parent)' <= Bound(rows[t].parentTx)' + rows[t].delay
                        /\ rows[t].parent = NoId /\ rows[t].parentTx # NoTx =>
                              rows[t].trigger <= sentAt[rows[t].parentTx] + rows[t].delay
        BY <1>1 DEF RowLinks
    <2>1. RowLinks
        BY DEF LinksOK
    <2>2. t \in Txs /\ rows[t].parent \in Nat
        BY Numbers
    <2>3. rows[t].parent # NoId => rows[t].parentTx \in Txs
        BY ParentIsThere DEF Stored
    <2>4. Owed(rows[t].parent)' = Owed(rows[t].parent)
        BY <1>3, <2>2 DEF Owed
    <2>5. rows[t].parent # NoId => Bound(rows[t].parentTx)' = Bound(rows[t].parentTx)
        BY <1>2, <2>3 DEF Bound
    <2> QED BY <2>1, <2>4, <2>5 DEF RowLinks
<1>6. CallLinks'
    <2> SUFFICES ASSUME NEW r \in Requests, Begun(r)' PROVE CallLink(r)'
        BY DEF CallLinks
    <2>1. req'[r] = req[r] /\ Begun(r) /\ Script(r)' = Script(r)
        BY ScriptsStay DEF Begun
    <2>2. CallLink(r)
        BY <2>1 DEF LinksOK, CallLinks
    <2>3. Position(r)' = Position(r)
        BY <2>1 DEF Position
    <2>4. \A j \in Position(r)' .. Len(Script(r)') :
            sentAt'[Script(r)'[j].tx] = 0 /\ Script(r)'[j].tx \notin Stored'
        BY <1>1, <2>1, <2>2, <2>3 DEF CallLink
    <2>5. req'[r].step = "first" /\ req'[r].parentTx # NoTx => sentAt'[req'[r].parentTx] >= req'[r].parentNlt
        BY <2>1, <2>2 DEF CallLink
    <2>6. req[r].parentId # NoId /\ req[r].parentTx \in Stored /\ rows[req[r].parentTx].id = req[r].parentId =>
            req[r].parentNlt + Owed(req[r].parentId)' <= Bound(req[r].parentTx)'
        <3>1. req[r].parentTx \in Stored => Bound(req[r].parentTx)' = Bound(req[r].parentTx)
            BY <1>2, <2>1 DEF Stored, Bound
        <3>2. Owed(req[r].parentId)' = Owed(req[r].parentId)
            BY <2>1 DEF Owed
        <3> QED BY <2>2, <3>1, <3>2 DEF CallLink
    <2> QED BY <1>1, <2>1, <2>4, <2>5, <2>6 DEF CallLink, Owed, Bound
<1> QED BY <1>4, <1>5, <1>6 DEF LinksOK

\* Without a fault nothing is refused, nor pushed in vain.
LEMMA PushSucceeds ==
    ASSUME PushInv', NEW t \in Txs, PushRejected(t), faults' = 0, TypeOK
    PROVE  FALSE
<1>1. faults \in Nat /\ early' = {}
    BY DEF PushInv, NeverEarly, TypeOK
<1>2. CASE height < LockTime[t]
    BY <1>1, <1>2 DEF PushRejected
<1>3. CASE ~(height < LockTime[t])
    <2>1. faults' = faults + 1
        BY <1>3 DEF PushRejected
    <2> QED BY <1>1, <2>1
<1> QED BY <1>2, <1>3

\* The only request begins: the table is empty, and nothing was sent.
LEMMA ScheduleLinks ==
    ASSUME PushInv, LinksOK, OneQuietRequest', NEW r \in Requests, Schedule(r)
    PROVE  LinksOK'
<1>1. /\ UNCHANGED <<height, minedAt, mempool, up, asked, rows, orch, sentAt, early, rejected, unsent>>
      /\ req[r].step = "new" /\ req \in [Requests -> Call] /\ asked \in [Requests -> Scripts] /\ TypeOK
    BY DEF Schedule, outside, ghosts, PushInv, TypeOK
<1>2. CASE req' = [req EXCEPT ![r] = Over("failed")]
    <2>1. \A q \in Requests : req'[q] = req[q] \/ req'[q].step \in {"done", "failed"}
        BY <1>1, <1>2 DEF Over
    <2> QED BY <1>1, <2>1, LinksKept
<1>3. CASE req' = [req EXCEPT ![r] =
                     [step |-> "first", script |-> Rebase(Script(r), height), last |-> height,
                      parentTx |-> NoTx, parentNlt |-> BaseHeight(Script(r), height), parentId |-> NoId]]
    <2>1. /\ req'[r].step = "first" /\ req'[r].parentTx = NoTx /\ req'[r].parentId = NoId
          /\ \A q \in Requests \ {r} : req'[q] = req[q]
        BY <1>1, <1>3
    <2>2. \A q \in Requests : req[q].step = "new"
        BY <1>1, <2>1 DEF OneQuietRequest
    <2>3. \A t \in Txs : sentAt[t] = 0 /\ t \notin Stored
        BY <2>2 DEF LinksOK, SentOK
    <2>4. Stored = {} /\ Stored' = {}
        BY <1>1, <2>3 DEF Stored
    <2>5. orch.step \notin {"shift", "delete"}
        BY <2>4, RowAtHand
    <2>6. SentOK'
        BY <1>1, <2>1, <2>3, <2>4, <2>5 DEF LinksOK, SentOK
    <2>7. RowLinks'
        BY <2>4 DEF RowLinks
    <2>8. CallLinks'
        <3> SUFFICES ASSUME NEW q \in Requests, Begun(q)' PROVE CallLink(q)'
            BY DEF CallLinks
        <3>1. q = r
            BY <2>1, <2>2 DEF Begun
        <3>2. PushInv' /\ Script(r)' = Script(r)
            BY <1>1, ScheduleKeeps, ScriptsStay
        <3>3. \A j \in 1 .. Len(Script(r)) : Script(r)[j].tx \in Txs
            BY <1>1, EntryTypes
        <3>4. \A j \in Position(r)' .. Len(Script(r)) : j \in 1 .. Len(Script(r))
            <4>1. TypeOK' /\ CallOK(r)'
                BY <2>1, <3>2 DEF PushInv, CallsOK, Begun
            <4>2. Len(Script(r)) \in Nat /\ Len(req'[r].script) \in Nat /\ Len(req'[r].script) <= Len(Script(r))
                <5>1. Script(r) \in Seq(ClientEntry)
                    BY <1>1, EntryTypes
                <5>2. req'[r] \in Call
                    BY <4>1 DEF TypeOK
                <5>3. req'[r].script \in Seq(Entry)
                    BY <5>2 DEF Call
                <5> QED BY <3>2, <4>1, <5>1, <5>3 DEF CallOK
            <4>3. Position(r)' = Len(Script(r)) - Len(req'[r].script) + 1
                BY <3>2 DEF Position
            <4> QED BY <4>2, <4>3
        <3>5. \A j \in Position(r)' .. Len(Script(r)') :
                sentAt'[Script(r)'[j].tx] = 0 /\ Script(r)'[j].tx \notin Stored'
            BY <1>1, <2>3, <2>4, <3>2, <3>3, <3>4
        <3> QED BY <2>1, <3>1, <3>5 DEF CallLink
    <2> QED BY <2>6, <2>7, <2>8 DEF LinksOK
<1> QED BY <1>2, <1>3 DEF Schedule

\* The entry at hand, and those that follow it, after a step on it
LEMMA LinkAdvances ==
    ASSUME PushInv, NEW r \in Requests, Begun(r), CallLink(r), req[r].script # <<>>,
           asked' = asked, req'[r].script = Tail(req[r].script),
           \A t \in Txs \ {req[r].script[1].tx} : sentAt'[t] = sentAt[t] /\ (t \in Stored' => t \in Stored)
    PROVE  /\ sentAt[req[r].script[1].tx] = 0 /\ req[r].script[1].tx \notin Stored
           /\ \A j \in Position(r)' .. Len(Script(r)') :
                sentAt'[Script(r)'[j].tx] = 0 /\ Script(r)'[j].tx \notin Stored'
<1> DEFINE s == Script(r)
           n == Position(r)
           e == req[r].script[1]
<1>1. TypeOK /\ CallOK(r)
    BY DEF PushInv, CallsOK
<1>2. /\ n \in 1 .. Len(s) /\ e.tx = s[n].tx /\ Len(s) - Len(Tail(req[r].script)) + 1 = n + 1
    BY <1>1, NextEntry
<1>3. Script(r)' = s /\ Position(r)' = n + 1
    BY <1>2, ScriptsStay DEF Position
<1>4. \A j \in n + 1 .. Len(s) : j \in 1 .. Len(s) /\ j \in n .. Len(s) /\ j # n
    <2>1. Len(s) \in Nat
        BY <1>1, EntryTypes
    <2> HIDE DEF s, n
    <2> QED BY <1>2, <2>1
<1>5. \A j \in n + 1 .. Len(s) : s[j].tx \in Txs /\ s[j].tx # e.tx
    <2> SUFFICES ASSUME NEW j \in n + 1 .. Len(s) PROVE s[j].tx \in Txs /\ s[j].tx # e.tx
        OBVIOUS
    <2>1. s[j].tx \in Txs
        BY <1>1, <1>4, EntryTypes
    <2>2. s[j].tx # s[n].tx
        BY <1>1, <1>2, <1>4, ScriptsAreOwn DEF TypeOK
    <2> QED BY <1>2, <2>1, <2>2
<1>6. sentAt[e.tx] = 0 /\ e.tx \notin Stored
    <2>1. n \in n .. Len(s)
        BY <1>2
    <2> QED BY <1>2, <2>1 DEF CallLink
<1>7. \A j \in n + 1 .. Len(s) : sentAt[s[j].tx] = 0 /\ s[j].tx \notin Stored
    BY <1>4 DEF CallLink
<1>8. \A j \in n + 1 .. Len(s) : sentAt'[s[j].tx] = 0 /\ s[j].tx \notin Stored'
    BY <1>5, <1>7
<1> QED BY <1>3, <1>6, <1>8

LEMMA PushFirstLinks ==
    ASSUME PushInv, PushInv', LinksOK, OneQuietRequest', NEW r \in Requests, PushFirst(r)
    PROVE  LinksOK'
<1> DEFINE e == req[r].script[1]
<1>1. /\ req[r].step = "first" /\ Begun(r) /\ req[r].script # <<>> /\ e.nlocktime <= req[r].last
      /\ UNCHANGED <<height, minedAt, up, asked, rows, nextId, orch>>
      /\ faults' = 0 /\ up
    BY DEF PushFirst, IsFirst, Begun, OneQuietRequest, LinksOK, SentOK
<1>2. /\ TypeOK /\ TypeOK' /\ CallOK(r) /\ CallLink(r) /\ height \in Nat /\ req \in [Requests -> Call]
      /\ height # 0
    <2>1. TypeOK /\ TypeOK' /\ CallsOK /\ CallLinks
        BY DEF PushInv, LinksOK
    <2>2. CallOK(r) /\ CallLink(r)
        BY <1>1, <2>1 DEF CallsOK, CallLinks
    <2>3. height \in Nat /\ req \in [Requests -> Call] /\ height # 0
        BY <2>1, ConfigAssumption DEF TypeOK
    <2> QED BY <2>1, <2>2, <2>3
<1>3. e \in Entry /\ e.tx \in Txs /\ e.nlocktime \in Nat /\ req[r].last \in Nat /\ req[r].last <= height
    <2>1. e \in Entry
        BY <1>1, <1>2, NextEntry
    <2>2. req[r].last \in Nat
        BY <1>2, CallTypes
    <2> QED BY <1>2, <2>1, <2>2 DEF Entry, CallOK
<1>4. /\ PushAccepted(e.tx)
      /\ req' = [req EXCEPT ![r].script = Tail(@), ![r].parentTx = e.tx, ![r].parentNlt = e.nlocktime]
    BY <1>1, <1>2, <1>3, PushSucceeds DEF PushFirst
<1>5. /\ UNCHANGED <<rejected, unsent>>
      /\ sentAt' = [sentAt EXCEPT ![e.tx] = IF @ = 0 THEN height ELSE @]
    BY <1>4 DEF PushAccepted
<1>6. /\ req'[r].script = Tail(req[r].script) /\ req'[r].parentTx = e.tx
      /\ req'[r].parentNlt = e.nlocktime /\ req'[r].parentId = req[r].parentId
      /\ req'[r].step = "first" /\ \A q \in Requests \ {r} : req'[q] = req[q]
    <2>1. req[r] \in Call
        BY <1>2
    <2> QED BY <1>1, <1>2, <1>4, <2>1 DEF Call
<1>7. /\ \A t \in Txs \ {e.tx} : sentAt'[t] = sentAt[t]
      /\ sentAt'[e.tx] = IF sentAt[e.tx] = 0 THEN height ELSE sentAt[e.tx]
      /\ Stored' = Stored
    BY <1>1, <1>2, <1>3, <1>5 DEF TypeOK, Stored
<1>8. /\ sentAt[e.tx] = 0 /\ e.tx \notin Stored
      /\ \A j \in Position(r)' .. Len(Script(r)') :
           sentAt'[Script(r)'[j].tx] = 0 /\ Script(r)'[j].tx \notin Stored'
    BY <1>1, <1>2, <1>6, <1>7, LinkAdvances
<1>9. sentAt'[e.tx] = height
    BY <1>7, <1>8
<1>10. SentOK'
    <2>1. SentOK
        BY DEF LinksOK
    <2>2. req'[r].step # "new"
        BY <1>6
    <2>3. orch.step \in {"shift", "delete"} => sentAt'[orch.tx] = sentAt[orch.tx]
        BY <1>7, <1>8, RowAtHand
    <2>4. \A t \in Stored : sentAt'[t] = sentAt[t]
        BY <1>7, <1>8 DEF Stored
    <2> QED BY <1>1, <1>5, <1>7, <2>1, <2>2, <2>3, <2>4 DEF SentOK
<1>11. RowLinks'
    <2> SUFFICES ASSUME NEW t \in Stored
                 PROVE  /\ rows[t].parent # NoId =>
                              rows[t].trigger + Owed(rows[t].parent) <= Bound(rows[t].parentTx) + rows[t].delay
                        /\ rows[t].parent = NoId /\ rows[t].parentTx # NoTx =>
                              rows[t].trigger <= sentAt'[rows[t].parentTx] + rows[t].delay
        BY <1>1, <1>7 DEF RowLinks, Owed, Bound
    <2>1. RowLinks
        BY DEF LinksOK
    <2>2. rows[t].parentTx # NoTx => sentAt'[rows[t].parentTx] >= sentAt[rows[t].parentTx]
        <3>1. \A u \in Txs : sentAt[u] \in Nat /\ sentAt'[u] >= sentAt[u]
            <4>1. \A u \in Txs : sentAt[u] \in Nat
                BY Numbers
            <4>2. \A u \in Txs : u # e.tx => sentAt'[u] >= sentAt[u]
                BY <1>7, <4>1
            <4>3. sentAt'[e.tx] >= sentAt[e.tx]
                BY <1>2, <1>8, <1>9
            <4> QED BY <4>1, <4>2, <4>3
        <3>2. rows[t].parentTx # NoTx => rows[t].parentTx \in Txs
            BY Numbers
        <3> QED BY <3>1, <3>2
    <2>3. /\ rows[t].trigger \in Nat /\ rows[t].delay \in Nat
          /\ rows[t].parentTx # NoTx =>
               sentAt[rows[t].parentTx] \in Nat /\ sentAt'[rows[t].parentTx] \in Nat
        BY <1>2, Numbers DEF TypeOK
    <2> QED BY <2>1, <2>2, <2>3 DEF RowLinks
<1>12. CallLinks'
    <2> SUFFICES ASSUME NEW q \in Requests, Begun(q)' PROVE CallLink(q)'
        BY DEF CallLinks
    <2>1. q = r
        BY <1>6 DEF Begun, OneQuietRequest
    <2>2. sentAt'[e.tx] >= e.nlocktime
        BY <1>1, <1>2, <1>3, <1>9
    <2>3. req'[r].parentId = NoId
        BY <1>1, <1>2, <1>6 DEF CallOK
    <2> QED BY <1>6, <1>8, <2>1, <2>2, <2>3 DEF CallLink
<1> QED BY <1>10, <1>11, <1>12 DEF LinksOK

LEMMA StoreEntryLinks ==
    ASSUME PushInv, PushInv', LinksOK, OneQuietRequest', NEW r \in Requests, StoreEntry(r)
    PROVE  LinksOK'
<1> DEFINE e == req[r].script[1]
           c == req[r]
<1>1. /\ Begun(r) /\ req[r].script # <<>>
      /\ UNCHANGED <<height, up, asked, orch, sentAt, rejected, unsent>>
      /\ faults' = 0
    BY DEF StoreEntry, Begun, OneQuietRequest, outside, ghosts
<1>2. /\ TypeOK /\ CallOK(r) /\ CallLink(r) /\ RowsOK /\ req \in [Requests -> Call] /\ nextId \in Nat
      /\ rows \in [Txs -> Row] /\ faults \in Nat
    BY <1>1 DEF PushInv, CallsOK, LinksOK, CallLinks, TypeOK
<1>3. CASE req' = [req EXCEPT ![r] = Over("failed")] /\ UNCHANGED rows
    <2>1. \A q \in Requests : req'[q] = req[q] \/ req'[q].step \in {"done", "failed"}
        BY <1>2, <1>3 DEF Over
    <2> QED BY <1>1, <1>3, <2>1, LinksKept
<1>4. CASE /\ AddScheduledTransaction(e.tx, c.parentId, c.parentTx, DelayOf(r), e.nlocktime)
           /\ req' = [req EXCEPT ![r] =
                        [c EXCEPT !.step = "store", !.script = Tail(c.script), !.parentTx = e.tx,
                                  !.parentNlt = e.nlocktime, !.parentId = nextId]]
    <2> DEFINE row == [id |-> nextId, parent |-> c.parentId, parentTx |-> c.parentTx,
                       delay |-> DelayOf(r), trigger |-> e.nlocktime]
    <2>1. /\ e \in Entry /\ e.tx \in Txs /\ e.nlocktime \in Nat /\ DelayOf(r) \in Nat
          /\ c.parentNlt \in Nat /\ DelayOf(r) = e.nlocktime - c.parentNlt
        <3>1. e \in Entry /\ DelayOf(r) \in Nat
            BY <1>1, <1>2, NextEntry
        <3> QED BY <3>1, Numbers DEF Entry, DelayOf
    <2>2. /\ req'[r].script = Tail(req[r].script) /\ req'[r].parentTx = e.tx
          /\ req'[r].parentNlt = e.nlocktime /\ req'[r].parentId = nextId
          /\ req'[r].step = "store" /\ \A q \in Requests \ {r} : req'[q] = req[q]
        <3>1. req[r] \in Call
            BY <1>2
        <3> QED BY <1>2, <1>4, <3>1 DEF Call
    <2>3. /\ rows' = [rows EXCEPT ![e.tx] = row] /\ row.id = nextId /\ row.parent = c.parentId
          /\ row.parentTx = c.parentTx /\ row.delay = DelayOf(r) /\ row.trigger = e.nlocktime
          /\ c.parentId = NoId \/ \E t \in Stored : rows[t].id = c.parentId
        BY <1>4 DEF AddScheduledTransaction, Insertable
    <2> HIDE DEF row
    <2>4. rows'[e.tx] = row /\ \A t \in Txs \ {e.tx} : rows'[t] = rows[t]
        BY <1>2, <2>1, <2>3
    <2>5. row # NoRow
        BY <2>3, Numbers DEF NoRow, PushInv, TypeOK
    <2>6. /\ sentAt[e.tx] = 0 /\ e.tx \notin Stored
          /\ \A j \in Position(r)' .. Len(Script(r)') :
               sentAt'[Script(r)'[j].tx] = 0 /\ Script(r)'[j].tx \notin Stored'
        <3>1. \A t \in Txs \ {e.tx} : sentAt'[t] = sentAt[t] /\ (t \in Stored' => t \in Stored)
            BY <1>1, <2>4 DEF Stored
        <3> QED BY <1>1, <1>2, <2>2, <3>1, LinkAdvances
    <2>7. Stored' = Stored \cup {e.tx} /\ \A t \in Stored : t \in Txs /\ t # e.tx /\ rows'[t] = rows[t]
        BY <2>1, <2>4, <2>5, <2>6 DEF Stored
    <2>8. \A t \in Stored : Bound(t)' = Bound(t)
        BY <1>1, <2>7 DEF Bound
    <2>9. orch.step \in {"shift", "delete"} => orch.tx \in Stored
        BY RowAtHand
    <2>10. SentOK'
        <3>1. SentOK
            BY DEF LinksOK
        <3>2. req'[r].step # "new"
            BY <2>2
        <3> QED BY <1>1, <2>6, <2>7, <2>9, <3>1, <3>2 DEF SentOK
    <2>11. RowLinks'
        <3>0. PICK x \in Txs : x = e.tx
            BY <2>1
        <3>1. RowLinks
            BY DEF LinksOK
        <3>2. ASSUME NEW t \in Stored
              PROVE  /\ rows'[t].parent # NoId =>
                          rows'[t].trigger + Owed(rows[t].parent)' <= Bound(rows[t].parentTx)' + rows'[t].delay
                     /\ rows'[t].parent = NoId /\ rows'[t].parentTx # NoTx =>
                          rows'[t].trigger <= sentAt'[rows'[t].parentTx] + rows'[t].delay
            <4>1. rows'[t] = rows[t]
                BY <2>7
            <4>2. Owed(rows[t].parent)' = Owed(rows[t].parent)
                BY <1>1, <4>1 DEF Owed
            <4>3. rows[t].parent # NoId => Bound(rows[t].parentTx)' = Bound(rows[t].parentTx)
                <5>1. rows[t].parent # NoId => rows[t].parentTx \in Stored
                    BY ParentIsThere
                <5>2. rows[t].parent # NoId => rows'[rows[t].parentTx] = rows[rows[t].parentTx]
                    BY <2>7, <5>1
                <5> QED BY <1>1, <4>1, <5>2 DEF Bound
            <4> QED BY <1>1, <3>1, <4>1, <4>2, <4>3 DEF RowLinks
        <3>3. ASSUME c.parentId # NoId
              PROVE  e.nlocktime + Owed(rows[x].parent)' <= Bound(rows[x].parentTx)' + DelayOf(r)
            <4>1. PICK u \in Stored : rows[u].id = c.parentId
                BY <2>3, <3>3
            <4>2. u = c.parentTx
                BY <1>2, <3>3, <4>1 DEF CallOK
            <4>3. c.parentNlt + Owed(c.parentId) <= Bound(u)
                BY <1>2, <3>3, <4>1, <4>2 DEF CallLink
            <4>4. Owed(rows[x].parent)' = Owed(c.parentId)
                BY <1>1, <2>3, <2>4, <3>0 DEF Owed
            <4>5. Bound(rows[x].parentTx)' = Bound(u)
                BY <1>1, <2>3, <2>4, <2>7, <3>0, <4>1, <4>2 DEF Bound
            <4>6. Owed(c.parentId) \in Nat /\ Bound(u) \in Nat
                BY <4>1, Numbers
            <4> HIDE DEF e, c
            <4> QED BY <2>1, <4>3, <4>4, <4>5, <4>6
        <3>4. ASSUME c.parentId = NoId, c.parentTx # NoTx
              PROVE  e.nlocktime <= sentAt'[c.parentTx] + DelayOf(r)
            <4>1. c.step = "first"
                BY <1>1, <1>2, <3>4 DEF CallOK, Begun
            <4>2. sentAt[c.parentTx] >= c.parentNlt
                BY <1>2, <3>4, <4>1 DEF CallLink
            <4>3. c.parentTx \in Txs
                <5>1. c \in Call
                    BY <1>2
                <5> QED BY <3>4, <5>1 DEF Call
            <4>4. sentAt[c.parentTx] \in Nat /\ sentAt' = sentAt
                BY <1>1, <4>3, Numbers
            <4> HIDE DEF e, c
            <4> QED BY <2>1, <4>2, <4>4
        <3>5. /\ rows'[e.tx].parent # NoId =>
                   rows'[e.tx].trigger + Owed(rows[x].parent)' <= Bound(rows[x].parentTx)' + rows'[e.tx].delay
              /\ rows'[e.tx].parent = NoId /\ rows'[e.tx].parentTx # NoTx =>
                   rows'[e.tx].trigger <= sentAt'[rows'[e.tx].parentTx] + rows'[e.tx].delay
            BY <2>3, <2>4, <3>3, <3>4
        <3>6. \A t \in Stored' :
                 /\ rows'[t].parent # NoId =>
                      rows'[t].trigger + Owed(rows[t].parent)' <= Bound(rows[t].parentTx)' + rows'[t].delay
                 /\ rows'[t].parent = NoId /\ rows'[t].parentTx # NoTx =>
                      rows'[t].trigger <= sentAt'[rows'[t].parentTx] + rows'[t].delay
            <4> SUFFICES ASSUME NEW t \in Stored'
                         PROVE  /\ rows'[t].parent # NoId =>
                                      rows'[t].trigger + Owed(rows[t].parent)' <= Bound(rows[t].parentTx)' + rows'[t].delay
                                /\ rows'[t].parent = NoId /\ rows'[t].parentTx # NoTx =>
                                      rows'[t].trigger <= sentAt'[rows'[t].parentTx] + rows'[t].delay
                OBVIOUS
            <4>1. CASE t \in Stored
                BY <3>2, <4>1
            <4>2. CASE t = x
                BY <3>0, <3>5, <4>2
            <4> QED BY <2>7, <3>0, <4>1, <4>2
        <3> QED BY <3>6 DEF RowLinks
    <2>12. CallLinks'
        <3> SUFFICES ASSUME NEW q \in Requests, Begun(q)' PROVE CallLink(q)'
            BY DEF CallLinks
        <3>1. q = r
            BY <2>2 DEF Begun, OneQuietRequest
        <3>2. Owed(req[r].parentId)' = 0
            <4>1. orch.step = "shift" => orch.cursor # nextId
                BY <1>2, Numbers DEF PushInv, OrchOK
            <4> QED BY <1>1, <2>2, <4>1 DEF Owed
        <3>3. Bound(req[r].parentTx)' = e.nlocktime
            BY <1>1, <2>2, <2>3, <2>4, <2>6, <2>9 DEF Bound
        <3> QED BY <2>1, <2>2, <2>6, <3>1, <3>2, <3>3 DEF CallLink
    <2> QED BY <2>10, <2>11, <2>12 DEF LinksOK
<1> QED
    <2>1. faults' # faults + 1
        BY <1>1, <1>2
    <2> QED BY <1>3, <1>4, <2>1 DEF StoreEntry

\* The row at hand is pushed: what it was late becomes owed to those that follow it.
LEMMA PushScheduledLinks ==
    ASSUME PushInv, PushInv', LinksOK, OneQuietRequest', PushScheduled
    PROVE  LinksOK'
<1>1. /\ orch.step = "push" /\ UNCHANGED <<height, minedAt, up, asked, rows, nextId, req>>
      /\ up /\ faults' = 0 /\ TypeOK /\ SentOK /\ RowLinks /\ CallLinks
    BY DEF PushScheduled, OneQuietRequest, LinksOK, SentOK, PushInv
<1>2. /\ orch.tx \in Stored /\ orch.tx \in Txs /\ rows[orch.tx].parent = NoId
      /\ rows[orch.tx].trigger <= orch.height
    BY <1>1, RowAtHand
<1>3. PushAccepted(orch.tx) /\ AfterPush(orch.tx)
    BY <1>1, <1>2, PushSucceeds DEF PushScheduled
<1>4. PICK t \in Stored : t = orch.tx
    BY <1>2
<1>5. /\ t \in Txs /\ sentAt[t] = 0 /\ rows[t].id \in Nat /\ rows[t].id # NoId
      /\ rows[t].trigger \in Nat /\ orch.height \in Nat /\ height \in Nat /\ orch.height <= height
      /\ orch \in Orch /\ rows[t].trigger <= orch.height /\ NoId = 0
    <2>1. sentAt[t] = 0
        BY <1>1, <1>4 DEF SentOK
    <2> QED BY <1>2, <1>4, <2>1, Numbers DEF NoId
<1>6. /\ UNCHANGED <<rejected, unsent>> /\ sentAt'[t] = height
      /\ \A u \in Txs \ {t} : sentAt'[u] = sentAt[u]
    <2>1. /\ UNCHANGED <<rejected, unsent>>
          /\ sentAt' = [sentAt EXCEPT ![t] = IF @ = 0 THEN height ELSE @]
        BY <1>3, <1>4 DEF PushAccepted
    <2> QED BY <1>1, <1>5, <2>1 DEF TypeOK
<1>7. \A u \in Txs : sentAt[u] \in Nat /\ sentAt'[u] \in Nat /\ sentAt'[u] >= sentAt[u]
    <2>1. \A u \in Txs : sentAt[u] \in Nat
        BY Numbers
    <2> QED BY <1>5, <1>6, <2>1
<1> DEFINE late == orch.height - rows[t].trigger
<1>8. /\ orch'.step \in {"shift", "delete"} /\ orch'.tx = t /\ orch'.height = orch.height
      /\ orch'.step = "shift" => orch'.shift = late /\ orch'.cursor = rows[t].id
      /\ orch'.step = "delete" => late = 0
    <2>1. CASE /\ rows[t].trigger < orch.height
               /\ orch' = [orch EXCEPT !.step = "shift", !.shift = orch.height - rows[t].trigger,
                                       !.cursor = rows[t].id]
        BY <1>4, <1>5, <2>1 DEF Orch
    <2>2. CASE ~(rows[t].trigger < orch.height) /\ orch' = [orch EXCEPT !.step = "delete"]
        <3>1. late = 0
            BY <1>5, <2>2
        <3> QED BY <1>4, <1>5, <2>2, <3>1 DEF Orch
    <2> QED BY <1>3, <1>4, <2>1, <2>2 DEF AfterPush
<1>9. Stored' = Stored /\ late \in Nat
    BY <1>1, <1>5 DEF Stored
\* Owed and Bound grow together.
<1>10. /\ \A id \in Nat : Owed(id) = 0 /\ Owed(id)' \in {0, IF id = rows[t].id THEN late ELSE 0}
       /\ \A u \in Stored : Bound(u) = rows[u].trigger
       /\ \A u \in Stored : Bound(u)' = rows[u].trigger + (IF u = t THEN late ELSE 0)
    <2>1. \A id \in Nat : Owed(id) = 0 /\ Owed(id)' \in {0, IF id = rows[t].id THEN late ELSE 0}
        BY <1>1, <1>8 DEF Owed
    <2>2. \A u \in Stored : Bound(u) = rows[u].trigger
        BY <1>1 DEF Bound
    <2>3. \A u \in Stored : u # t => Bound(u)' = rows[u].trigger /\ rows[u].trigger \in Nat
        BY <1>1, <1>8, Numbers DEF Bound
    <2>4. Bound(t)' = rows[t].trigger + late
        BY <1>5, <1>8 DEF Bound
    <2> QED BY <2>1, <2>2, <2>3, <2>4
<1> HIDE DEF late
<1>11. SentOK'
    <2>1. \A u \in Txs : sentAt'[u] # 0 \/ u \in Stored' => \E r \in Requests : req'[r].step # "new"
        BY <1>1, <1>6, <1>9 DEF SentOK
    <2>2. \A u \in Stored' : sentAt'[u] # 0 => u = t
        BY <1>1, <1>6, <1>9 DEF SentOK, Stored
    <2>3. orch'.step = "shift" => rows'[orch'.tx].trigger + orch'.shift = orch'.height
        BY <1>1, <1>5, <1>8 DEF late
    <2>4. sentAt'[orch'.tx] >= orch'.height
        BY <1>5, <1>6, <1>8
    <2> QED BY <1>1, <1>6, <1>8, <2>1, <2>2, <2>3, <2>4 DEF SentOK
<1>12. RowLinks'
    <2> SUFFICES ASSUME NEW u \in Stored
                 PROVE  /\ rows[u].parent # NoId =>
                              rows[u].trigger + Owed(rows[u].parent)' <= Bound(rows[u].parentTx)' + rows[u].delay
                        /\ rows[u].parent = NoId /\ rows[u].parentTx # NoTx =>
                              rows[u].trigger <= sentAt'[rows[u].parentTx] + rows[u].delay
        BY <1>1, <1>9 DEF RowLinks
    <2>1. rows[u].trigger \in Nat /\ rows[u].delay \in Nat /\ rows[u].parent \in Nat
        BY Numbers
    <2>2. ASSUME rows[u].parent = NoId, rows[u].parentTx # NoTx
          PROVE  rows[u].trigger <= sentAt'[rows[u].parentTx] + rows[u].delay
        <3>1. rows[u].trigger <= sentAt[rows[u].parentTx] + rows[u].delay /\ rows[u].parentTx \in Txs
            BY <1>1, <2>2, Numbers DEF RowLinks
        <3> QED BY <1>7, <2>1, <3>1
    <2>3. ASSUME rows[u].parent # NoId
          PROVE  rows[u].trigger + Owed(rows[u].parent)' <= Bound(rows[u].parentTx)' + rows[u].delay
        <3>1. PICK p \in Stored : p = rows[u].parentTx /\ rows[p].id = rows[u].parent
            BY <2>3, ParentIsThere
        <3>2. PICK id \in Nat : id = rows[u].parent
            BY <2>1
        <3>3. rows[u].trigger <= rows[p].trigger + rows[u].delay /\ rows[p].trigger \in Nat
            BY <1>1, <1>10, <2>1, <2>3, <3>1, Numbers DEF RowLinks
        <3>4. id = rows[t].id => p = t
            BY <2>3, <3>1, <3>2, ParentIsThere
        <3>5. Owed(id)' \in {0, IF p = t THEN late ELSE 0} /\ Bound(p)' = rows[p].trigger + (IF p = t THEN late ELSE 0)
            BY <1>10, <3>4
        <3>6. rows[u].trigger + Owed(id)' <= Bound(p)' + rows[u].delay
            BY <1>9, <2>1, <3>3, <3>5
        <3>7. rows' = rows
            BY <1>1
        <3>8. Owed(rows[u].parent)' = Owed(id)' /\ Bound(rows[u].parentTx)' = Bound(p)'
            BY <3>1, <3>2, <3>7 DEF Owed, Bound
        <3> QED BY <3>6, <3>8
    <2> QED BY <2>2, <2>3
<1>13. CallLinks'
    <2> SUFFICES ASSUME NEW r \in Requests, Begun(r) PROVE CallLink(r)'
        BY <1>1 DEF CallLinks, Begun
    <2>1. CallLink(r) /\ CallOK(r) /\ Script(r)' = Script(r) /\ Position(r)' = Position(r)
        BY <1>1, ScriptsStay DEF CallLinks, Position, PushInv, CallsOK
    <2>2. \A j \in Position(r) .. Len(Script(r)) :
            sentAt'[Script(r)[j].tx] = 0 /\ Script(r)[j].tx \notin Stored
        <3> SUFFICES ASSUME NEW j \in Position(r) .. Len(Script(r))
                     PROVE  sentAt'[Script(r)[j].tx] = 0 /\ Script(r)[j].tx \notin Stored
            OBVIOUS
        <3>1. sentAt[Script(r)[j].tx] = 0 /\ Script(r)[j].tx \notin Stored
            BY <2>1 DEF CallLink
        <3>2. Script(r)[j].tx \in Txs
            <4>1. Len(req[r].script) \in Nat /\ Len(Script(r)) \in Nat /\ Len(req[r].script) <= Len(Script(r))
                <5>1. req[r].script \in Seq(Entry) /\ Script(r) \in Seq(ClientEntry)
                    BY <1>1, CallTypes, EntryTypes
                <5> QED BY <2>1, <5>1 DEF CallOK
            <4>2. j \in 1 .. Len(Script(r))
                BY <4>1 DEF Position
            <4> QED BY <1>1, <4>2, EntryTypes
        <3>3. Script(r)[j].tx # t
            BY <3>1
        <3> QED BY <1>6, <3>1, <3>2, <3>3
    <2>3. req[r].step = "first" /\ req[r].parentTx # NoTx => sentAt'[req[r].parentTx] >= req[r].parentNlt
        <3>1. req[r].parentTx # NoTx => req[r].parentTx \in Txs
            <4>1. req[r] \in Call
                BY <1>1 DEF TypeOK
            <4> QED BY <4>1 DEF Call
        <3>2. req[r].parentNlt \in Nat
            BY Numbers
        <3> QED BY <1>7, <2>1, <3>1, <3>2 DEF CallLink
    <2>4. ASSUME req[r].parentId # NoId, req[r].parentTx \in Stored, rows[req[r].parentTx].id = req[r].parentId
          PROVE  req[r].parentNlt + Owed(req[r].parentId)' <= Bound(req[r].parentTx)'
        <3>1. PICK p \in Stored : p = req[r].parentTx
            BY <2>4
        <3>2. PICK id \in Nat : id = req[r].parentId
            BY Numbers
        <3>3. req[r].parentNlt <= rows[p].trigger /\ req[r].parentNlt \in Nat /\ rows[p].trigger \in Nat
            BY <1>10, <2>1, <2>4, <3>1, <3>2, Numbers DEF CallLink
        <3>4. id = rows[t].id => p = t
            BY <2>4, <3>1, <3>2 DEF PushInv, RowsOK
        <3>5. Owed(id)' \in {0, IF p = t THEN late ELSE 0} /\ Bound(p)' = rows[p].trigger + (IF p = t THEN late ELSE 0)
            BY <1>10, <3>4
        <3>6. req[r].parentNlt + Owed(id)' <= Bound(p)'
            BY <1>9, <3>3, <3>5
        <3>7. req' = req
            BY <1>1
        <3>8. Owed(req[r].parentId)' = Owed(id)' /\ Bound(req[r].parentTx)' = Bound(p)'
            BY <3>1, <3>2, <3>7 DEF Owed, Bound
        <3> QED BY <3>6, <3>8
    <2> QED BY <1>1, <1>9, <2>1, <2>2, <2>3, <2>4 DEF CallLink
<1> QED BY <1>11, <1>12, <1>13 DEF LinksOK

\* What was owed to the rows after the cursor is added to one, and owed to those after it.
LEMMA ShiftNextLinks ==
    ASSUME PushInv, LinksOK, ShiftNext
    PROVE  LinksOK'
<1>1. /\ orch.step = "shift" /\ orch \in Orch /\ rows \in [Txs -> Row] /\ orch.cursor # NoId
      /\ orch.shift \in Nat /\ orch.cursor \in Nat /\ orch.height \in Nat
      /\ UNCHANGED <<height, up, asked, nextId, req, sentAt, rejected, unsent>>
      /\ TypeOK /\ SentOK /\ RowLinks /\ CallLinks
    BY Numbers DEF ShiftNext, PushInv, TypeOK, OrchOK, LinksOK, outside, ghosts
<1>2. PICK t \in Stored :
        /\ rows[t].parent = orch.cursor
        /\ rows' = [rows EXCEPT ![t].trigger = rows[t].trigger + orch.shift]
        /\ orch' = [orch EXCEPT !.cursor = rows[t].id]
    BY DEF ShiftNext, UpdateTrigger, NextScheduledTransactions
<1>3. t \in Txs /\ rows[t] \in Row /\ rows[t].id \in Nat /\ rows[t].trigger \in Nat /\ rows[t].id > 0
      /\ NoId = 0 /\ rows[t].parent # NoId
    BY <1>1, <1>2, Numbers DEF NoId
<1>4. /\ orch'.step = "shift" /\ orch'.tx = orch.tx /\ orch'.height = orch.height
      /\ orch'.shift = orch.shift /\ orch'.cursor = rows[t].id
    BY <1>1, <1>2 DEF Orch
<1>5. /\ \A u \in Txs \ {t} : rows'[u] = rows[u]
      /\ rows'[t].id = rows[t].id /\ rows'[t].parent = rows[t].parent
      /\ rows'[t].parentTx = rows[t].parentTx /\ rows'[t].delay = rows[t].delay
      /\ rows'[t].trigger = rows[t].trigger + orch.shift
    BY <1>1, <1>2, <1>3 DEF Row
<1>6. Stored' = Stored
    <2>1. rows'[t] # NoRow
        BY <1>3, <1>5 DEF NoRow
    <2> QED BY <1>3, <1>5, <2>1 DEF Stored
<1>7. orch.tx \in Stored /\ orch.tx # t /\ rows[orch.tx].parent = NoId
    BY <1>1, <1>3, RowAtHand
<1>8. /\ \A u \in Stored : Bound(u)' = Bound(u) + (IF u = t THEN orch.shift ELSE 0)
      /\ \A id \in Nat : Owed(id) = (IF id = rows[t].parent THEN orch.shift ELSE 0)
      /\ \A id \in Nat : Owed(id)' = (IF id = rows[t].id THEN orch.shift ELSE 0)
    <2>1. \A u \in Stored : u # t => Bound(u)' = Bound(u) /\ Bound(u) \in Nat
        BY <1>1, <1>4, <1>5, Numbers DEF Bound
    <2>2. Bound(t)' = Bound(t) + orch.shift
        BY <1>4, <1>5, <1>7 DEF Bound
    <2>3. \A id \in Nat : Owed(id) = (IF id = rows[t].parent THEN orch.shift ELSE 0)
        BY <1>1, <1>2 DEF Owed
    <2>4. \A id \in Nat : Owed(id)' = (IF id = rows[t].id THEN orch.shift ELSE 0)
        BY <1>4 DEF Owed
    <2> QED BY <2>1, <2>2, <2>3, <2>4
<1>9. SentOK'
    <2>1. rows'[orch.tx] = rows[orch.tx]
        BY <1>5, <1>7 DEF Stored
    <2> QED BY <1>1, <1>4, <1>6, <2>1 DEF SentOK
<1>10. RowLinks'
    <2> SUFFICES ASSUME NEW u \in Stored
                 PROVE  /\ rows'[u].parent # NoId =>
                              rows'[u].trigger + Owed(rows[u].parent)' <= Bound(rows[u].parentTx)' + rows'[u].delay
                        /\ rows'[u].parent = NoId /\ rows'[u].parentTx # NoTx =>
                              rows'[u].trigger <= sentAt'[rows'[u].parentTx] + rows'[u].delay
        BY <1>6 DEF RowLinks
    <2>1. rows[u].trigger \in Nat /\ rows[u].delay \in Nat /\ rows[u].parent \in Nat /\ u \in Txs
        BY Numbers
    <2>2. /\ rows'[u].parent = rows[u].parent /\ rows'[u].parentTx = rows[u].parentTx
          /\ rows'[u].delay = rows[u].delay
          /\ rows'[u].trigger = rows[u].trigger + (IF u = t THEN orch.shift ELSE 0)
        BY <1>5, <2>1
    <2>3. ASSUME rows[u].parent = NoId, rows[u].parentTx # NoTx
          PROVE  rows'[u].trigger <= sentAt'[rows'[u].parentTx] + rows'[u].delay
        <3>1. u # t /\ rows[u].trigger <= sentAt[rows[u].parentTx] + rows[u].delay
            BY <1>1, <1>3, <2>3 DEF RowLinks
        <3> QED BY <1>1, <1>5, <2>1, <3>1
    <2>4. ASSUME rows[u].parent # NoId
          PROVE  rows'[u].trigger + Owed(rows[u].parent)' <= Bound(rows[u].parentTx)' + rows'[u].delay
        <3>1. PICK p \in Stored : p = rows[u].parentTx /\ rows[p].id = rows[u].parent /\ p # u
            BY <2>4, ParentIsThere
        <3>2. PICK id \in Nat : id = rows[u].parent
            BY <2>1
        <3>3. rows[u].trigger + Owed(id) <= Bound(p) + rows[u].delay /\ Bound(p) \in Nat
            BY <1>1, <2>4, <3>1, <3>2, Numbers DEF RowLinks
        <3>4. id = rows[t].id <=> p = t
            BY <2>4, <3>1, <3>2, ParentIsThere
        <3>5. u = t => id = rows[t].parent /\ p # t /\ id # rows[t].id
            BY <3>1, <3>2, <3>4
        <3>6. p = t => id # rows[t].parent
            BY <1>3, <3>4, ParentIsThere
        <3>7. /\ Owed(id) = (IF id = rows[t].parent THEN orch.shift ELSE 0)
              /\ Owed(id)' = (IF p = t THEN orch.shift ELSE 0)
              /\ Bound(p)' = Bound(p) + (IF p = t THEN orch.shift ELSE 0)
            BY <1>8, <3>4
        <3>8. rows'[u].trigger + Owed(id)' <= Bound(p)' + rows[u].delay
            <4>1. CASE u = t
                BY <1>1, <2>1, <2>2, <3>3, <3>5, <3>7, <4>1
            <4>2. CASE u # t /\ p = t
                BY <1>1, <2>1, <2>2, <3>3, <3>6, <3>7, <4>2
            <4>3. CASE u # t /\ p # t
                BY <1>1, <2>1, <2>2, <3>3, <3>7, <4>3
            <4> QED BY <4>1, <4>2, <4>3
        <3>9. Owed(rows[u].parent)' = Owed(id)' /\ Bound(rows[u].parentTx)' = Bound(p)'
            BY <2>2, <3>1, <3>2 DEF Owed, Bound
        <3> QED BY <2>2, <3>8, <3>9
    <2> QED BY <2>2, <2>3, <2>4
<1>11. CallLinks'
    <2> SUFFICES ASSUME NEW r \in Requests, Begun(r) PROVE CallLink(r)'
        BY <1>1 DEF CallLinks, Begun
    <2>1. CallLink(r) /\ Script(r)' = Script(r) /\ Position(r)' = Position(r)
        BY <1>1, ScriptsStay DEF CallLinks, Position
    <2>2. ASSUME req[r].parentId # NoId, req[r].parentTx \in Stored, rows'[req[r].parentTx].id = req[r].parentId
          PROVE  req[r].parentNlt + Owed(req[r].parentId)' <= Bound(req[r].parentTx)'
        <3>1. PICK p \in Stored : p = req[r].parentTx
            BY <2>2
        <3>2. PICK id \in Nat : id = req[r].parentId
            BY Numbers
        <3>3. rows[p].id = id /\ p \in Txs
            BY <1>5, <2>2, <3>1, <3>2, Numbers
        <3>4. /\ req[r].parentNlt + Owed(id) <= Bound(p) /\ req[r].parentNlt \in Nat /\ Bound(p) \in Nat
              /\ Owed(id) \in Nat
            BY <2>1, <2>2, <3>1, <3>2, <3>3, Numbers DEF CallLink
        <3>5. id = rows[t].id <=> p = t
            BY <3>3 DEF PushInv, RowsOK
        <3>6. /\ Owed(id)' = (IF p = t THEN orch.shift ELSE 0)
              /\ Bound(p)' = Bound(p) + (IF p = t THEN orch.shift ELSE 0)
            BY <1>8, <3>5
        <3>7. req[r].parentNlt + Owed(id)' <= Bound(p)'
            BY <1>1, <3>4, <3>6
        <3>8. req' = req
            BY <1>1
        <3>9. Owed(req[r].parentId)' = Owed(id)' /\ Bound(req[r].parentTx)' = Bound(p)'
            BY <3>1, <3>2, <3>8 DEF Owed, Bound
        <3> QED BY <3>7, <3>9
    <2>3. \A j \in Position(r) .. Len(Script(r)) :
            sentAt'[Script(r)[j].tx] = 0 /\ Script(r)[j].tx \notin Stored
        BY <1>1, <2>1 DEF CallLink
    <2>4. req[r].step = "first" /\ req[r].parentTx # NoTx => sentAt'[req[r].parentTx] >= req[r].parentNlt
        BY <1>1, <2>1 DEF CallLink
    <2> QED BY <1>1, <1>6, <2>1, <2>2, <2>3, <2>4 DEF CallLink
<1> QED BY <1>9, <1>10, <1>11 DEF LinksOK

\* When the rows that follow are all put off, nothing is owed any more.
LEMMA EndShiftLinks ==
    ASSUME PushInv, LinksOK, EndShift
    PROVE  LinksOK'
<1>1. /\ orch.step = "shift" /\ orch \in Orch
      /\ orch' = [orch EXCEPT !.step = "delete", !.cursor = NoId, !.shift = 0]
      /\ UNCHANGED <<height, up, asked, nextId, req, rows, sentAt, rejected, unsent>>
      /\ TypeOK /\ SentOK /\ RowLinks /\ CallLinks
    BY Numbers DEF EndShift, PushInv, LinksOK, outside, ghosts
<1>2. orch'.step = "delete" /\ orch'.tx = orch.tx /\ orch'.height = orch.height
    BY <1>1 DEF Orch
<1>3. /\ Stored' = Stored /\ \A u \in Txs : Bound(u)' = Bound(u)
      /\ \A id \in Nat : Owed(id)' = 0
    BY <1>1, <1>2 DEF Stored, Bound, Owed
<1>4. SentOK'
    BY <1>1, <1>2, <1>3 DEF SentOK
<1>5. RowLinks'
    <2> SUFFICES ASSUME NEW u \in Stored, rows[u].parent # NoId
                 PROVE  rows[u].trigger + Owed(rows[u].parent)' <= Bound(rows[u].parentTx)' + rows[u].delay
        BY <1>1, <1>3 DEF RowLinks
    <2>1. PICK p \in Stored : p = rows[u].parentTx
        BY ParentIsThere
    <2>2. PICK id \in Nat : id = rows[u].parent
        BY Numbers
    <2>3. rows[u].trigger + Owed(id) <= Bound(p) + rows[u].delay
        BY <1>1, <2>1, <2>2 DEF RowLinks
    <2>4. rows[u].trigger \in Nat /\ rows[u].delay \in Nat /\ Bound(p) \in Nat /\ Owed(id) \in Nat /\ p \in Txs
        BY Numbers
    <2>5. rows[u].trigger + Owed(id)' <= Bound(p)' + rows[u].delay
        BY <1>3, <2>3, <2>4
    <2> QED BY <1>1, <2>1, <2>2, <2>5 DEF Owed, Bound
<1>6. CallLinks'
    <2> SUFFICES ASSUME NEW r \in Requests, Begun(r) PROVE CallLink(r)'
        BY <1>1 DEF CallLinks, Begun
    <2>1. CallLink(r) /\ Script(r)' = Script(r) /\ Position(r)' = Position(r)
        BY <1>1, ScriptsStay DEF CallLinks, Position
    <2>2. ASSUME req[r].parentId # NoId, req[r].parentTx \in Stored, rows[req[r].parentTx].id = req[r].parentId
          PROVE  req[r].parentNlt + Owed(req[r].parentId)' <= Bound(req[r].parentTx)'
        <3>1. PICK p \in Stored : p = req[r].parentTx
            BY <2>2
        <3>2. PICK id \in Nat : id = req[r].parentId
            BY Numbers
        <3>3. /\ req[r].parentNlt + Owed(id) <= Bound(p) /\ req[r].parentNlt \in Nat /\ Bound(p) \in Nat
              /\ Owed(id) \in Nat /\ p \in Txs
            BY <2>1, <2>2, <3>1, <3>2, Numbers DEF CallLink
        <3>4. req[r].parentNlt + Owed(id)' <= Bound(p)'
            BY <1>3, <3>3
        <3> QED BY <1>1, <3>1, <3>2, <3>4 DEF Owed, Bound
    <2> QED BY <1>1, <1>3, <2>1, <2>2 DEF CallLink
<1> QED BY <1>4, <1>5, <1>6 DEF LinksOK

\* The row that was pushed is deleted: those that follow it wait for it alone.
LEMMA DeleteScheduledLinks ==
    ASSUME PushInv, LinksOK, faults' = 0, DeleteScheduled
    PROVE  LinksOK'
<1>1. /\ orch.step = "delete" /\ orch \in Orch /\ faults \in Nat /\ NoId = 0
      /\ UNCHANGED <<height, up, asked, nextId, req, sentAt, rejected, unsent>>
      /\ TypeOK /\ SentOK /\ RowLinks /\ CallLinks
    BY Numbers DEF DeleteScheduled, PushInv, TypeOK, LinksOK, outside, ghosts, NoId
<1>2. PICK t \in Stored : t = orch.tx /\ t \in Txs /\ rows[t].trigger <= orch.height
    BY <1>1, RowAtHand
<1>3. /\ DeleteRow(t)
      /\ orch' = [orch EXCEPT !.step = "loop", !.txs = @ \ {orch.tx}, !.tx = NoTx, !.pushed = TRUE]
    BY <1>1, <1>2 DEF DeleteScheduled
<1>4. orch'.step = "loop"
    BY <1>1, <1>3 DEF Orch
<1>5. /\ Stored' = Stored \ {t}
      /\ \A u \in Stored' :
           /\ u \in Stored /\ u \in Txs /\ u # t /\ rows'[u].id = rows[u].id
           /\ rows'[u].parentTx = rows[u].parentTx
           /\ rows'[u].delay = rows[u].delay /\ rows'[u].trigger = rows[u].trigger
           /\ rows'[u].parent = IF rows[u].parent = rows[t].id THEN NoId ELSE rows[u].parent
    BY <1>3, DeletedRow
<1>6. /\ \A u \in Stored' : Bound(u) = rows[u].trigger /\ Bound(u)' = rows[u].trigger
      /\ Bound(t) = orch.height
      /\ \A id \in Nat : Owed(id) = 0 /\ Owed(id)' = 0
    BY <1>1, <1>2, <1>4, <1>5 DEF Bound, Owed
<1>7. SentOK'
    BY <1>1, <1>2, <1>4, <1>5 DEF SentOK
<1>8. RowLinks'
    <2> SUFFICES ASSUME NEW u \in Stored'
                 PROVE  /\ rows'[u].parent # NoId =>
                              rows'[u].trigger + Owed(rows[u].parent)' <= Bound(rows[u].parentTx)' + rows'[u].delay
                        /\ rows'[u].parent = NoId /\ rows'[u].parentTx # NoTx =>
                              rows'[u].trigger <= sentAt'[rows'[u].parentTx] + rows'[u].delay
        BY DEF RowLinks
    <2>1. /\ u \in Stored /\ u \in Txs /\ u # t
          /\ rows'[u].parentTx = rows[u].parentTx
          /\ rows'[u].delay = rows[u].delay /\ rows'[u].trigger = rows[u].trigger
          /\ rows'[u].parent = IF rows[u].parent = rows[t].id THEN NoId ELSE rows[u].parent
        BY <1>5
    <2>2. rows[u].trigger \in Nat /\ rows[u].delay \in Nat /\ rows[u].parent \in Nat
        BY <2>1, Numbers
    <2>3. ASSUME rows[u].parent # NoId
          PROVE  /\ rows[u].trigger <= Bound(rows[u].parentTx) + rows[u].delay
                 /\ rows[u].parentTx \in Stored /\ Bound(rows[u].parentTx) \in Nat
        <3>1. PICK p \in Stored : p = rows[u].parentTx
            BY <2>1, <2>3, ParentIsThere
        <3>2. PICK id \in Nat : id = rows[u].parent
            BY <2>2
        <3>3. rows[u].trigger + Owed(id) <= Bound(p) + rows[u].delay
            BY <1>1, <2>1, <2>3, <3>1, <3>2 DEF RowLinks
        <3>4. Bound(p) \in Nat
            BY Numbers
        <3> QED BY <1>6, <2>2, <3>1, <3>3, <3>4
    <2>4. CASE rows[u].parent = rows[t].id
        <3>1. rows[u].parent # NoId
            BY <1>1, <2>4, Numbers
        <3>2. rows[u].parentTx = t
            BY <2>1, <2>4, <3>1, ParentIsThere
        <3>3. sentAt[t] >= orch.height /\ sentAt[t] \in Nat /\ orch.height \in Nat
            BY <1>1, <1>2, Numbers DEF SentOK
        <3>4. rows[u].trigger <= orch.height + rows[u].delay
            BY <1>6, <2>3, <3>1, <3>2
        <3>5. rows[u].trigger <= sentAt[t] + rows[u].delay
            BY <2>2, <3>3, <3>4
        <3> QED BY <1>1, <2>1, <2>4, <3>2, <3>5
    <2>5. CASE rows[u].parent # rows[t].id /\ rows[u].parent # NoId
        <3>1. PICK p \in Stored : p = rows[u].parentTx /\ rows[p].id = rows[u].parent
            BY <2>1, <2>5, ParentIsThere
        <3>2. PICK id \in Nat : id = rows[u].parent
            BY <2>2
        <3>3. p # t /\ p \in Stored'
            BY <1>5, <2>5, <3>1
        <3>4. rows[u].trigger <= Bound(p) + rows[u].delay
            BY <2>3, <2>5, <3>1
        <3>5. rows[u].trigger + Owed(id)' <= Bound(p)' + rows[u].delay
            BY <1>6, <2>2, <3>3, <3>4
        <3>6. rows'[u].parent = id /\ rows'[u].parentTx = p
            BY <2>1, <2>5, <3>1, <3>2
        <3>7. Owed(rows[u].parent)' = Owed(id)' /\ Bound(rows[u].parentTx)' = Bound(p)'
            BY <3>6 DEF Owed, Bound
        <3> QED BY <2>1, <2>5, <3>5, <3>7
    <2>6. CASE rows[u].parent = NoId
        <3>1. rows'[u].parent = NoId
            BY <2>1, <2>6
        <3>2. rows[u].parentTx # NoTx => rows[u].trigger <= sentAt[rows[u].parentTx] + rows[u].delay
            BY <1>1, <2>1, <2>6 DEF RowLinks
        <3> QED BY <1>1, <2>1, <3>1, <3>2
    <2> QED BY <2>4, <2>5, <2>6
<1>9. CallLinks'
    <2> SUFFICES ASSUME NEW r \in Requests, Begun(r) PROVE CallLink(r)'
        BY <1>1 DEF CallLinks, Begun
    <2>1. CallLink(r) /\ Script(r)' = Script(r) /\ Position(r)' = Position(r)
        BY <1>1, ScriptsStay DEF CallLinks, Position
    <2>2. ASSUME req[r].parentId # NoId, req[r].parentTx \in Stored', rows'[req[r].parentTx].id = req[r].parentId
          PROVE  req[r].parentNlt + Owed(req[r].parentId)' <= Bound(req[r].parentTx)'
        <3>1. PICK p \in Stored : p = req[r].parentTx /\ p \in Stored' /\ rows'[p].id = rows[p].id
            BY <1>5, <2>2
        <3>2. PICK id \in Nat : id = req[r].parentId
            BY Numbers
        <3>3. req[r].parentNlt + Owed(id) <= Bound(p)
            BY <2>1, <2>2, <3>1, <3>2 DEF CallLink
        <3>4. req[r].parentNlt + Owed(id)' <= Bound(p)'
            BY <1>6, <3>1, <3>3
        <3> QED BY <1>1, <3>1, <3>2, <3>4 DEF Owed, Bound
    <2>3. \A j \in Position(r) .. Len(Script(r)) :
            sentAt'[Script(r)[j].tx] = 0 /\ Script(r)[j].tx \notin Stored'
        BY <1>1, <1>5, <2>1 DEF CallLink
    <2>4. req[r].step = "first" /\ req[r].parentTx # NoTx => sentAt'[req[r].parentTx] >= req[r].parentNlt
        BY <1>1, <2>1 DEF CallLink
    <2> QED BY <1>1, <2>1, <2>2, <2>3, <2>4 DEF CallLink
<1> QED BY <1>7, <1>8, <1>9 DEF LinksOK

LEMMA InitShiftInv == Init => ShiftInv
<1> SUFFICES ASSUME Init PROVE LinksOK
    BY DEF ShiftInv
<1>1. /\ up = TRUE /\ rejected = {} /\ unsent = {} /\ orch.step = "idle"
      /\ \A t \in Txs : sentAt[t] = 0 /\ rows[t] = NoRow
      /\ \A r \in Requests : req[r].step = "new"
    BY DEF Init, OrchIdle, Over
<1>2. Stored = {}
    BY <1>1 DEF Stored
<1>3. SentOK /\ RowLinks
    BY <1>1, <1>2 DEF SentOK, RowLinks
<1>4. CallLinks
    BY <1>1 DEF CallLinks, Begun
<1> QED BY <1>3, <1>4 DEF LinksOK

\* The processes never go back to a new call, nor take back a crash or a fault.
LEMMA QuietBefore ==
    ASSUME PushInv, [Next]_vars, OneQuietRequest'
    PROVE  OneQuietRequest /\ UNCHANGED <<crashes, faults>>
<1>1. crashes \in Nat /\ faults \in Nat /\ crashes' = 0 /\ faults' = 0
    BY DEF PushInv, TypeOK, OneQuietRequest
<1>2. /\ crashes' = crashes \/ crashes' = crashes + 1
      /\ faults' = faults \/ faults' = faults + 1
      /\ \A r \in Requests : req[r].step # "new" => req'[r].step # "new"
    <2>0. req \in [Requests -> Call]
        BY DEF PushInv, TypeOK
    <2>1. CASE Environment
        BY <2>1 DEF Environment, NewBlock, Reorg, Disconnect, Reconnect, Evict
    <2>2. ASSUME NEW r \in Requests, Scheduler(r)
          PROVE  /\ crashes' = crashes
                 /\ faults' = faults \/ faults' = faults + 1
                 /\ req[r].step # "new" => req'[r].step # "new"
                 /\ \A q \in Requests : q # r => req'[q] = req[q]
        <3>1. CASE Schedule(r)
            BY <2>0, <3>1 DEF Schedule
        <3>2. CASE PushFirst(r)
            <4>1. /\ crashes' = crashes
                  /\ faults' = faults \/ faults' = faults + 1
                BY <3>2 DEF PushFirst, PushAccepted, PushRejected, ghosts
            <4>2. req[r] \in Call /\ req[r].step = "first"
                BY <2>0, <3>2 DEF PushFirst
            <4>3. CASE req' = [req EXCEPT ![r].script = Tail(@), ![r].parentTx = req[r].script[1].tx,
                                         ![r].parentNlt = req[r].script[1].nlocktime]
                BY <2>0, <4>1, <4>2, <4>3 DEF Call
            <4>4. CASE req' = [req EXCEPT ![r] = Over("failed")]
                BY <2>0, <4>1, <4>4 DEF Over
            <4> QED BY <3>2, <4>3, <4>4 DEF PushFirst
        <3>3. CASE StoreEntry(r)
            <4>1. /\ crashes' = crashes
                  /\ faults' = faults \/ faults' = faults + 1
                BY <3>3 DEF StoreEntry
            <4>2. \A q \in Requests : q # r => req'[q] = req[q]
                BY <2>0, <3>3 DEF StoreEntry
            <4>3. req'[r].step # "new"
                <5>1. CASE req' = [req EXCEPT ![r] = Over("failed")]
                    BY <2>0, <5>1 DEF Over
                <5>2. ASSUME NEW c \in Call, c = req[r],
                             req' = [req EXCEPT ![r] =
                                 [c EXCEPT !.step = "store", !.script = Tail(req[r].script),
                                           !.parentTx = req[r].script[1].tx,
                                           !.parentNlt = req[r].script[1].nlocktime,
                                           !.parentId = nextId]]
                      PROVE  req'[r].step = "store"
                    BY <2>0, <5>2 DEF Call
                <5> QED BY <2>0, <3>3, <5>1, <5>2 DEF StoreEntry
            <4> QED BY <4>1, <4>2, <4>3
        <3>4. CASE Scheduled(r)
            BY <2>0, <3>4 DEF Scheduled, Over
        <3> QED BY <2>2, <3>1, <3>2, <3>3, <3>4 DEF Scheduler
    <2>3. CASE SchedulerCrash
        BY <2>0, <2>3 DEF SchedulerCrash, Over
    <2>4. CASE Orchestrator
        BY <2>4 DEF Orchestrator, OnBlockHash, SelectActivated, NextActivated, EndLoop,
                    PushScheduled, PushAccepted, PushRejected, ghosts, ShiftNext, EndShift, DeleteScheduled
    <2>5. CASE OrchestratorCrash \/ Start
        BY <2>5 DEF OrchestratorCrash, Start
    <2>6. CASE UNCHANGED vars
        BY <2>6 DEF vars
    <2> QED BY <2>1, <2>2, <2>3, <2>4, <2>5, <2>6 DEF Next
<1> QED BY <1>1, <1>2 DEF OneQuietRequest

LEMMA StepShiftInv == PushInv /\ PushInv' /\ ShiftInv /\ [Next]_vars => ShiftInv'
<1> SUFFICES ASSUME PushInv, PushInv', ShiftInv, [Next]_vars, OneQuietRequest'
             PROVE  LinksOK'
    BY DEF ShiftInv
<1>1. LinksOK /\ crashes' = crashes /\ faults' = faults /\ faults' = 0
    BY QuietBefore DEF ShiftInv, OneQuietRequest
<1>2. up /\ orch \in Orch /\ req \in [Requests -> Call]
    BY <1>1 DEF LinksOK, SentOK, PushInv, TypeOK, Orch
<1>3. faults \in Nat /\ crashes \in Nat
    BY DEF PushInv, TypeOK
<1>4. CASE Environment
    <2>1. ASSUME NEW mined \in SUBSET mempool, NEW told \in BOOLEAN, NewBlock(mined, told)
          PROVE  UNCHANGED <<up, rejected, unsent, sentAt, rows, asked, orch, req>>
        BY <2>1 DEF NewBlock, ghosts
    <2>2. CASE Reorg
        BY <1>1, <2>2, LinksKept DEF Reorg, ghosts
    <2>3. ~Disconnect /\ ~Reconnect /\ ~(\E t \in Txs : Evict(t))
        BY <1>1, <1>2, <1>3 DEF Disconnect, Reconnect, Evict
    <2> QED BY <1>1, <1>4, <2>1, <2>2, <2>3, LinksKept DEF Environment
<1>5. ASSUME NEW r \in Requests, Scheduler(r) PROVE LinksOK'
    <2>1. CASE Scheduled(r)
        <3>1. /\ UNCHANGED <<up, rejected, unsent, sentAt, rows, asked, orch>>
              /\ \A q \in Requests : req'[q] = req[q] \/ req'[q].step = "done"
            BY <1>2, <2>1 DEF Scheduled, outside, ghosts, Over
        <3> QED BY <1>1, <3>1, LinksKept
    <2> QED BY <1>1, <1>5, <2>1, ScheduleLinks, PushFirstLinks, StoreEntryLinks DEF Scheduler
<1>6. CASE SchedulerCrash \/ OrchestratorCrash
    BY <1>1, <1>3, <1>6 DEF SchedulerCrash, OrchestratorCrash
<1>7. CASE Orchestrator
    <2>1. ASSUME OnBlockHash \/ SelectActivated \/ EndLoop \/ \E t \in Txs : NextActivated(t)
          PROVE  LinksOK'
        <3>1. /\ UNCHANGED <<up, rejected, unsent, sentAt, rows, asked, req>>
              /\ orch.step \notin {"shift", "delete"}
            BY <2>1 DEF OnBlockHash, SelectActivated, EndLoop, NextActivated, outside, ghosts
        <3>2. orch'.step \notin {"shift", "delete"}
            <4>1. CASE OnBlockHash
                <5>1. CASE up
                    BY <4>1, <5>1 DEF OnBlockHash, OrchIdle
                <5>2. CASE ~up
                    BY <4>1, <5>2 DEF OnBlockHash, OrchIdle
                <5> QED BY <5>1, <5>2
            <4>2. CASE SelectActivated
                <5>1. CASE orch' = OrchIdle
                    BY <5>1 DEF OrchIdle
                <5>2. CASE orch' = [orch EXCEPT !.step = "loop", !.txs = Activated(orch.height),
                                                !.pushed = FALSE]
                    BY <1>2, <5>2 DEF Orch
                <5> QED BY <4>2, <5>1, <5>2 DEF SelectActivated
            <4>3. CASE EndLoop
                BY <1>2, <4>3 DEF EndLoop, OrchIdle, Orch
            <4>4. ASSUME NEW t \in Txs, NextActivated(t)
                  PROVE  orch'.step \notin {"shift", "delete"}
                BY <1>2, <4>4 DEF NextActivated, Orch
            <4> QED BY <2>1, <4>1, <4>2, <4>3, <4>4
        <3> QED BY <1>1, <3>1, <3>2, LinksKept
    <2> QED BY <1>1, <1>7, <2>1, PushScheduledLinks, ShiftNextLinks, EndShiftLinks, DeleteScheduledLinks
            DEF Orchestrator
<1>8. CASE Start
    <2>1. /\ UNCHANGED <<up, rejected, unsent, sentAt, rows, asked, req>>
          /\ orch.step \notin {"shift", "delete"} /\ orch'.step \notin {"shift", "delete"}
        BY <1>8 DEF Start, OrchIdle, outside, ghosts
    <2> QED BY <1>1, <2>1, LinksKept
<1>9. CASE UNCHANGED vars
    <2>1. UNCHANGED <<up, rejected, unsent, sentAt, rows, asked, req, orch>>
        BY <1>9 DEF vars
    <2> QED BY <1>1, <2>1, LinksKept
<1> QED BY <1>4, <1>5, <1>6, <1>7, <1>8, <1>9 DEF Next

\* ShiftedOnce is an invariant: updateTriggers puts a transaction off by no more than its
\* predecessor was late, whatever blocks and reorganisations come between its reads and
\* updates of the table.
THEOREM ShiftsOnce == Spec => []ShiftedOnce
<1>1. PushInv /\ ShiftInv => ShiftedOnce
    BY DEF ShiftInv, OneQuietRequest, LinksOK, RowLinks, ShiftedOnce
<1>2. Init => ShiftInv
    BY InitShiftInv
<1>3. PushInv /\ PushInv' /\ ShiftInv /\ [Next]_vars => ShiftInv'
    BY StepShiftInv
<1> QED BY <1>1, <1>2, <1>3, Invariance, PTL DEF Spec

=============================================================================
