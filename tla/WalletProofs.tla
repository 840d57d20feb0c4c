----------------------------- MODULE WalletProofs -----------------------------
(***************************************************************************)
(* Proof that the answer of a wallet adds up, for any accounts, addresses, *)
(* coins and requests, and whichever of the calls of a phase end first or  *)
(* fail. An induction on finite sets of coins gives the two facts about    *)
(* sums that it needs (SumOne, SumUnion). The invariant says where the     *)
(* request is, which calls its phase can hold (CallsOK), that the          *)
(* addresses of the accounts asked for are dropped before any read         *)
(* (FilterOK), that exactly the outputs of the reads that are over are     *)
(* listed (UtxosOK), and that the balance is the sum over the entities     *)
(* whose information is added, the others being still pending (BalanceOK). *)
(***************************************************************************)
EXTENDS Wallet, FiniteSetTheorems, WellFoundedInduction, TLAPS

-----------------------------------------------------------------------------
(* Sums of the values of coins *)

LEMMA NatSet ==
    ASSUME NEW S \in SUBSET Nat, 0 \in S, \A n \in S : n + 1 \in S
    PROVE  S = Nat
<1>1. SUFFICES ASSUME Nat \ S # {} PROVE FALSE
    OBVIOUS
<1>2. IsWellFoundedOn(OpToRel(<, Nat), Nat)
    BY NatLessThanWellFounded
<1>3. PICK x \in Nat \ S : \A y \in Nat \ S : ~(<<y, x>> \in OpToRel(<, Nat))
    BY <1>1, <1>2, WFMin
<1>4. \A y \in Nat \ S : ~(y < x)
    BY <1>3 DEF OpToRel
<1>5. x \in Nat /\ x \notin S
    BY <1>3
<1>6. x # 0
    BY <1>5
<1>7. x - 1 \in Nat /\ x - 1 < x /\ (x - 1) + 1 = x
    BY <1>5, <1>6
<1>8. x - 1 \in S
    BY <1>4, <1>7
<1>9. QED
    BY <1>5, <1>7, <1>8

\* A set of coins is finite, and has one coin more than without one of its coins.
LEMMA CoinSets ==
    ASSUME NEW S \in SUBSET Coins
    PROVE  /\ Cardinality(S) \in Nat
           /\ Cardinality(S) = 0 <=> S = {}
           /\ \A x \in S : Cardinality(S \ {x}) + 1 = Cardinality(S)
<1>1. IsFiniteSet(S)
    BY FS_Subset, WalletAssumption
<1>2. Cardinality(S) \in Nat /\ (Cardinality(S) = 0 <=> S = {})
    BY <1>1, FS_CardinalityType, FS_EmptySet
<1>3. ASSUME NEW x \in S PROVE Cardinality(S \ {x}) + 1 = Cardinality(S)
    <2>1. Cardinality(S \ {x}) = Cardinality(S) - 1
        BY <1>1, FS_RemoveElement
    <2>2. QED
        BY <1>2, <2>1
<1>4. QED
    BY <1>2, <1>3

\* Induction on sets of coins: what holds of a set when it holds of the set without any
\* of its coins holds of every set.
LEMMA CoinInduction ==
    ASSUME NEW Good,
           \A S \in SUBSET Coins : (\A x \in S : S \ {x} \in Good) => S \in Good
    PROVE  \A S \in SUBSET Coins : S \in Good
<1> DEFINE Sizes == {n \in Nat : \A S \in SUBSET Coins : Cardinality(S) = n => S \in Good}
<1>1. 0 \in Sizes
    <2>1. ASSUME NEW S \in SUBSET Coins, Cardinality(S) = 0 PROVE S \in Good
        BY <2>1, CoinSets
    <2>2. QED
        BY <2>1
<1>2. ASSUME NEW n \in Sizes PROVE n + 1 \in Sizes
    <2>1. ASSUME NEW S \in SUBSET Coins, Cardinality(S) = n + 1 PROVE S \in Good
        <3>1. ASSUME NEW x \in S PROVE S \ {x} \in Good
            <4>1. Cardinality(S \ {x}) + 1 = n + 1 /\ S \ {x} \in SUBSET Coins
                BY <2>1, CoinSets
            <4>2. Cardinality(S \ {x}) \in Nat
                BY <4>1, CoinSets
            <4>3. Cardinality(S \ {x}) = n
                BY <4>1, <4>2
            <4>4. QED
                BY <4>1, <4>3
        <3>2. QED
            BY <3>1
    <2>2. QED
        BY <2>1
<1> HIDE DEF Sizes
<1>3. Sizes = Nat
    <2>1. Sizes \in SUBSET Nat
        BY DEF Sizes
    <2>2. QED
        BY <1>1, <1>2, <2>1, NatSet
<1>4. QED
    BY <1>3, CoinSets DEF Sizes

\* Sum of the values, as a recursive function on the sets of coins
Pick(s) == CHOOSE x \in s : TRUE
SumFrom(g, s) == IF s = {} THEN 0 ELSE Value[Pick(s)] + g[s \ {Pick(s)}]
IsSum(g, S) == g = [s \in SUBSET S |-> SumFrom(g, s)]

LEMMA SumIs ==
    ASSUME NEW S
    PROVE  Sum(S) = (CHOOSE g : IsSum(g, S))[S]
BY DEF Sum, MapThenSumSet, MapThenFoldSet, Pick, SumFrom, IsSum

LEMMA PickIn ==
    ASSUME NEW s, s # {}
    PROVE  Pick(s) \in s
BY DEF Pick

LEMMA SumExists ==
    ASSUME NEW S \in SUBSET Coins
    PROVE  \E g \in [SUBSET S -> Nat] : IsSum(g, S)
<1> DEFINE Upto(g, n) == \A s \in SUBSET S : Cardinality(s) <= n => g[s] = SumFrom(g, s)
           N == {n \in Nat : \E g \in [SUBSET S -> Nat] : Upto(g, n)}
<1>0. \A s \in SUBSET S : s \in SUBSET Coins
    OBVIOUS
<1>1. 0 \in N
    <2> DEFINE g == [s \in SUBSET S |-> 0]
    <2>1. ASSUME NEW s \in SUBSET S, Cardinality(s) <= 0 PROVE g[s] = SumFrom(g, s)
        <3>1. s = {}
            BY <1>0, <2>1, CoinSets
        <3>2. QED
            BY <3>1 DEF SumFrom
    <2>2. g \in [SUBSET S -> Nat]
        OBVIOUS
    <2>3. QED
        BY <2>1, <2>2
<1>2. ASSUME NEW n \in N PROVE n + 1 \in N
    <2>1. n \in Nat /\ \E g \in [SUBSET S -> Nat] : Upto(g, n)
        OBVIOUS
    <2>2. PICK g \in [SUBSET S -> Nat] : Upto(g, n)
        BY <2>1
    <2> DEFINE h == [s \in SUBSET S |-> SumFrom(g, s)]
    <2>3. ASSUME NEW s \in SUBSET S PROVE SumFrom(g, s) \in Nat
        <3>1. CASE s = {}
            BY <3>1 DEF SumFrom
        <3>2. CASE s # {}
            <4>1. Pick(s) \in Coins /\ s \ {Pick(s)} \in SUBSET S
                BY <3>2, PickIn
            <4>2. Value[Pick(s)] \in Nat /\ g[s \ {Pick(s)}] \in Nat
                BY <4>1, WalletAssumption
            <4>3. QED
                BY <3>2, <4>2 DEF SumFrom
        <3>3. QED
            BY <3>1, <3>2
    <2>4. h \in [SUBSET S -> Nat]
        BY <2>3
    <2>5. ASSUME NEW s \in SUBSET S, Cardinality(s) <= n + 1
          PROVE  SumFrom(g, s) = SumFrom(h, s)
        <3>1. CASE s = {}
            BY <3>1 DEF SumFrom
        <3>2. CASE s # {}
            <4> DEFINE r == s \ {Pick(s)}
            <4>1. r \in SUBSET S /\ Cardinality(r) + 1 = Cardinality(s) /\ Cardinality(r) \in Nat
                BY <1>0, <3>2, PickIn, CoinSets
            <4> HIDE DEF r
            <4>2. Cardinality(r) <= n
                BY <2>1, <2>5, <4>1
            <4>3. g[r] = SumFrom(g, r)
                BY <2>2, <4>1, <4>2
            <4>4. h[r] = g[r]
                BY <4>1, <4>3
            <4>5. QED
                BY <3>2, <4>4 DEF SumFrom, r
        <3>3. QED
            BY <3>1, <3>2
    <2>6. Upto(h, n + 1)
        BY <2>5
    <2> HIDE DEF h, Upto
    <2>7. QED
        BY <2>1, <2>4, <2>6
<1> HIDE DEF N
<1>3. N = Nat
    <2>1. N \in SUBSET Nat
        BY DEF N
    <2>2. QED
        BY <1>1, <1>2, <2>1, NatSet
<1>4. Cardinality(S) \in N
    BY <1>3, CoinSets
<1>5. PICK g \in [SUBSET S -> Nat] : Upto(g, Cardinality(S))
    BY <1>4 DEF N
<1>6. ASSUME NEW s \in SUBSET S PROVE g[s] = SumFrom(g, s)
    <2>1. Cardinality(s) <= Cardinality(S)
        BY FS_Subset, WalletAssumption
    <2>2. QED
        BY <1>5, <2>1
<1>7. g = [s \in SUBSET S |-> SumFrom(g, s)]
    BY <1>6
<1>8. QED
    BY <1>7 DEF IsSum

\* Two of them agree.
LEMMA SumsAgree ==
    ASSUME NEW S \in SUBSET Coins, NEW T \in SUBSET Coins, NEW g, NEW h, IsSum(g, S), IsSum(h, T)
    PROVE  \A s \in SUBSET (S \cap T) : g[s] = h[s]
<1> DEFINE Good == {s \in SUBSET Coins : s \subseteq S \cap T => g[s] = h[s]}
<1>1. ASSUME NEW s \in SUBSET Coins, \A x \in s : s \ {x} \in Good PROVE s \in Good
    <2> SUFFICES ASSUME s \subseteq S \cap T PROVE g[s] = h[s]
        OBVIOUS
    <2>1. s \in SUBSET S /\ s \in SUBSET T
        OBVIOUS
    <2>2. g[s] = SumFrom(g, s) /\ h[s] = SumFrom(h, s)
        BY <2>1 DEF IsSum
    <2>3. CASE s = {}
        BY <2>2, <2>3 DEF SumFrom
    <2>4. CASE s # {}
        <3>1. Pick(s) \in s
            BY <2>4, PickIn
        <3>2. g[s \ {Pick(s)}] = h[s \ {Pick(s)}]
            BY <1>1, <3>1
        <3>3. QED
            BY <2>2, <2>4, <3>2 DEF SumFrom
    <2>5. QED
        BY <2>3, <2>4
<1> HIDE DEF Good
<1>2. \A s \in SUBSET Coins : s \in Good
    BY <1>1, CoinInduction
<1>3. QED
    BY <1>2 DEF Good

LEMMA SumStep ==
    ASSUME NEW S \in SUBSET Coins
    PROVE  /\ Sum(S) \in Nat
           /\ S = {} => Sum(S) = 0
           /\ S # {} => Pick(S) \in S /\ Sum(S) = Value[Pick(S)] + Sum(S \ {Pick(S)})
<1> DEFINE f(T) == CHOOSE g : IsSum(g, T)
<1>1. ASSUME NEW T \in SUBSET Coins PROVE IsSum(f(T), T) /\ Sum(T) = f(T)[T] 
    <2>1. IsSum(f(T), T)
        <3>1. \E g : IsSum(g, T)
            BY SumExists
        <3>2. QED
            BY <3>1
    <2>2. QED
        BY <2>1, SumIs
<1>2. PICK g \in [SUBSET S -> Nat] : IsSum(g, S)
    BY SumExists
<1> HIDE DEF f
<1>3. ASSUME NEW T \in SUBSET S PROVE Sum(T) = g[T]
    <2>1. T \in SUBSET Coins
        OBVIOUS
    <2>2. f(T)[T] = g[T]
        BY <1>1, <1>2, <2>1, SumsAgree
    <2>3. QED
        BY <1>1, <2>1, <2>2
<1>4. g[S] = SumFrom(g, S)
    BY <1>2 DEF IsSum
<1>5. S # {} => Pick(S) \in S
    BY PickIn
<1>6. QED
    BY <1>3, <1>4, <1>5 DEF SumFrom

\* A sum, with any of its coins set apart
LEMMA SumOne ==
    ASSUME NEW S \in SUBSET Coins, NEW x \in S
    PROVE  Sum(S) = Value[x] + Sum(S \ {x})
<1> DEFINE Good == {s \in SUBSET Coins : \A y \in s : Sum(s) = Value[y] + Sum(s \ {y})}
<1>1. ASSUME NEW s \in SUBSET Coins, \A y \in s : s \ {y} \in Good PROVE s \in Good
    <2>1. ASSUME NEW y \in s PROVE Sum(s) = Value[y] + Sum(s \ {y})
        <3> DEFINE z == Pick(s)
        <3>1. z \in s /\ Sum(s) = Value[z] + Sum(s \ {z})
            BY SumStep
        <3> HIDE DEF z
        <3>2. CASE z = y
            BY <3>1, <3>2
        <3>3. CASE z # y
            <4>1. Sum(s \ {z}) = Value[y] + Sum((s \ {z}) \ {y})
                BY <1>1, <3>1, <3>3
            <4>2. Sum(s \ {y}) = Value[z] + Sum((s \ {y}) \ {z})
                BY <1>1, <3>1, <3>3
            <4> DEFINE rest == (s \ {z}) \ {y}
            <4>3. (s \ {y}) \ {z} = rest
                OBVIOUS
            <4>4. Sum(rest) \in Nat /\ Value[y] \in Nat /\ Value[z] \in Nat
                BY <3>1, SumStep, WalletAssumption
            <4> HIDE DEF rest
            <4>5. Sum(s \ {z}) = Value[y] + Sum(rest)
                BY <4>1 DEF rest
            <4>6. Sum(s \ {y}) = Value[z] + Sum(rest)
                BY <4>2, <4>3
            <4>7. QED
                BY <3>1, <4>4, <4>5, <4>6
        <3>4. QED
            BY <3>2, <3>3
    <2>2. QED
        BY <2>1
<1> HIDE DEF Good
<1>2. S \in Good
    BY <1>1, CoinInduction
<1>3. QED
    BY <1>2 DEF Good

\* The sum over two disjoint sets
LEMMA SumUnion ==
    ASSUME NEW A \in SUBSET Coins, NEW B \in SUBSET Coins, A \cap B = {}
    PROVE  Sum(A \cup B) = Sum(A) + Sum(B)
<1> DEFINE Good == {s \in SUBSET Coins : s \cap A = {} => Sum(A \cup s) = Sum(A) + Sum(s)}
<1>1. ASSUME NEW s \in SUBSET Coins, \A x \in s : s \ {x} \in Good PROVE s \in Good
    <2> SUFFICES ASSUME s \cap A = {} PROVE Sum(A \cup s) = Sum(A) + Sum(s)
        OBVIOUS
    <2>1. CASE s = {}
        <3>1. A \cup s = A /\ Sum(s) = 0 /\ Sum(A) \in Nat
            BY <2>1, SumStep
        <3>2. QED
            BY <3>1
    <2>2. CASE s # {}
        <3>1. PICK x \in s : TRUE
            BY <2>2
        <3> DEFINE r == s \ {x}
        <3>2. r \in Good /\ r \cap A = {} /\ r \in SUBSET Coins
            BY <1>1
        <3>3. Sum(A \cup r) = Sum(A) + Sum(r)
            BY <3>2
        <3>4. Sum(s) = Value[x] + Sum(r)
            BY SumOne
        <3>5. Sum(A \cup s) = Value[x] + Sum(A \cup r)
            <4>1. (A \cup s) \ {x} = A \cup r /\ x \in A \cup s /\ A \cup s \in SUBSET Coins
                OBVIOUS
            <4> HIDE DEF r
            <4>2. QED
                BY <4>1, SumOne
        <3>6. Sum(A) \in Nat /\ Sum(r) \in Nat /\ Value[x] \in Nat
            BY <3>2, SumStep, WalletAssumption
        <3> HIDE DEF r
        <3>7. QED
            BY <3>3, <3>4, <3>5, <3>6
    <2>3. QED
        BY <2>1, <2>2
<1> HIDE DEF Good
<1>2. B \in Good
    BY <1>1, CoinInduction
<1>3. QED
    BY <1>2 DEF Good

-----------------------------------------------------------------------------
(* The invariant: where a request is, and what its calls have read            *)

\* The calls that a phase may consist of, and what they become
OpAt(kind, n, op) ==
    \/ /\ kind = "full"
       /\ \/ n = 1 /\ op \in {"newAccount", "newAddress"}
          \/ n = 2 /\ op \in {"ensureAccount", "ensureAddresses"}
          \/ n = 3 /\ op = "force"
          \/ n = 4 /\ op = "filter"
          \/ n = 5 /\ op \in {"accountInfo", "addressInfo", "addBalance", "accountUtxos",
                              "addressUtxos", "page", "flows"}
    \/ /\ kind = "info"
       /\ \/ n = 1 /\ op = "newAccount"
          \/ n = 2 /\ op = "ensureAccount"
          \/ n = 3 /\ op \in {"accountInfo", "addBalance"}
          \/ n = 4 /\ op = "newAddress"
          \/ n = 5 /\ op = "ensureAddresses"
          \/ n = 6 /\ op = "force"
          \/ n = 7 /\ op = "filter"
          \/ n = 8 /\ op \in {"addressInfo", "addBalance"}
          \/ n = 9 /\ op \in {"page", "flows"}
    \/ /\ kind = "utxos"
       /\ \/ n = 1 /\ op = "newAccount"
          \/ n = 2 /\ op = "ensureAccount"
          \/ n = 3 /\ op = "newAddress"
          \/ n = 4 /\ op = "ensureAddresses"
          \/ n = 5 /\ op = "force"
          \/ n = 6 /\ op = "filter"
          \/ n = 7 /\ op \in {"accountUtxos", "addressUtxos"}
    \/ /\ kind = "txs"
       /\ \/ n = 1 /\ op = "filter"
          \/ n = 2 /\ op \in {"count", "page", "flows"}

FilterAt == [full |-> 4, info |-> 7, utxos |-> 6, txs |-> 1]
LastPhase == [full |-> 5, info |-> 9, utxos |-> 7, txs |-> 2]

\* The information of the accounts, of the addresses, and the unspent outputs are read,
\* or have been.
AccountsRead(kind, n) == (kind = "full" /\ n = 5) \/ (kind = "info" /\ n >= 3)
AddressesRead(kind, n) == (kind = "full" /\ n = 5) \/ (kind = "info" /\ n >= 8)
UtxosRead(kind, n) == (kind = "full" /\ n = 5) \/ (kind = "utxos" /\ n = 7)

InfoEntities ==
    (IF AccountsRead(asking.kind, phase) THEN XpubsOf(asking) ELSE {})
    \cup (IF AddressesRead(asking.kind, phase) THEN addrs ELSE {})

Ops == {"newAccount", "ensureAccount", "newAddress", "ensureAddresses", "force", "filter",
        "accountInfo", "addressInfo", "addBalance", "accountUtxos", "addressUtxos", "page",
        "flows", "count"}
AccountOps == {"newAccount", "ensureAccount", "accountInfo", "accountUtxos"}
InfoOps == {"accountInfo", "addressInfo", "addBalance"}
SingleOps == {"ensureAddresses", "force", "filter", "addressUtxos", "page", "flows", "count"}

CallOK(c) ==
    /\ c \in [op : Ops, on : Accounts \cup WalletAddrs \cup {NoEntity}, got : Nat]
    /\ OpAt(asking.kind, phase, c.op)
    /\ c.op # "addBalance" => c.got = 0
    /\ c.op \in AccountOps => c.on \in XpubsOf(asking)
    /\ c.op = "newAddress" => c.on \in WalletAddrs
    /\ c.op = "addressInfo" => c.on \in addrs
    /\ c.op = "addBalance" => c.on \in InfoEntities
    /\ c.op \in SingleOps => c.on = NoEntity

CallsOK ==
    /\ \A c \in todo : CallOK(c)
    /\ \A c, d \in todo : c.op \in InfoOps /\ d.op \in InfoOps /\ c.on = d.on => c = d

\* Where the request is
RequestOK ==
    /\ phase = 0 => todo = {} /\ (outcome = "ok" => AllEmpty(asking))
    /\ phase > 0 => /\ asking \in Asks /\ phase <= LastPhase[asking.kind]
                    /\ addrs \subseteq AddrsOf(asking)
                    /\ outcome = "ok" => phase = LastPhase[asking.kind] /\ todo = {}

\* An account has rows for its addresses.
RowsOK == \A a \in WalletAddrs : Owner[a] \in accounts => a \in tracked

Theirs(xs) == UNION {AddressesOf(x) : x \in xs}

\* The addresses of the accounts asked for are dropped, once and for all.
Filtered ==
    \/ phase > FilterAt[asking.kind]
    \/ phase = FilterAt[asking.kind] /\ todo = {} /\ outcome # "error"

FilterOK ==
    /\ phase \in 1 .. FilterAt[asking.kind] /\ (phase = FilterAt[asking.kind] => todo # {})
         => addrs = AddrsOf(asking)
    /\ Filtered => /\ addrs \cap Theirs(XpubsOf(asking)) = {}
                   /\ AddrsOf(asking) \ addrs \subseteq Theirs(XpubsOf(asking))

\* A call that lists the unspent outputs of the address of the coin is over.
Listed(c) ==
    \/ CoinAddr[c] \in addrs /\ \A d \in todo : d.op # "addressUtxos"
    \/ \E x \in XpubsOf(asking) : CoinAddr[c] \in AddressesOf(x) /\ Call("accountUtxos", x) \notin todo

UtxosOK ==
    /\ \A c \in Coins : utxos[c] \in {0, 1}
    /\ \A c \in Coins : utxos[c] = 1 => UtxosRead(asking.kind, phase) /\ Listed(c)
    /\ ~changed /\ outcome # "error" /\ UtxosRead(asking.kind, phase) =>
         \A c \in Coins : (utxos[c] = 1) <=> (c \in coins /\ ~Spent(c) /\ Listed(c))

CoinsOfEntity(e) == UnspentOf(IF e \in Accounts THEN AddressesOf(e) ELSE {e})
Pending(e) == \E c \in todo : c.op \in InfoOps /\ c.on = e
Counted == UNION {CoinsOfEntity(e) : e \in {d \in InfoEntities : ~Pending(d)}}

BalanceOK ==
    ~changed /\ ~lowered /\ outcome # "error" =>
        /\ balance = Sum(Counted)
        /\ \A c \in todo : c.op = "addBalance" => c.got = Sum(CoinsOfEntity(c.on))

WalletInv == WalletTypeOK /\ RequestOK /\ RowsOK /\ CallsOK /\ FilterOK /\ UtxosOK /\ BalanceOK

-----------------------------------------------------------------------------
(* Phases                                                                     *)

LEMMA AsksTyped ==
    ASSUME NEW r \in Asks
    PROVE  /\ r \in Ask /\ r.kind \in {"full", "info", "utxos", "txs"}
           /\ XpubsOf(r) \subseteq Accounts /\ AddrsOf(r) \subseteq WalletAddrs
           /\ r.newAccounts \subseteq XpubsOf(r)
           /\ r.fresh \cup r.segwit \subseteq WalletAddrs
           /\ \A k \in 1 .. LastPhase[r.kind] : k \in 1 .. 9
           /\ FilterAt[r.kind] \in 1 .. LastPhase[r.kind] - 1
           /\ LastPhase[r.kind] \in 2 .. 9
<1>1. r \in Ask
    BY WalletAssumption
<1>2. r.kind \in {"full", "info", "utxos", "txs"}
    BY <1>1 DEF Ask
<1>3. FilterAt[r.kind] \in 1 .. LastPhase[r.kind] - 1 /\ LastPhase[r.kind] \in 2 .. 9
    BY <1>2 DEF FilterAt, LastPhase
<1>4. QED
    BY <1>1, <1>2, <1>3 DEF Ask, XpubsOf, AddrsOf

\* A call as a phase begins it
BeginsOK(r, as, n, c) ==
    /\ c \in [op : Ops, on : Accounts \cup WalletAddrs \cup {NoEntity}, got : Nat]
    /\ OpAt(r.kind, n, c.op) /\ c.op \notin {"addBalance", "flows"}
    /\ c.got = 0
    /\ c.op \in AccountOps => c.on \in XpubsOf(r)
    /\ c.op = "newAddress" => c.on \in WalletAddrs
    /\ c.op = "addressInfo" => c.on \in as
    /\ c.op \in SingleOps => c.on = NoEntity

LEMMA CallsBegin ==
    ASSUME NEW r \in Asks, NEW as \in SUBSET WalletAddrs, NEW n, NEW op \in Ops,
           OpAt(r.kind, n, op), op \notin {"addBalance", "flows"},
           NEW on,
           op \in AccountOps => on \in XpubsOf(r),
           op = "newAddress" => on \in WalletAddrs,
           op = "addressInfo" => on \in as,
           op \in SingleOps => on = NoEntity
    PROVE  BeginsOK(r, as, n, Call(op, on))
<1>1. op \in AccountOps \/ op = "newAddress" \/ op = "addressInfo" \/ op \in SingleOps
    BY DEF Ops, AccountOps, SingleOps
<1>2. on \in Accounts \cup WalletAddrs \cup {NoEntity}
    BY <1>1, AsksTyped
<1>3. QED
    BY <1>2 DEF BeginsOK, Call

Begun(r, as, n, cs) == \A c \in cs : BeginsOK(r, as, n, c)

LEMMA CallsAreBegun ==
    ASSUME NEW r \in Asks, NEW as \in SUBSET WalletAddrs, NEW n, NEW es,
           NEW op \in AccountOps \cup {"newAddress", "addressInfo"},
           OpAt(r.kind, n, op),
           op \in AccountOps => es \subseteq XpubsOf(r),
           op = "newAddress" => es \subseteq WalletAddrs,
           op = "addressInfo" => es \subseteq as
    PROVE  Begun(r, as, n, Calls(op, es))
<1>1. op \in Ops /\ op \notin SingleOps /\ op \notin {"addBalance", "flows"}
    BY DEF AccountOps, Ops, SingleOps
<1>2. ASSUME NEW e \in es PROVE BeginsOK(r, as, n, Call(op, e))
    BY <1>1, CallsBegin
<1>3. QED
    BY <1>2 DEF Begun, Calls

LEMMA OneIsBegun ==
    ASSUME NEW r \in Asks, NEW as \in SUBSET WalletAddrs, NEW n,
           NEW op \in SingleOps \ {"flows"}, OpAt(r.kind, n, op)
    PROVE  Begun(r, as, n, One(op))
<1>1. /\ op \in Ops /\ op \notin AccountOps /\ op \notin {"addBalance", "flows"}
      /\ op # "newAddress" /\ op # "addressInfo"
    BY DEF AccountOps, Ops, SingleOps
<1>2. BeginsOK(r, as, n, Call(op, NoEntity))
    BY <1>1, CallsBegin
<1>3. QED
    BY <1>2 DEF Begun, One

LEMMA BegunTogether ==
    ASSUME NEW r, NEW as, NEW n, NEW cs, NEW ds, Begun(r, as, n, cs), Begun(r, as, n, ds)
    PROVE  Begun(r, as, n, cs \cup ds)
BY DEF Begun

\* New addresses, and the reads of unspent outputs
LEMMA SomeAreBegun ==
    ASSUME NEW r \in Asks, NEW as \in SUBSET WalletAddrs, NEW n
    PROVE  /\ OpAt(r.kind, n, "newAddress") => Begun(r, as, n, NewAddresses(r))
           /\ OpAt(r.kind, n, "accountUtxos") /\ OpAt(r.kind, n, "addressUtxos")
                => Begun(r, as, n, Utxos(r, as))
<1>1. ASSUME OpAt(r.kind, n, "newAddress") PROVE Begun(r, as, n, NewAddresses(r))
    BY <1>1, AsksTyped, CallsAreBegun DEF NewAddresses, AccountOps
<1>2. ASSUME OpAt(r.kind, n, "accountUtxos"), OpAt(r.kind, n, "addressUtxos")
      PROVE  Begun(r, as, n, Utxos(r, as))
    <2>1. Begun(r, as, n, Calls("accountUtxos", XpubsOf(r)))
        BY <1>2, CallsAreBegun DEF AccountOps
    <2>2. Begun(r, as, n, One("addressUtxos"))
        BY <1>2, OneIsBegun DEF SingleOps
    <2>3. QED
        BY <2>1, <2>2, BegunTogether DEF Utxos
<1>3. QED
    BY <1>1, <1>2

LEMMA AccountCallsBegun ==
    ASSUME NEW r \in Asks, NEW as \in SUBSET WalletAddrs, NEW n
    PROVE  /\ OpAt(r.kind, n, "newAccount") => Begun(r, as, n, Calls("newAccount", r.newAccounts))
           /\ OpAt(r.kind, n, "ensureAccount") => Begun(r, as, n, Calls("ensureAccount", XpubsOf(r)))
           /\ OpAt(r.kind, n, "accountInfo") => Begun(r, as, n, Calls("accountInfo", XpubsOf(r)))
           /\ OpAt(r.kind, n, "addressInfo") => Begun(r, as, n, Calls("addressInfo", as))
<1>1. r.newAccounts \subseteq XpubsOf(r)
    BY AsksTyped
<1>2. OpAt(r.kind, n, "newAccount") => Begun(r, as, n, Calls("newAccount", r.newAccounts))
    BY <1>1, CallsAreBegun DEF AccountOps
<1>3. OpAt(r.kind, n, "ensureAccount") => Begun(r, as, n, Calls("ensureAccount", XpubsOf(r)))
    BY CallsAreBegun DEF AccountOps
<1>4. OpAt(r.kind, n, "accountInfo") => Begun(r, as, n, Calls("accountInfo", XpubsOf(r)))
    BY CallsAreBegun DEF AccountOps
<1>5. OpAt(r.kind, n, "addressInfo") => Begun(r, as, n, Calls("addressInfo", as))
    BY CallsAreBegun DEF AccountOps
<1>6. QED
    BY <1>2, <1>3, <1>4, <1>5

LEMMA SinglesAreBegun ==
    ASSUME NEW r \in Asks, NEW as \in SUBSET WalletAddrs, NEW n
    PROVE  /\ OpAt(r.kind, n, "ensureAddresses") => Begun(r, as, n, One("ensureAddresses"))
           /\ OpAt(r.kind, n, "force") => Begun(r, as, n, One("force"))
           /\ OpAt(r.kind, n, "filter") => Begun(r, as, n, One("filter"))
           /\ OpAt(r.kind, n, "page") => Begun(r, as, n, One("page"))
           /\ OpAt(r.kind, n, "count") => Begun(r, as, n, One("count"))
<1>1. \A op \in {"ensureAddresses", "force", "filter", "page", "count"} : op \in SingleOps \ {"flows"}
    BY DEF SingleOps
<1>2. QED
    BY <1>1, OneIsBegun

LEMMA FullPhasesOK ==
    ASSUME NEW r \in Asks, NEW as \in SUBSET WalletAddrs, r.kind = "full"
    PROVE  /\ Len(FullPhases(r, as)) = 5
           /\ \A n \in 1 .. 5 : Begun(r, as, n, FullPhases(r, as)[n])
<1>1. Begun(r, as, 1, FullPhases(r, as)[1])
    <2>1. OpAt(r.kind, 1, "newAccount") /\ OpAt(r.kind, 1, "newAddress")
        BY DEF OpAt
    <2>2. QED
        BY <2>1, AccountCallsBegun, SomeAreBegun, BegunTogether DEF FullPhases
<1>2. Begun(r, as, 2, FullPhases(r, as)[2])
    <2>1. OpAt(r.kind, 2, "ensureAccount") /\ OpAt(r.kind, 2, "ensureAddresses")
        BY DEF OpAt
    <2>2. Begun(r, as, 2, One("ensureAddresses"))
        BY <2>1, SinglesAreBegun
    <2>3. QED
        BY <2>1, <2>2, AccountCallsBegun, BegunTogether DEF FullPhases
<1>3. Begun(r, as, 3, FullPhases(r, as)[3]) /\ Begun(r, as, 4, FullPhases(r, as)[4])
    <2>1. OpAt(r.kind, 3, "force") /\ OpAt(r.kind, 4, "filter")
        BY DEF OpAt
    <2>2. QED
        BY <2>1, SinglesAreBegun DEF FullPhases
<1>4. Begun(r, as, 5, FullPhases(r, as)[5])
    <2>1. /\ OpAt(r.kind, 5, "accountInfo") /\ OpAt(r.kind, 5, "addressInfo")
          /\ OpAt(r.kind, 5, "accountUtxos") /\ OpAt(r.kind, 5, "addressUtxos")
          /\ OpAt(r.kind, 5, "page")
        BY DEF OpAt
    <2>2. Begun(r, as, 5, One("page"))
        BY <2>1, SinglesAreBegun
    <2>3. Begun(r, as, 5, Calls("accountInfo", XpubsOf(r)) \cup Calls("addressInfo", as))
        BY <2>1, AccountCallsBegun, BegunTogether
    <2>4. Begun(r, as, 5, (Calls("accountInfo", XpubsOf(r)) \cup Calls("addressInfo", as))
                            \cup Utxos(r, as))
        BY <2>1, <2>3, SomeAreBegun, BegunTogether
    <2>5. Begun(r, as, 5, ((Calls("accountInfo", XpubsOf(r)) \cup Calls("addressInfo", as))
                            \cup Utxos(r, as)) \cup One("page"))
        BY <2>2, <2>4, BegunTogether
    <2>6. QED
        BY <2>5 DEF FullPhases
<1>5. Len(FullPhases(r, as)) = 5
    BY DEF FullPhases
<1>6. QED
    <2>1. \A n \in 1 .. 5 : n = 1 \/ n = 2 \/ n = 3 \/ n = 4 \/ n = 5
        OBVIOUS
    <2>2. QED
        BY <1>1, <1>2, <1>3, <1>4, <1>5, <2>1

LEMMA InfoPhasesOK ==
    ASSUME NEW r \in Asks, NEW as \in SUBSET WalletAddrs, r.kind = "info"
    PROVE  /\ Len(InfoPhases(r, as)) = 9
           /\ \A n \in 1 .. 9 : Begun(r, as, n, InfoPhases(r, as)[n])
<1>1. /\ Begun(r, as, 1, InfoPhases(r, as)[1]) /\ Begun(r, as, 2, InfoPhases(r, as)[2])
      /\ Begun(r, as, 3, InfoPhases(r, as)[3]) /\ Begun(r, as, 8, InfoPhases(r, as)[8])
    <2>1. /\ OpAt(r.kind, 1, "newAccount") /\ OpAt(r.kind, 2, "ensureAccount")
          /\ OpAt(r.kind, 3, "accountInfo") /\ OpAt(r.kind, 8, "addressInfo")
        BY DEF OpAt
    <2>2. QED
        BY <2>1, AccountCallsBegun DEF InfoPhases
<1>2. Begun(r, as, 4, InfoPhases(r, as)[4])
    <2>1. OpAt(r.kind, 4, "newAddress")
        BY DEF OpAt
    <2>2. QED
        BY <2>1, SomeAreBegun DEF InfoPhases
<1>3. /\ Begun(r, as, 5, InfoPhases(r, as)[5]) /\ Begun(r, as, 6, InfoPhases(r, as)[6])
      /\ Begun(r, as, 7, InfoPhases(r, as)[7]) /\ Begun(r, as, 9, InfoPhases(r, as)[9])
    <2>1. /\ OpAt(r.kind, 5, "ensureAddresses") /\ OpAt(r.kind, 6, "force")
          /\ OpAt(r.kind, 7, "filter") /\ OpAt(r.kind, 9, "page")
        BY DEF OpAt
    <2>2. QED
        BY <2>1, SinglesAreBegun DEF InfoPhases
<1>4. Len(InfoPhases(r, as)) = 9
    BY DEF InfoPhases
<1>5. QED
    <2>1. \A n \in 1 .. 9 : n = 1 \/ n = 2 \/ n = 3 \/ n = 4 \/ n = 5 \/ n = 6 \/ n = 7 \/ n = 8 \/ n = 9
        OBVIOUS
    <2>2. QED
        BY <1>1, <1>2, <1>3, <1>4, <2>1

LEMMA UtxosPhasesOK ==
    ASSUME NEW r \in Asks, NEW as \in SUBSET WalletAddrs, r.kind = "utxos"
    PROVE  /\ Len(UtxosPhases(r, as)) = 7
           /\ \A n \in 1 .. 7 : Begun(r, as, n, UtxosPhases(r, as)[n])
<1>1. Begun(r, as, 1, UtxosPhases(r, as)[1]) /\ Begun(r, as, 2, UtxosPhases(r, as)[2])
    <2>1. OpAt(r.kind, 1, "newAccount") /\ OpAt(r.kind, 2, "ensureAccount")
        BY DEF OpAt
    <2>2. QED
        BY <2>1, AccountCallsBegun DEF UtxosPhases
<1>2. Begun(r, as, 3, UtxosPhases(r, as)[3]) /\ Begun(r, as, 7, UtxosPhases(r, as)[7])
    <2>1. /\ OpAt(r.kind, 3, "newAddress") /\ OpAt(r.kind, 7, "accountUtxos")
          /\ OpAt(r.kind, 7, "addressUtxos")
        BY DEF OpAt
    <2>2. QED
        BY <2>1, SomeAreBegun DEF UtxosPhases
<1>3. /\ Begun(r, as, 4, UtxosPhases(r, as)[4]) /\ Begun(r, as, 5, UtxosPhases(r, as)[5])
      /\ Begun(r, as, 6, UtxosPhases(r, as)[6])
    <2>1. /\ OpAt(r.kind, 4, "ensureAddresses") /\ OpAt(r.kind, 5, "force")
          /\ OpAt(r.kind, 6, "filter")
        BY DEF OpAt
    <2>2. QED
        BY <2>1, SinglesAreBegun DEF UtxosPhases
<1>4. Len(UtxosPhases(r, as)) = 7
    BY DEF UtxosPhases
<1>5. QED
    <2>1. \A n \in 1 .. 7 : n = 1 \/ n = 2 \/ n = 3 \/ n = 4 \/ n = 5 \/ n = 6 \/ n = 7
        OBVIOUS
    <2>2. QED
        BY <1>1, <1>2, <1>3, <1>4, <2>1

LEMMA TxsPhasesOK ==
    ASSUME NEW r \in Asks, NEW as \in SUBSET WalletAddrs, r.kind = "txs"
    PROVE  Len(TxsPhases) = 2 /\ \A n \in 1 .. 2 : Begun(r, as, n, TxsPhases[n])
<1>1. OpAt(r.kind, 1, "filter") /\ OpAt(r.kind, 2, "count") /\ OpAt(r.kind, 2, "page")
    BY DEF OpAt
<1>2. /\ Begun(r, as, 1, One("filter")) /\ Begun(r, as, 2, One("count"))
      /\ Begun(r, as, 2, One("page"))
    BY <1>1, SinglesAreBegun
<1>3. Begun(r, as, 1, TxsPhases[1]) /\ Begun(r, as, 2, TxsPhases[2])
    BY <1>2, BegunTogether DEF TxsPhases
<1>4. Len(TxsPhases) = 2 /\ \A n \in 1 .. 2 : n = 1 \/ n = 2
    BY DEF TxsPhases
<1>5. QED
    BY <1>3, <1>4

\* What the phases of a request begin
LEMMA PhasesBegin ==
    ASSUME NEW r \in Asks, NEW as \in SUBSET WalletAddrs
    PROVE  /\ Len(Phases(r, as)) = LastPhase[r.kind]
           /\ \A n \in 1 .. LastPhase[r.kind] : Begun(r, as, n, Phases(r, as)[n])
<1>1. r.kind \in {"full", "info", "utxos", "txs"}
    BY AsksTyped
<1>2. CASE r.kind = "full"
    <2>1. Phases(r, as) = FullPhases(r, as)
        BY <1>2 DEF Phases
    <2>2. LastPhase[r.kind] = 5
        BY <1>2 DEF LastPhase
    <2>3. QED
        BY <1>2, <2>1, <2>2, FullPhasesOK
<1>3. CASE r.kind = "info"
    <2>1. Phases(r, as) = InfoPhases(r, as)
        BY <1>3 DEF Phases
    <2>2. LastPhase[r.kind] = 9
        BY <1>3 DEF LastPhase
    <2>3. QED
        BY <1>3, <2>1, <2>2, InfoPhasesOK
<1>4. CASE r.kind = "utxos"
    <2>1. Phases(r, as) = UtxosPhases(r, as)
        BY <1>4 DEF Phases
    <2>2. LastPhase[r.kind] = 7
        BY <1>4 DEF LastPhase
    <2>3. QED
        BY <1>4, <2>1, <2>2, UtxosPhasesOK
<1>5. CASE r.kind = "txs"
    <2>1. Phases(r, as) = TxsPhases
        BY <1>5 DEF Phases
    <2>2. LastPhase[r.kind] = 2
        BY <1>5 DEF LastPhase
    <2>3. QED
        BY <1>5, <2>1, <2>2, TxsPhasesOK
<1>6. QED
    BY <1>1, <1>2, <1>3, <1>4, <1>5

\* The phase of the filter makes that call alone.
LEMMA FilterIsAlone ==
    ASSUME NEW r \in Asks, NEW as
    PROVE  Phases(r, as)[FilterAt[r.kind]] = {Call("filter", NoEntity)}
<1>1. CASE r.kind = "full"
    BY <1>1 DEF Phases, FullPhases, One, FilterAt
<1>2. CASE r.kind = "info"
    BY <1>2 DEF Phases, InfoPhases, One, FilterAt
<1>3. CASE r.kind = "utxos"
    BY <1>3 DEF Phases, UtxosPhases, One, FilterAt
<1>4. CASE r.kind = "txs"
    BY <1>4 DEF Phases, TxsPhases, One, FilterAt
<1>5. QED
    BY <1>1, <1>2, <1>3, <1>4, AsksTyped

\* The phases that read begin with a call for each entity.
LEMMA ReadsBegin ==
    ASSUME NEW r \in Asks, NEW as
    PROVE  /\ r.kind = "full" =>
                /\ \A x \in XpubsOf(r) : Call("accountInfo", x) \in Phases(r, as)[5]
                /\ \A a \in as : Call("addressInfo", a) \in Phases(r, as)[5]
                /\ \A x \in XpubsOf(r) : Call("accountUtxos", x) \in Phases(r, as)[5]
                /\ Call("addressUtxos", NoEntity) \in Phases(r, as)[5]
                /\ Call("page", NoEntity) \in Phases(r, as)[5]
           /\ r.kind = "info" =>
                /\ \A x \in XpubsOf(r) : Call("accountInfo", x) \in Phases(r, as)[3]
                /\ \A a \in as : Call("addressInfo", a) \in Phases(r, as)[8]
                /\ Call("page", NoEntity) \in Phases(r, as)[9]
           /\ r.kind = "utxos" =>
                /\ \A x \in XpubsOf(r) : Call("accountUtxos", x) \in Phases(r, as)[7]
                /\ Call("addressUtxos", NoEntity) \in Phases(r, as)[7]
<1>1. CASE r.kind = "full"
    <2>1. Phases(r, as)[5] = Calls("accountInfo", XpubsOf(r)) \cup Calls("addressInfo", as)
                               \cup Utxos(r, as) \cup One("page")
        BY <1>1 DEF Phases, FullPhases
    <2>2. QED
        BY <1>1, <2>1 DEF Utxos, Calls, One
<1>2. CASE r.kind = "info"
    <2>1. /\ Phases(r, as)[3] = Calls("accountInfo", XpubsOf(r))
          /\ Phases(r, as)[8] = Calls("addressInfo", as)
          /\ Phases(r, as)[9] = One("page")
        BY <1>2 DEF Phases, InfoPhases
    <2>2. QED
        BY <1>2, <2>1 DEF Calls, One
<1>3. CASE r.kind = "utxos"
    <2>1. Phases(r, as)[7] = Utxos(r, as)
        BY <1>3 DEF Phases, UtxosPhases
    <2>2. QED
        BY <1>3, <2>1 DEF Utxos, Calls, One
<1>4. QED
    BY <1>1, <1>2, <1>3

-----------------------------------------------------------------------------
(* Calls *)

Kinds == {"full", "info", "utxos", "txs"}
DbOps == {"newAccount", "newAddress", "ensureAccount", "ensureAddresses", "force"}

\* In which phases calls are made, as far as the proof tells them apart
LEMMA OpWhen ==
    ASSUME NEW kind \in Kinds, NEW n \in Nat, NEW op, OpAt(kind, n, op)
    PROVE  /\ op = "filter" <=> n = FilterAt[kind]
           /\ op \in DbOps => n < FilterAt[kind]
           /\ op \in {"newAccount", "ensureAccount"} => ~AccountsRead(kind, n)
           /\ op \in DbOps \cup {"filter"} => ~AddressesRead(kind, n) /\ ~UtxosRead(kind, n)
           /\ op = "accountInfo" => AccountsRead(kind, n) /\ OpAt(kind, n, "addBalance")
           /\ op = "addressInfo" => AddressesRead(kind, n) /\ OpAt(kind, n, "addBalance")
           /\ op = "page" => OpAt(kind, n, "flows")
           /\ op \in {"accountUtxos", "addressUtxos"} => UtxosRead(kind, n)
BY DEF OpAt, Kinds, FilterAt, DbOps, AccountsRead, AddressesRead, UtxosRead

LEMMA ReadWhen ==
    ASSUME NEW kind \in Kinds, NEW n \in Nat
    PROVE  /\ AddressesRead(kind, n) => n > FilterAt[kind] /\ AccountsRead(kind, n)
           /\ UtxosRead(kind, n) => n > FilterAt[kind]
BY DEF Kinds, FilterAt, AccountsRead, AddressesRead, UtxosRead

LEMMA KindTyped ==
    ASSUME asking \in Ask \cup {NoAsk}
    PROVE  /\ asking.kind \in Kinds
           /\ XpubsOf(asking) \subseteq Accounts /\ AddrsOf(asking) \subseteq WalletAddrs
BY DEF Ask, NoAsk, Kinds, XpubsOf, AddrsOf

LEMMA CallTyped ==
    ASSUME WalletTypeOK, CallsOK, NEW c \in todo
    PROVE  /\ CallOK(c) /\ OpAt(asking.kind, phase, c.op) /\ c.op \in Ops /\ c.got \in Nat
           /\ c = [op |-> c.op, on |-> c.on, got |-> c.got]
           /\ asking.kind \in Kinds /\ phase \in Nat
<1>1. CallOK(c)
    BY DEF CallsOK
<1>2. c \in [op : Ops, on : Accounts \cup WalletAddrs \cup {NoEntity}, got : Nat]
    BY <1>1 DEF CallOK
<1>3. OpAt(asking.kind, phase, c.op)
    BY <1>1 DEF CallOK
<1>4. asking.kind \in Kinds /\ phase \in Nat
    BY KindTyped DEF WalletTypeOK
<1>5. QED
    BY <1>1, <1>2, <1>3, <1>4

\* What becomes of the calls of the phase
BalanceRead(c, got) == [op |-> "addBalance", on |-> c.on, got |-> got]
Continues(c) ==
    \/ todo' = todo \ {c}
    \/ /\ c.op \in {"accountInfo", "addressInfo"}
       /\ \E got \in Nat : todo' = (todo \ {c}) \cup {BalanceRead(c, got)}
    \/ c.op = "page" /\ todo' = (todo \ {c}) \cup {Call("flows", NoEntity)}

LEMMA BalanceReadIs ==
    ASSUME NEW c, CallOK(c), NEW g
    PROVE  [c EXCEPT !.op = "addBalance", !.got = g] = BalanceRead(c, g)
<1>1. c \in [op : Ops, on : Accounts \cup WalletAddrs \cup {NoEntity}, got : Nat]
    BY DEF CallOK
<1> DEFINE d == [c EXCEPT !.op = "addBalance", !.got = g]
<1>2. d \in [op : Ops \cup {"addBalance"}, on : Accounts \cup WalletAddrs \cup {NoEntity},
             got : Nat \cup {g}]
    BY <1>1
<1>3. d.op = "addBalance" /\ d.on = c.on /\ d.got = g
    BY <1>1
<1> HIDE DEF d
<1>4. d = [op |-> d.op, on |-> d.on, got |-> d.got]
    BY <1>2
<1>5. QED
    BY <1>3, <1>4 DEF BalanceRead, d

LEMMA ReadContinues ==
    ASSUME NEW c, CallOK(c), c.op \in {"accountInfo", "addressInfo"}, NEW g \in Nat,
           Becomes(c, [c EXCEPT !.op = "addBalance", !.got = g])
    PROVE  Continues(c)
<1>1. todo' = (todo \ {c}) \cup {BalanceRead(c, g)}
    BY BalanceReadIs DEF Becomes
<1>2. QED
    BY <1>1 DEF Continues

\* What a call leaves alone
LeavesAlone(c) ==
    /\ UNCHANGED <<asking, phase, changed, happened>> /\ outcome' \in {outcome, "error"}
    /\ lowered \in BOOLEAN => lowered' \in {lowered, TRUE}
    /\ c.op \notin DbOps => UNCHANGED <<accounts, tracked, coins>>
    /\ c.op \notin {"newAccount", "ensureAccount"} => UNCHANGED accounts
    /\ c.op # "filter" => UNCHANGED addrs
    /\ addrs' \subseteq addrs
    /\ c.op \notin {"accountUtxos", "addressUtxos"} => UNCHANGED utxos
    /\ c.op # "addBalance" => UNCHANGED balance

LEMMA CallSteps ==
    ASSUME WalletTypeOK, CallsOK, NEW c \in todo, CallStep(c)
    PROVE  Continues(c) /\ LeavesAlone(c)
<1>0. /\ c = [op |-> c.op, on |-> c.on, got |-> c.got]
      /\ UNCHANGED <<asking, phase, outcome, failures, changed, lowered>>
    BY CallTyped DEF CallStep
<1>1. CASE NewAccount(c)
    BY <1>0, <1>1 DEF NewAccount, Over, Continues, LeavesAlone, DbOps, infoVars
<1>2. CASE NewAddress(c)
    BY <1>0, <1>2 DEF NewAddress, Over, Continues, LeavesAlone, DbOps, infoVars
<1>3. CASE EnsureAccount(c)
    BY <1>0, <1>3 DEF EnsureAccount, Over, Continues, LeavesAlone, DbOps, infoVars
<1>4. CASE EnsureAddresses(c)
    BY <1>0, <1>4 DEF EnsureAddresses, Over, Continues, LeavesAlone, DbOps, infoVars
<1>5. CASE ForceEnsure(c)
    BY <1>0, <1>5 DEF ForceEnsure, Over, Continues, LeavesAlone, DbOps, infoVars
<1>6. CASE FilterAddresses(c)
    BY <1>0, <1>6 DEF FilterAddresses, Over, Continues, LeavesAlone, DbOps, dbVars, infoVars
<1>7. CASE ReadBalance(c)
    <2>1. ASSUME NEW as PROVE Sum(UnspentOf(as)) \in Nat
        <3>1. UnspentOf(as) \in SUBSET Coins
            BY DEF UnspentOf, WalletTypeOK
        <3>2. QED
            BY <3>1, SumStep
    <2>2. CallOK(c)
        BY CallTyped
    <2>3. ASSUME c.op = "accountInfo",
                 Becomes(c, [c EXCEPT !.op = "addBalance", !.got = Sum(UnspentOf(AddressesOf(c.on)))])
          PROVE  Continues(c)
        <3> DEFINE got == Sum(UnspentOf(AddressesOf(c.on)))
        <3>1. got \in Nat /\ c.op \in {"accountInfo", "addressInfo"}
            BY <2>1, <2>3
        <3>2. Becomes(c, [c EXCEPT !.op = "addBalance", !.got = got])
            BY <2>3
        <3> HIDE DEF got
        <3>3. QED
            BY <2>2, <3>1, <3>2, ReadContinues
    <2>4. ASSUME c.op = "addressInfo",
                 Becomes(c, [c EXCEPT !.op = "addBalance", !.got = Sum(UnspentOf({c.on}))])
          PROVE  Continues(c)
        <3> DEFINE got == Sum(UnspentOf({c.on}))
        <3>1. got \in Nat /\ c.op \in {"accountInfo", "addressInfo"}
            BY <2>1, <2>4
        <3>2. Becomes(c, [c EXCEPT !.op = "addBalance", !.got = got])
            BY <2>4
        <3> HIDE DEF got
        <3>3. QED
            BY <2>2, <3>1, <3>2, ReadContinues
    <2>5. c.op \in {"accountInfo", "addressInfo"}
        BY <1>7 DEF ReadBalance
    <2>6. Continues(c)
        BY <1>7, <2>3, <2>4 DEF ReadBalance
    <2>7. UNCHANGED <<dbVars, addrs, infoVars>>
        BY <1>7 DEF ReadBalance
    <2>8. QED
        BY <1>0, <2>5, <2>6, <2>7 DEF LeavesAlone, dbVars, infoVars
<1>8. CASE AddBalance(c)
    BY <1>0, <1>8 DEF AddBalance, Over, Continues, LeavesAlone, DbOps, dbVars
<1>9. CASE LoadUtxos(c)
    BY <1>0, <1>9 DEF LoadUtxos, Over, Continues, LeavesAlone, DbOps, dbVars
<1>10. CASE ReadPage(c)
    <2>1. c.op = "page" /\ (Over(c) \/ Becomes(c, Call("flows", NoEntity)))
        BY <1>10 DEF ReadPage
    <2>2. Continues(c)
        BY <2>1 DEF Over, Becomes, Continues
    <2>3. UNCHANGED <<dbVars, addrs, balance, utxos>>
        BY <1>10 DEF ReadPage
    <2>4. QED
        BY <1>0, <2>1, <2>2, <2>3 DEF LeavesAlone, dbVars
<1>11. CASE LoadTransactions(c)
    <2>1. c.op = "flows" /\ Over(c) /\ UNCHANGED <<dbVars, addrs, balance, utxos>>
        BY <1>11 DEF LoadTransactions
    <2>2. QED
        BY <1>0, <2>1 DEF Over, Continues, LeavesAlone, DbOps, dbVars
<1>12. CASE LoadNbTransactions(c)
    <2>1. c.op = "count" /\ Over(c) /\ UNCHANGED <<dbVars, addrs, balance, utxos>>
        BY <1>12 DEF LoadNbTransactions
    <2>2. QED
        BY <1>0, <2>1 DEF Over, Continues, LeavesAlone, DbOps, dbVars
<1>13. QED
    BY <1>1, <1>2, <1>3, <1>4, <1>5, <1>6, <1>7, <1>8, <1>9, <1>10, <1>11, <1>12 DEF CallStep

LEMMA CallFailures ==
    ASSUME WalletTypeOK, CallsOK, NEW c \in todo, CallFails(c)
    PROVE  /\ Continues(c) /\ LeavesAlone(c)
           /\ UNCHANGED <<dbVars, addrs, infoVars>>
           /\ \/ outcome' = "error" \/ lowered' = TRUE
              \/ c.op = "ensureAccount" /\ todo' = todo \ {c}
<1>0. /\ c = [op |-> c.op, on |-> c.on, got |-> c.got]
      /\ UNCHANGED <<dbVars, asking, phase, addrs, infoVars, changed>>
    BY CallTyped DEF CallFails
<1>1. CASE /\ c.op = "accountInfo"
           /\ \E got \in {0, Sum(UnspentOf(AddressesOf(c.on)))} :
                Becomes(c, [c EXCEPT !.op = "addBalance", !.got = got])
           /\ lowered' = TRUE
           /\ UNCHANGED outcome
    <2>1. UnspentOf(AddressesOf(c.on)) \in SUBSET Coins
        BY DEF UnspentOf, WalletTypeOK
    <2>2. Sum(UnspentOf(AddressesOf(c.on))) \in Nat
        BY <2>1, SumStep
    <2>3. PICK got \in {0, Sum(UnspentOf(AddressesOf(c.on)))} :
                Becomes(c, [c EXCEPT !.op = "addBalance", !.got = got])
        BY <1>1
    <2>4. got \in Nat /\ CallOK(c)
        BY <2>2, CallTyped
    <2>5. Continues(c)
        BY <1>1, <2>3, <2>4, ReadContinues
    <2>6. QED
        BY <1>0, <1>1, <2>5 DEF LeavesAlone, dbVars, infoVars
<1>2. CASE c.op = "ensureAccount" /\ Over(c) /\ UNCHANGED <<lowered, outcome>>
    BY <1>0, <1>2 DEF Over, Continues, LeavesAlone, dbVars, infoVars
<1>3. CASE /\ c.op \notin {"accountInfo", "addBalance"} /\ Over(c)
           /\ outcome' = "error"
           /\ UNCHANGED lowered
    BY <1>0, <1>3 DEF Over, Continues, LeavesAlone, dbVars, infoVars
<1>4. QED
    BY <1>1, <1>2, <1>3 DEF CallFails

LEMMA EntitiesStay ==
    ASSUME WalletTypeOK, CallsOK, NEW c \in todo, LeavesAlone(c)
    PROVE  InfoEntities' = InfoEntities
<1>1. UNCHANGED <<asking, phase>> /\ (c.op # "filter" => addrs' = addrs)
    BY DEF LeavesAlone
<1>2. c.op = "filter" => ~AddressesRead(asking.kind, phase)
    BY CallTyped, OpWhen
<1>3. CASE c.op = "filter"
    <2>1. ~AddressesRead(asking.kind, phase) /\ ~AddressesRead(asking'.kind, phase')
        BY <1>1, <1>2, <1>3
    <2>2. QED
        BY <1>1, <2>1 DEF InfoEntities
<1>4. CASE c.op # "filter"
    BY <1>1, <1>4 DEF InfoEntities
<1>5. QED
    BY <1>3, <1>4

LEMMA CallsKept ==
    ASSUME WalletTypeOK, CallsOK, NEW c \in todo, LeavesAlone(c), Continues(c)
    PROVE  CallsOK'
<1>1. UNCHANGED <<asking, phase>> /\ (c.op # "filter" => addrs' = addrs) /\ InfoEntities' = InfoEntities
    BY EntitiesStay DEF LeavesAlone
<1>2. CallOK(c) /\ phase \in Nat /\ asking.kind \in Kinds
    BY CallTyped
<1>3. ASSUME NEW d \in todo PROVE CallOK(d)'
    <2>1. CallOK(d)
        BY CallTyped
    <2>2. d.op = "addressInfo" => addrs' = addrs
        <3>1. d.op = "addressInfo" => AddressesRead(asking.kind, phase)
            BY CallTyped, OpWhen
        <3>2. c.op = "filter" => ~AddressesRead(asking.kind, phase)
            BY CallTyped, OpWhen
        <3>3. QED
            BY <1>1, <3>1, <3>2
    <2>3. XpubsOf(asking)' = XpubsOf(asking)
        BY <1>1
    <2>4. QED
        BY <1>1, <2>1, <2>2, <2>3 DEF CallOK
<1>4. CASE todo' = todo \ {c}
    BY <1>3, <1>4 DEF CallsOK
<1>5. CASE /\ c.op \in {"accountInfo", "addressInfo"}
           /\ \E got \in Nat : todo' = (todo \ {c}) \cup {BalanceRead(c, got)}
    <2>1. PICK got \in Nat : todo' = (todo \ {c}) \cup {BalanceRead(c, got)}
        BY <1>5
    <2> DEFINE e == BalanceRead(c, got)
    <2>2. e.op = "addBalance" /\ e.on = c.on /\ e.got = got
        BY DEF BalanceRead
    <2>3. e \in [op : Ops, on : Accounts \cup WalletAddrs \cup {NoEntity}, got : Nat]
        <3>1. c.on \in Accounts \cup WalletAddrs \cup {NoEntity} /\ "addBalance" \in Ops
            BY <1>2 DEF CallOK, Ops
        <3>2. QED
            BY <3>1 DEF BalanceRead
    <2> HIDE DEF e
    <2>4. OpAt(asking.kind, phase, "addBalance")
        BY <1>5, CallTyped, OpWhen
    <2>5. c.on \in InfoEntities
        <3>1. c.op = "accountInfo" => c.on \in XpubsOf(asking) /\ AccountsRead(asking.kind, phase)
            BY <1>2, CallTyped, OpWhen DEF CallOK, AccountOps
        <3>2. c.op = "addressInfo" => c.on \in addrs /\ AddressesRead(asking.kind, phase)
            BY <1>2, CallTyped, OpWhen DEF CallOK
        <3>3. QED
            BY <1>5, <3>1, <3>2 DEF InfoEntities
    <2>6. CallOK(e)'
        <3>1. e.op \notin AccountOps /\ e.op \notin SingleOps
            BY <2>2 DEF AccountOps, SingleOps
        <3>2. QED
            BY <1>1, <2>2, <2>3, <2>4, <2>5, <3>1 DEF CallOK
    <2>7. todo' = (todo \ {c}) \cup {e}
        BY <2>1 DEF e
    <2>8. ASSUME NEW d \in todo', NEW f \in todo', d.op \in InfoOps, f.op \in InfoOps, d.on = f.on
          PROVE  d = f
        <3>1. c.op \in InfoOps
            BY <1>5 DEF InfoOps
        <3>2. \A g \in todo : g.op \in InfoOps /\ g.on = c.on => g = c
            BY <3>1 DEF CallsOK
        <3>3. QED
            BY <2>2, <2>7, <2>8, <3>2 DEF CallsOK
    <2>9. \A d \in todo' : CallOK(d)'
        BY <1>3, <2>6, <2>7
    <2>10. QED
        BY <2>8, <2>9 DEF CallsOK
<1>6. CASE c.op = "page" /\ todo' = (todo \ {c}) \cup {Call("flows", NoEntity)}
    <2> DEFINE e == Call("flows", NoEntity)
    <2>1. e.op = "flows" /\ e.on = NoEntity /\ e.got = 0
        BY DEF Call
    <2>2. e \in [op : Ops, on : Accounts \cup WalletAddrs \cup {NoEntity}, got : Nat]
        BY DEF Call, Ops
    <2> HIDE DEF e
    <2>3. OpAt(asking.kind, phase, "flows")
        BY <1>6, CallTyped, OpWhen
    <2>4. CallOK(e)'
        <3>1. e.op \notin AccountOps
            BY <2>1 DEF AccountOps
        <3>2. QED
            BY <1>1, <2>1, <2>2, <2>3, <3>1 DEF CallOK
    <2>5. todo' = (todo \ {c}) \cup {e} /\ e.op \notin InfoOps
        BY <1>6, <2>1 DEF e, InfoOps
    <2>6. QED
        BY <1>3, <2>4, <2>5 DEF CallsOK
<1>7. QED
    BY <1>4, <1>5, <1>6 DEF Continues

LEMMA RequestKept ==
    ASSUME WalletTypeOK, RequestOK, NEW c \in todo, LeavesAlone(c)
    PROVE  RequestOK' /\ phase \in 1 .. 9 /\ outcome # "ok" /\ asking \in Asks
<1>1. phase \in 1 .. 9 /\ outcome # "ok" /\ asking \in Asks
    <2>1. phase = 0 => todo = {}
        BY DEF RequestOK
    <2>2. phase \in 0 .. 9
        BY DEF WalletTypeOK
    <2>3. phase \in 1 .. 9
        BY <2>1, <2>2
    <2>4. phase > 0 => asking \in Asks /\ (outcome = "ok" => todo = {})
        BY DEF RequestOK
    <2>5. QED
        BY <2>3, <2>4
<1>2. UNCHANGED <<asking, phase>> /\ outcome' # "ok" /\ addrs' \subseteq addrs
    BY <1>1 DEF LeavesAlone
<1>3. asking \in Asks /\ phase <= LastPhase[asking.kind] /\ addrs \subseteq AddrsOf(asking)
    BY <1>1 DEF RequestOK
<1>4. QED
    BY <1>1, <1>2, <1>3 DEF RequestOK

-----------------------------------------------------------------------------
(* The tables                                                                 *)

\* Rows are only added, and those of an account with its addresses; when the account had
\* its row already, its addresses get no other coin.
TablesGrow ==
    /\ accounts' \subseteq Accounts /\ tracked' \subseteq WalletAddrs
    /\ coins' \subseteq Coins /\ \A u \in coins' : CoinAddr[u] \in tracked'
    /\ RowsOK'
    /\ accounts \subseteq accounts' /\ tracked \subseteq tracked' /\ coins \subseteq coins'
    /\ accounts' = accounts => \A u \in coins' \ coins : CoinAddr[u] \notin tracked

LEMMA TablesSame ==
    ASSUME WalletTypeOK, RowsOK, UNCHANGED <<accounts, tracked, coins>>
    PROVE  TablesGrow
BY DEF WalletTypeOK, RowsOK, TablesGrow

LEMMA HistoryIs ==
    ASSUME NEW as
    PROVE  HistoryOf(as) \subseteq Coins /\ \A u \in HistoryOf(as) : CoinAddr[u] \in as
BY DEF HistoryOf

LEMMA CallsGrowTables ==
    ASSUME WalletTypeOK, RowsOK, CallsOK, NEW c \in todo, CallStep(c), LeavesAlone(c)
    PROVE  TablesGrow
<1>0. /\ accounts \subseteq Accounts /\ tracked \subseteq WalletAddrs
      /\ coins \subseteq Coins /\ \A u \in coins : CoinAddr[u] \in tracked
      /\ addrs \subseteq WalletAddrs
    BY DEF WalletTypeOK
<1>1. CASE c.op \notin DbOps
    BY <1>1, TablesSame DEF LeavesAlone
<1>2. CASE c.op \in DbOps
    <2>0. CallOK(c) /\ XpubsOf(asking) \subseteq Accounts
        BY CallTyped, KindTyped DEF WalletTypeOK
    <2>1. c.op \in {"newAccount", "ensureAccount"} => c.on \in Accounts
        BY <2>0 DEF CallOK, AccountOps
    <2>2. CASE c.op = "newAccount"
        <3>1. NewAccount(c)
            BY <2>2 DEF CallStep, NewAddress, EnsureAccount, EnsureAddresses, ForceEnsure,
                        FilterAddresses, ReadBalance, AddBalance, LoadUtxos, ReadPage,
                        LoadTransactions, LoadNbTransactions
        <3>2. /\ accounts' = accounts \cup {c.on} /\ coins' = coins
              /\ tracked' = tracked \cup {a \in WalletAddrs : Owner[a] = c.on}
            BY <3>1 DEF NewAccount
        <3>3. RowsOK'
            BY <3>2 DEF RowsOK
        <3>4. QED
            BY <1>0, <2>1, <2>2, <3>2, <3>3 DEF TablesGrow
    <2>3. CASE c.op = "newAddress"
        <3>1. NewAddress(c)
            BY <2>3 DEF CallStep, NewAccount, EnsureAccount, EnsureAddresses, ForceEnsure,
                        FilterAddresses, ReadBalance, AddBalance, LoadUtxos, ReadPage,
                        LoadTransactions, LoadNbTransactions
        <3>2. tracked' = tracked \cup {c.on} /\ UNCHANGED <<accounts, coins>>
            BY <3>1 DEF NewAddress
        <3>3. c.on \in WalletAddrs
            BY <2>0, <2>3 DEF CallOK
        <3>4. RowsOK'
            BY <3>2 DEF RowsOK
        <3>5. QED
            BY <1>0, <3>2, <3>3, <3>4 DEF TablesGrow
    <2>4. CASE c.op = "ensureAccount"
        <3>1. EnsureAccount(c)
            BY <2>4 DEF CallStep, NewAccount, NewAddress, EnsureAddresses, ForceEnsure,
                        FilterAddresses, ReadBalance, AddBalance, LoadUtxos, ReadPage,
                        LoadTransactions, LoadNbTransactions
        <3> DEFINE its == IF c.on \in accounts THEN {} ELSE {a \in WalletAddrs : Owner[a] = c.on}
        <3>2. /\ accounts' = accounts \cup {c.on} /\ tracked' = tracked \cup its
              /\ coins' = coins \cup HistoryOf(its)
            BY <3>1 DEF EnsureAccount
        <3>3. its \subseteq WalletAddrs /\ (c.on \in accounts => its = {})
            OBVIOUS
        <3>4. RowsOK'
            BY <3>2 DEF RowsOK
        <3> HIDE DEF its
        <3>5. HistoryOf(its) \subseteq Coins /\ \A u \in HistoryOf(its) : CoinAddr[u] \in its
            BY HistoryIs
        <3>6. accounts' = accounts => coins' = coins
            BY <3>2, <3>3, <3>5
        <3>7. QED
            BY <1>0, <2>1, <2>4, <3>2, <3>3, <3>4, <3>5, <3>6 DEF TablesGrow
    <2>5. CASE c.op = "ensureAddresses"
        <3>1. EnsureAddresses(c)
            BY <2>5 DEF CallStep, NewAccount, NewAddress, EnsureAccount, ForceEnsure,
                        FilterAddresses, ReadBalance, AddBalance, LoadUtxos, ReadPage,
                        LoadTransactions, LoadNbTransactions
        <3>2. /\ accounts' = accounts /\ tracked' = tracked \cup addrs
              /\ coins' = coins \cup HistoryOf(addrs \ tracked)
            BY <3>1 DEF EnsureAddresses
        <3>3. /\ HistoryOf(addrs \ tracked) \subseteq Coins
              /\ \A u \in HistoryOf(addrs \ tracked) : CoinAddr[u] \in addrs \ tracked
            BY HistoryIs
        <3>4. RowsOK'
            BY <3>2 DEF RowsOK
        <3>5. QED
            BY <1>0, <3>2, <3>3, <3>4 DEF TablesGrow
    <2>6. CASE c.op = "force"
        <3>1. ForceEnsure(c)
            BY <2>6 DEF CallStep, NewAccount, NewAddress, EnsureAccount, EnsureAddresses,
                        FilterAddresses, ReadBalance, AddBalance, LoadUtxos, ReadPage,
                        LoadTransactions, LoadNbTransactions
        <3>2. UNCHANGED <<accounts, coins>> /\ tracked' = tracked \cup (addrs \cap asking.keyed)
            BY <3>1 DEF ForceEnsure
        <3>3. RowsOK'
            BY <3>2 DEF RowsOK
        <3>4. QED
            BY <1>0, <3>2, <3>3 DEF TablesGrow
    <2>7. QED
        BY <1>2, <2>2, <2>3, <2>4, <2>5, <2>6 DEF DbOps
<1>3. QED
    BY <1>1, <1>2

\* The entities whose information is read keep their coins.
LEMMA EntityStays ==
    ASSUME WalletTypeOK, RowsOK, CallsOK, NEW c \in todo, LeavesAlone(c), TablesGrow,
           NEW e \in InfoEntities
    PROVE  CoinsOfEntity(e)' = CoinsOfEntity(e)
<1>0. CallOK(c) /\ OpAt(asking.kind, phase, c.op) /\ asking.kind \in Kinds /\ phase \in Nat
    BY CallTyped
<1>1. happened' = happened
    BY DEF LeavesAlone
<1>2. CASE c.op \notin DbOps
    <2>1. UNCHANGED <<accounts, tracked, coins>>
        BY <1>2 DEF LeavesAlone
    <2>2. QED
        BY <1>1, <2>1 DEF CoinsOfEntity, UnspentOf, AddressesOf, Spent
<1>3. CASE c.op \in DbOps
    <2>1. ~AddressesRead(asking.kind, phase)
        BY <1>0, <1>3, OpWhen
    <2>2. e \in XpubsOf(asking) /\ AccountsRead(asking.kind, phase)
        BY <2>1 DEF InfoEntities
    <2>3. c.op \notin {"newAccount", "ensureAccount"}
        BY <1>0, <2>2, OpWhen
    <2>4. accounts' = accounts
        BY <2>3 DEF LeavesAlone
    <2>5. e \in Accounts
        BY <2>2, KindTyped DEF WalletTypeOK
    <2>6. AddressesOf(e)' = AddressesOf(e)
        <3>1. tracked \subseteq tracked' /\ tracked' \subseteq WalletAddrs
            BY DEF TablesGrow
        <3>2. ASSUME NEW a \in tracked', e \in accounts, Owner[a] = e PROVE a \in tracked
            BY <3>1, <3>2 DEF RowsOK
        <3>3. QED
            BY <2>4, <3>1, <3>2 DEF AddressesOf
    <2>7. ASSUME NEW as, as \subseteq tracked PROVE UnspentOf(as)' = UnspentOf(as)
        <3>1. coins \subseteq coins' /\ \A u \in coins' \ coins : CoinAddr[u] \notin tracked
            BY <2>4 DEF TablesGrow
        <3>2. QED
            BY <1>1, <2>7, <3>1 DEF UnspentOf, Spent
    <2>8. AddressesOf(e) \subseteq tracked
        BY DEF AddressesOf
    <2>9. UnspentOf(AddressesOf(e))' = UnspentOf(AddressesOf(e))
        BY <2>6, <2>7, <2>8
    <2>10. QED
        BY <2>5, <2>9 DEF CoinsOfEntity
<1>4. QED
    BY <1>2, <1>3

-----------------------------------------------------------------------------
(* Calls keep the invariant                                                   *)

\* The only call of its phase is that of the filter.
LEMMA FilterAlone ==
    ASSUME WalletTypeOK, CallsOK, NEW c \in todo, c.op = "filter"
    PROVE  todo = {c}
<1>1. ASSUME NEW d \in todo PROVE d = Call("filter", NoEntity)
    <2>1. CallOK(d) /\ OpAt(asking.kind, phase, d.op) /\ d = [op |-> d.op, on |-> d.on, got |-> d.got]
        BY CallTyped
    <2>2. OpAt(asking.kind, phase, c.op) /\ asking.kind \in Kinds /\ phase \in Nat
        BY CallTyped
    <2>3. d.op = "filter"
        BY <2>1, <2>2, OpWhen
    <2>4. d.on = NoEntity /\ d.got = 0
        BY <2>1, <2>3 DEF CallOK, SingleOps
    <2>5. QED
        BY <2>1, <2>3, <2>4 DEF Call
<1>2. QED
    BY <1>1

LEMMA FilterFilters ==
    ASSUME WalletTypeOK, RequestOK, CallsOK, FilterOK, NEW c \in todo, c.op = "filter",
           CallStep(c)
    PROVE  /\ addrs' \cap Theirs(XpubsOf(asking))' = {}
           /\ AddrsOf(asking)' \ addrs' \subseteq Theirs(XpubsOf(asking))'
<1>1. FilterAddresses(c) /\ UNCHANGED asking
    BY DEF CallStep, NewAccount, NewAddress, EnsureAccount, EnsureAddresses, ForceEnsure, ReadBalance,
           AddBalance, LoadUtxos, ReadPage, LoadTransactions, LoadNbTransactions
<1>2. /\ addrs' = addrs \ OfAccounts(addrs, XpubsOf(asking))
      /\ UNCHANGED <<accounts, tracked>>
    BY <1>1 DEF FilterAddresses, dbVars
<1>3. phase = FilterAt[asking.kind] /\ phase \in 1 .. 9
    <2>1. OpAt(asking.kind, phase, c.op) /\ asking.kind \in Kinds /\ phase \in Nat
        BY CallTyped
    <2>2. phase = FilterAt[asking.kind]
        BY <2>1, OpWhen
    <2>3. QED
        BY <2>1, <2>2 DEF FilterAt, Kinds
<1>4. addrs = AddrsOf(asking)
    BY <1>3 DEF FilterOK
<1>5. Theirs(XpubsOf(asking))' = Theirs(XpubsOf(asking))
    BY <1>1, <1>2 DEF Theirs, AddressesOf
<1>6. addrs' = addrs \ Theirs(XpubsOf(asking))
    BY <1>2 DEF OfAccounts, Theirs
<1>7. QED
    BY <1>1, <1>4, <1>5, <1>6

\* A call, done or failed
Moves(c) ==
    \/ CallStep(c) /\ outcome' = outcome
    \/ CallFails(c) /\ UNCHANGED <<dbVars, addrs, infoVars>>

LEMMA FilterKept ==
    ASSUME WalletTypeOK, RequestOK, CallsOK, FilterOK, NEW c \in todo,
           Moves(c), Continues(c), LeavesAlone(c)
    PROVE  FilterOK'
<1>1. /\ OpAt(asking.kind, phase, c.op) /\ asking.kind \in Kinds /\ phase \in Nat
      /\ UNCHANGED <<asking, phase>> /\ phase # 0
    BY CallTyped DEF LeavesAlone, RequestOK
<1>2. FilterAt[asking.kind] \in Nat
    BY <1>1 DEF FilterAt, Kinds
<1>3. CASE phase < FilterAt[asking.kind]
    <2>1. addrs' = addrs
        BY <1>1, <1>3, OpWhen DEF LeavesAlone
    <2>2. addrs = AddrsOf(asking)
        BY <1>1, <1>2, <1>3 DEF FilterOK
    <2>3. ~Filtered'
        BY <1>1, <1>2, <1>3 DEF Filtered
    <2>4. QED
        BY <1>1, <2>1, <2>2, <2>3 DEF FilterOK
<1>4. CASE phase = FilterAt[asking.kind]
    <2>1. c.op = "filter"
        BY <1>1, <1>4, OpWhen
    <2>2. todo' = {}
        BY <2>1, FilterAlone DEF Continues
    <2>3. CASE CallStep(c)
        BY <1>1, <1>4, <2>1, <2>2, <2>3, FilterFilters DEF FilterOK
    <2>4. CASE CallFails(c)
        <3>1. outcome' = "error"
            BY <2>1, <2>4 DEF CallFails
        <3>2. ~Filtered'
            BY <1>1, <1>2, <1>4, <3>1 DEF Filtered
        <3>3. QED
            BY <1>1, <1>4, <2>2, <3>2 DEF FilterOK
    <2>5. QED
        BY <2>3, <2>4 DEF Moves
<1>5. CASE phase > FilterAt[asking.kind]
    <2>1. c.op \notin DbOps /\ c.op # "filter"
        BY <1>1, <1>2, <1>5, OpWhen
    <2>2. UNCHANGED <<accounts, tracked, addrs>>
        BY <2>1 DEF LeavesAlone
    <2>3. Theirs(XpubsOf(asking))' = Theirs(XpubsOf(asking))
        BY <1>1, <2>2 DEF Theirs, AddressesOf
    <2>4. Filtered
        BY <1>5 DEF Filtered
    <2>5. ~(phase' \in 1 .. FilterAt[asking'.kind])
        BY <1>1, <1>2, <1>5
    <2>6. QED
        BY <1>1, <2>2, <2>3, <2>4, <2>5 DEF FilterOK
<1>6. QED
    BY <1>1, <1>2, <1>3, <1>4, <1>5

UtxoOps == {"accountUtxos", "addressUtxos"}

\* The calls that list unspent outputs are those of their entities.
LEMMA UtxoCalls ==
    ASSUME WalletTypeOK, CallsOK, NEW c \in todo
    PROVE  /\ c.op = "addressUtxos" => c = Call("addressUtxos", NoEntity)
           /\ c.op = "accountUtxos" => c = Call("accountUtxos", c.on) /\ c.on \in XpubsOf(asking)
<1>1. CallOK(c) /\ c = [op |-> c.op, on |-> c.on, got |-> c.got]
    BY CallTyped
<1>2. c.op \in UtxoOps => c.got = 0
    BY <1>1 DEF CallOK, UtxoOps
<1>3. c.op = "addressUtxos" => c.on = NoEntity
    BY <1>1 DEF CallOK, SingleOps
<1>4. c.op = "accountUtxos" => c.on \in XpubsOf(asking)
    BY <1>1 DEF CallOK, AccountOps
<1>5. QED
    BY <1>1, <1>2, <1>3, <1>4 DEF Call, UtxoOps

\* The calls to come that list unspent outputs: c is not one of them any more.
LEMMA UtxoCallsLeft ==
    ASSUME NEW c \in todo, Continues(c)
    PROVE  {d \in todo' : d.op \in UtxoOps} = {d \in todo : d.op \in UtxoOps} \ {c}
<1>1. ASSUME NEW got PROVE BalanceRead(c, got).op \notin UtxoOps
    BY DEF BalanceRead, UtxoOps
<1>2. Call("flows", NoEntity).op \notin UtxoOps
    BY DEF Call, UtxoOps
<1>3. QED
    BY <1>1, <1>2 DEF Continues

\* The reads of unspent outputs that are over
ByAddresses == \A d \in todo : d.op # "addressUtxos"
ByAccount(x) == Call("accountUtxos", x) \notin todo

LEMMA UtxoCallsSame ==
    ASSUME NEW c \in todo, Continues(c), c.op \notin UtxoOps
    PROVE  (ByAddresses' <=> ByAddresses) /\ \A x : ByAccount(x)' <=> ByAccount(x)
<1>1. \A d : d.op \in UtxoOps => (d \in todo' <=> d \in todo)
    BY UtxoCallsLeft
<1>2. \A x : Call("accountUtxos", x).op \in UtxoOps
    BY DEF Call, UtxoOps
<1>3. \A d : d.op = "addressUtxos" => d.op \in UtxoOps
    BY DEF UtxoOps
<1>4. QED
    BY <1>1, <1>2, <1>3 DEF ByAddresses, ByAccount

\* Once unspent outputs are read, no call changes the tables or the addresses.
LEMMA ReadsAlone ==
    ASSUME WalletTypeOK, CallsOK, NEW c \in todo, LeavesAlone(c),
           UtxosRead(asking.kind, phase) \/ c.op \in UtxoOps
    PROVE  /\ UNCHANGED <<accounts, tracked, coins, happened, asking, phase, addrs>>
           /\ UtxosRead(asking.kind, phase) /\ Filtered
<1>1. /\ OpAt(asking.kind, phase, c.op) /\ asking.kind \in Kinds /\ phase \in Nat
    BY CallTyped
<1>2. UtxosRead(asking.kind, phase)
    BY <1>1, OpWhen DEF UtxoOps
<1>3. c.op \notin DbOps /\ c.op # "filter"
    BY <1>1, <1>2, OpWhen
<1>4. phase > FilterAt[asking.kind]
    BY <1>1, <1>2, ReadWhen
<1>5. QED
    BY <1>2, <1>3, <1>4 DEF LeavesAlone, Filtered

\* What a call lists now
Found(c) == UnspentOf(IF c.op = "addressUtxos" THEN addrs ELSE AddressesOf(c.on))

LEMMA FoundIs ==
    ASSUME NEW c, c.op \in UtxoOps, NEW u
    PROVE  u \in Found(c) <=>
             /\ u \in coins /\ ~Spent(u)
             /\ \/ c.op = "addressUtxos" /\ CoinAddr[u] \in addrs
                \/ c.op = "accountUtxos" /\ CoinAddr[u] \in AddressesOf(c.on)
BY DEF Found, UnspentOf, UtxoOps

\* It was not listed before...
LEMMA FoundIsNew ==
    ASSUME WalletTypeOK, CallsOK, FilterOK, Filtered, NEW c \in todo, c.op \in UtxoOps,
           NEW u \in Found(c)
    PROVE  ~Listed(u)
<1>0. addrs \cap Theirs(XpubsOf(asking)) = {}
    BY DEF FilterOK
<1>1. CASE c.op = "addressUtxos"
    <2>1. CoinAddr[u] \in addrs
        BY <1>1, FoundIs
    <2>2. CoinAddr[u] \notin Theirs(XpubsOf(asking))
        BY <1>0, <2>1
    <2>3. QED
        BY <1>1, <2>2 DEF Listed, Theirs
<1>2. CASE c.op = "accountUtxos"
    <2>1. CoinAddr[u] \in AddressesOf(c.on)
        BY <1>2, FoundIs
    <2>2. c = Call("accountUtxos", c.on) /\ c.on \in XpubsOf(asking)
        BY <1>2, UtxoCalls
    <2>3. CoinAddr[u] \notin addrs
        BY <1>0, <2>1, <2>2 DEF Theirs
    <2>4. ASSUME NEW x \in XpubsOf(asking), CoinAddr[u] \in AddressesOf(x) PROVE x = c.on
        BY <2>1, <2>4 DEF AddressesOf
    <2>5. QED
        BY <2>2, <2>3, <2>4 DEF Listed
<1>3. QED
    BY <1>1, <1>2 DEF UtxoOps

\* ... and is listed now, with nothing else.
LEMMA FoundIsListed ==
    ASSUME WalletTypeOK, CallsOK, NEW c \in todo, c.op \in UtxoOps, Continues(c), LeavesAlone(c),
           NEW u \in Coins, u \in coins, ~Spent(u)
    PROVE  /\ Listed(u) \/ u \in Found(c) => Listed(u)'
           /\ Listed(u)' => Listed(u) \/ u \in Found(c)
<1>0. UNCHANGED <<accounts, tracked, asking, addrs>>
    BY ReadsAlone
<1>1. \A x : AddressesOf(x)' = AddressesOf(x)
    BY <1>0 DEF AddressesOf
<1>2. \A d : d.op \in UtxoOps => (d \in todo' <=> d \in todo /\ d # c)
    BY UtxoCallsLeft
<1>3. CASE c.op = "addressUtxos"
    <2>1. \A d \in todo' : d.op # "addressUtxos"
        <3>1. ASSUME NEW d \in todo', d.op = "addressUtxos" PROVE FALSE
            <4>1. d \in todo /\ d # c
                BY <1>2, <3>1 DEF UtxoOps
            <4>2. QED
                BY <1>3, <3>1, <4>1, UtxoCalls
        <3>2. QED
            BY <3>1
    <2>2. \A x : Call("accountUtxos", x) \in todo' <=> Call("accountUtxos", x) \in todo
        <3>1. ASSUME NEW x PROVE Call("accountUtxos", x).op = "accountUtxos" 
            BY DEF Call
        <3>2. QED
            BY <1>2, <1>3, <3>1 DEF UtxoOps
    <2>3. u \in Found(c) <=> CoinAddr[u] \in addrs
        BY <1>3, FoundIs
    <2>4. QED
        BY <1>0, <1>1, <1>3, <2>1, <2>2, <2>3 DEF Listed
<1>4. CASE c.op = "accountUtxos"
    <2>0. c = Call("accountUtxos", c.on) /\ c.on \in XpubsOf(asking)
        BY <1>4, UtxoCalls
    <2>1. (\A d \in todo' : d.op # "addressUtxos") <=> (\A d \in todo : d.op # "addressUtxos")
        BY <1>2, <1>4 DEF UtxoOps
    <2>2. \A x : Call("accountUtxos", x) \in todo' <=> Call("accountUtxos", x) \in todo /\ x # c.on
        <3>1. ASSUME NEW x PROVE Call("accountUtxos", x).op = "accountUtxos" /\ Call("accountUtxos", x).on = x
            BY DEF Call
        <3>2. ASSUME NEW x PROVE Call("accountUtxos", x) = c <=> x = c.on
            BY <2>0, <3>1
        <3>3. QED
            BY <1>2, <3>1, <3>2 DEF UtxoOps
    <2>3. u \in Found(c) <=> CoinAddr[u] \in AddressesOf(c.on)
        BY <1>4, FoundIs
    <2>4. QED
        BY <1>0, <1>1, <2>0, <2>1, <2>2, <2>3 DEF Listed
<1>5. QED
    BY <1>3, <1>4 DEF UtxoOps

LEMMA ListedStays ==
    ASSUME WalletTypeOK, CallsOK, NEW c \in todo, Continues(c), LeavesAlone(c),
           UtxosRead(asking.kind, phase), NEW u, Listed(u)
    PROVE  Listed(u)'
<1>0. UNCHANGED <<accounts, tracked, asking, addrs>>
    BY ReadsAlone
<1>1. \A x : AddressesOf(x)' = AddressesOf(x)
    BY <1>0 DEF AddressesOf
<1>2. \A d : d.op \in UtxoOps => (d \in todo' => d \in todo)
    BY UtxoCallsLeft
<1>3. \A x : Call("accountUtxos", x).op \in UtxoOps
    BY DEF Call, UtxoOps
<1>4. QED
    BY <1>0, <1>1, <1>2, <1>3 DEF Listed, UtxoOps

LEMMA ListedSame ==
    ASSUME WalletTypeOK, CallsOK, NEW c \in todo, Continues(c), LeavesAlone(c),
           UtxosRead(asking.kind, phase), c.op \notin UtxoOps, NEW u, Listed(u)'
    PROVE  Listed(u)
<1>0. UNCHANGED <<accounts, tracked, asking, addrs>>
    BY ReadsAlone
<1>1. \A x : AddressesOf(x)' = AddressesOf(x)
    BY <1>0 DEF AddressesOf
<1>2. (ByAddresses' <=> ByAddresses) /\ \A x : ByAccount(x)' <=> ByAccount(x)
    BY UtxoCallsSame
<1>3. QED
    BY <1>0, <1>1, <1>2 DEF Listed, ByAddresses, ByAccount

LEMMA LoadUtxosIs ==
    ASSUME NEW c \in todo, CallStep(c), c.op \in UtxoOps, utxos \in [Coins -> Nat]
    PROVE  /\ utxos' \in [Coins -> Nat]
           /\ \A u \in Coins : utxos'[u] = IF u \in Found(c) THEN utxos[u] + 1 ELSE utxos[u]
<1>1. LoadUtxos(c)
    BY DEF CallStep, NewAccount, NewAddress, EnsureAccount, EnsureAddresses, ForceEnsure,
           FilterAddresses, ReadBalance, AddBalance, ReadPage, LoadTransactions,
           LoadNbTransactions, UtxoOps
<1>2. utxos' = [u \in Coins |-> IF u \in Found(c) THEN utxos[u] + 1 ELSE utxos[u]]
    BY <1>1 DEF LoadUtxos, Found
<1>3. QED
    BY <1>2

\* The parts of UtxosOK that speak of one coin
ListedOnce(u) == utxos[u] \in {0, 1} /\ (utxos[u] = 1 => UtxosRead(asking.kind, phase) /\ Listed(u))
AllListed(u) == (utxos[u] = 1) <=> (u \in coins /\ ~Spent(u) /\ Listed(u))

LEMMA UtxosOKIs ==
    ASSUME \A u \in Coins : ListedOnce(u)',
           ~changed' /\ outcome' # "error" /\ UtxosRead(asking.kind, phase)' =>
             \A u \in Coins : AllListed(u)'
    PROVE  UtxosOK'
BY DEF UtxosOK, ListedOnce, AllListed

LEMMA UtxosKept ==
    ASSUME WalletTypeOK, CallsOK, FilterOK, UtxosOK, NEW c \in todo,
           Moves(c), Continues(c), LeavesAlone(c)
    PROVE  UtxosOK'
<1>0. /\ UNCHANGED <<asking, phase, changed, happened>>
      /\ \A u \in Coins : utxos[u] \in {0, 1}
      /\ \A u \in Coins : utxos[u] = 1 => UtxosRead(asking.kind, phase) /\ Listed(u)
      /\ utxos \in [Coins -> Nat]
    BY DEF LeavesAlone, UtxosOK, WalletTypeOK
<1>1. CASE ~UtxosRead(asking.kind, phase)
    <2>1. c.op \notin UtxoOps
        BY <1>1, ReadsAlone
    <2>2. utxos' = utxos
        BY <2>1 DEF LeavesAlone, UtxoOps
    <2>3. \A u \in Coins : utxos'[u] = 0
        BY <1>0, <1>1, <2>2
    <2>4. ~UtxosRead(asking.kind, phase)'
        BY <1>0, <1>1
    <2>5. QED
        BY <2>3, <2>4 DEF UtxosOK
<1>2. CASE UtxosRead(asking.kind, phase) /\ utxos' = utxos /\ (outcome' = "error" \/ c.op \notin UtxoOps)
    <2>1. UNCHANGED <<coins, happened>>
        BY <1>2, ReadsAlone
    <2>2. UtxosRead(asking.kind, phase)'
        BY <1>0, <1>2
    <2>3. ASSUME NEW u \in Coins PROVE ListedOnce(u)'
        BY <1>0, <1>2, <2>2, ListedStays DEF ListedOnce
    <2>4. ASSUME ~changed', outcome' # "error", NEW u \in Coins PROVE AllListed(u)'
        <3>1. outcome # "error" /\ ~changed
            BY <1>0, <2>4 DEF LeavesAlone
        <3>2. (utxos[u] = 1) <=> (u \in coins /\ ~Spent(u) /\ Listed(u))
            BY <1>2, <3>1 DEF UtxosOK
        <3>3. (Listed(u) => Listed(u)') /\ (Listed(u)' => Listed(u))
            BY <1>2, <2>4, ListedStays, ListedSame
        <3>4. Spent(u)' <=> Spent(u)
            BY <2>1 DEF Spent
        <3>5. QED
            BY <1>2, <2>1, <3>2, <3>3, <3>4 DEF AllListed
    <2>5. QED
        BY <2>3, <2>4, UtxosOKIs
<1>3. CASE UtxosRead(asking.kind, phase) /\ CallStep(c) /\ c.op \in UtxoOps
    <2>1. UNCHANGED <<coins, happened>> /\ Filtered
        BY <1>3, ReadsAlone
    <2>2. UtxosRead(asking.kind, phase)'
        BY <1>0, <1>3
    <2>3. \A u \in Coins : utxos'[u] = IF u \in Found(c) THEN utxos[u] + 1 ELSE utxos[u]
        BY <1>0, <1>3, LoadUtxosIs
    <2>4. \A u \in Found(c) : u \in coins /\ ~Spent(u)
        BY <1>3, FoundIs
    <2>5. ASSUME NEW u \in Coins
          PROVE  utxos'[u] \in {0, 1} /\ ((utxos'[u] = 1) <=> (u \in Found(c) \/ utxos[u] = 1))
        <3>1. u \in Found(c) => utxos[u] = 0
            BY <1>0, <1>3, <2>1, FoundIsNew
        <3>2. QED
            BY <1>0, <2>3, <3>1
    <2>6. ASSUME NEW u \in Coins PROVE ListedOnce(u)'
        <3>1. u \in Found(c) => Listed(u)'
            BY <1>3, <2>4, FoundIsListed
        <3>2. utxos[u] = 1 => Listed(u)'
            BY <1>0, <1>3, ListedStays
        <3>3. QED
            BY <2>2, <2>5, <3>1, <3>2 DEF ListedOnce
    <2>7. ASSUME ~changed', outcome' # "error", NEW u \in Coins PROVE AllListed(u)'
        <3>1. outcome # "error" /\ ~changed
            BY <1>0, <2>7 DEF LeavesAlone
        <3>2. (utxos[u] = 1) <=> (u \in coins /\ ~Spent(u) /\ Listed(u))
            BY <1>3, <3>1 DEF UtxosOK
        <3>3. u \in coins /\ ~Spent(u) =>
                /\ Listed(u) \/ u \in Found(c) => Listed(u)'
                /\ Listed(u)' => Listed(u) \/ u \in Found(c)
            BY <1>3, FoundIsListed
        <3>4. Spent(u)' <=> Spent(u)
            BY <2>1 DEF Spent
        <3>5. QED
            BY <2>1, <2>4, <2>5, <3>2, <3>3, <3>4 DEF AllListed
    <2>8. QED
        BY <2>6, <2>7, UtxosOKIs
<1>4. QED
    <2>1. CASE CallStep(c)
        BY <1>1, <1>2, <1>3, <2>1 DEF LeavesAlone, UtxoOps
    <2>2. CASE CallFails(c) /\ UNCHANGED infoVars
        <3>1. c.op \in UtxoOps => outcome' = "error"
            BY <2>2 DEF CallFails, UtxoOps
        <3>2. QED
            BY <1>1, <1>2, <2>2, <3>1 DEF infoVars
    <2>3. QED
        BY <2>1, <2>2 DEF Moves

-----------------------------------------------------------------------------
(* The balance                                                                *)

LEMMA EntityCoins ==
    ASSUME WalletTypeOK, NEW e
    PROVE  /\ CoinsOfEntity(e) \in SUBSET Coins
           /\ Sum(CoinsOfEntity(e)) \in Nat
<1>1. CoinsOfEntity(e) \in SUBSET Coins
    BY DEF CoinsOfEntity, UnspentOf, WalletTypeOK
<1>2. QED
    BY <1>1, SumStep

LEMMA EntitiesTyped ==
    ASSUME WalletTypeOK, FilterOK
    PROVE  /\ InfoEntities \subseteq Accounts \cup WalletAddrs
           /\ \A e \in InfoEntities \ Accounts : e \in addrs /\ Filtered
           /\ \A e \in InfoEntities \cap Accounts : e \in XpubsOf(asking)
<1>1. /\ asking.kind \in Kinds /\ XpubsOf(asking) \subseteq Accounts /\ phase \in Nat
      /\ addrs \subseteq WalletAddrs
    BY KindTyped DEF WalletTypeOK
<1>2. AddressesRead(asking.kind, phase) => Filtered
    BY <1>1, ReadWhen DEF Filtered
<1>3. Accounts \cap WalletAddrs = {}
    BY WalletAssumption
<1>4. QED
    BY <1>1, <1>2, <1>3 DEF InfoEntities

\* No coin belongs to two of the entities that are counted.
LEMMA EntitiesApart ==
    ASSUME WalletTypeOK, FilterOK, NEW d \in InfoEntities, NEW e \in InfoEntities, d # e
    PROVE  CoinsOfEntity(d) \cap CoinsOfEntity(e) = {}
<1>1. ASSUME NEW u \in CoinsOfEntity(d), u \in CoinsOfEntity(e) PROVE FALSE
    <2>0. \A f \in InfoEntities : u \in CoinsOfEntity(f) =>
            IF f \in Accounts THEN CoinAddr[u] \in AddressesOf(f) ELSE CoinAddr[u] = f
        BY DEF CoinsOfEntity, UnspentOf
    <2>1. CASE d \in Accounts /\ e \in Accounts
        BY <1>1, <2>0, <2>1 DEF AddressesOf
    <2>2. CASE d \notin Accounts /\ e \notin Accounts
        BY <1>1, <2>0, <2>2
    <2>3. ASSUME NEW f \in InfoEntities, NEW g \in InfoEntities, f \in Accounts, g \notin Accounts,
                 CoinAddr[u] \in AddressesOf(f), CoinAddr[u] = g
          PROVE  FALSE
        <3>1. g \in addrs /\ Filtered /\ f \in XpubsOf(asking)
            BY <2>3, EntitiesTyped
        <3>2. addrs \cap Theirs(XpubsOf(asking)) = {}
            BY <3>1 DEF FilterOK
        <3>3. g \in Theirs(XpubsOf(asking))
            BY <2>3, <3>1 DEF Theirs
        <3>4. QED
            BY <3>1, <3>2, <3>3
    <2>4. QED
        BY <1>1, <2>0, <2>1, <2>2, <2>3
<1>2. QED
    BY <1>1

\* The entities whose information is added to the balance
Done == {e \in InfoEntities : ~Pending(e)}

LEMMA CountedTyped ==
    ASSUME WalletTypeOK
    PROVE  Counted \in SUBSET Coins
<1>1. \A e : CoinsOfEntity(e) \subseteq Coins
    BY EntityCoins
<1>2. QED
    BY <1>1 DEF Counted

\* A read of information leaves the entities done; so does a call that does not concern it.
LEMMA PendingStays ==
    ASSUME NEW c \in todo, Continues(c), c.op # "addBalance",
           c.op \in InfoOps => \E got : todo' = (todo \ {c}) \cup {BalanceRead(c, got)}
    PROVE  \A e : Pending(e)' <=> Pending(e)
<1>1. CASE c.op \in InfoOps
    <2>1. PICK got : todo' = (todo \ {c}) \cup {BalanceRead(c, got)}
        BY <1>1
    <2> DEFINE b == BalanceRead(c, got)
    <2>2. b.op \in InfoOps /\ b.on = c.on
        BY DEF BalanceRead, InfoOps
    <2> HIDE DEF b
    <2>3. todo' = (todo \ {c}) \cup {b}
        BY <2>1 DEF b
    <2>4. QED
        BY <1>1, <2>2, <2>3 DEF Pending
<1>2. CASE todo' = todo \ {c} /\ c.op \notin InfoOps
    BY <1>2 DEF Pending
<1>3. CASE c.op = "page" /\ todo' = (todo \ {c}) \cup {Call("flows", NoEntity)}
    <2> DEFINE b == Call("flows", NoEntity)
    <2>1. b.op \notin InfoOps /\ c.op \notin InfoOps
        BY <1>3 DEF Call, InfoOps
    <2> HIDE DEF b
    <2>2. todo' = (todo \ {c}) \cup {b}
        BY <1>3 DEF b
    <2>3. QED
        BY <2>1, <2>2 DEF Pending
<1>4. QED
    BY <1>1, <1>2, <1>3 DEF Continues, InfoOps

\* The parts of the invariant
Adds == balance = Sum(Counted)
HasRead(c) == c.op = "addBalance" => c.got = Sum(CoinsOfEntity(c.on))

\* A call that adds nothing
LEMMA NothingAdded ==
    ASSUME WalletTypeOK, RowsOK, CallsOK, NEW c \in todo, LeavesAlone(c), TablesGrow,
           Continues(c), c.op # "addBalance",
           c.op \in InfoOps => todo' = (todo \ {c}) \cup {BalanceRead(c, Sum(CoinsOfEntity(c.on)))},
           Adds, \A d \in todo : HasRead(d)
    PROVE  Adds' /\ \A d \in todo' : HasRead(d)'
<1>1. InfoEntities' = InfoEntities /\ balance' = balance
    BY EntitiesStay DEF LeavesAlone
<1>2. \A e \in InfoEntities : CoinsOfEntity(e)' = CoinsOfEntity(e)
    BY EntityStays
<1>3. \A e : Pending(e)' <=> Pending(e)
    BY PendingStays
<1>4. Counted' = Counted
    BY <1>1, <1>2, <1>3 DEF Counted
<1>5. Adds'
    BY <1>1, <1>4 DEF Adds
<1>6. ASSUME NEW d \in todo', d \in todo PROVE HasRead(d)'
    <2>1. d.op = "addBalance" => d.on \in InfoEntities
        BY <1>6, CallTyped DEF CallOK
    <2>2. HasRead(d)
        BY <1>6
    <2>3. d.op = "addBalance" => CoinsOfEntity(d.on)' = CoinsOfEntity(d.on)
        BY <1>2, <2>1
    <2>4. QED
        BY <2>2, <2>3 DEF HasRead
<1>7. ASSUME NEW d \in todo', d \notin todo PROVE HasRead(d)'
    <2>1. CASE c.op \in InfoOps
        <3>1. d = BalanceRead(c, Sum(CoinsOfEntity(c.on)))
            BY <1>7, <2>1
        <3>2. d.on = c.on /\ d.got = Sum(CoinsOfEntity(c.on))
            BY <3>1 DEF BalanceRead
        <3>3. c.on \in InfoEntities
            <4>1. CallOK(c) /\ OpAt(asking.kind, phase, c.op) /\ asking.kind \in Kinds /\ phase \in Nat
                BY CallTyped
            <4>2. c.op = "accountInfo" => c.on \in XpubsOf(asking) /\ AccountsRead(asking.kind, phase)
                BY <4>1, OpWhen DEF CallOK, AccountOps
            <4>3. c.op = "addressInfo" => c.on \in addrs /\ AddressesRead(asking.kind, phase)
                BY <4>1, OpWhen DEF CallOK
            <4>4. QED
                BY <2>1, <4>2, <4>3 DEF InfoEntities, InfoOps
        <3>4. CoinsOfEntity(c.on)' = CoinsOfEntity(c.on)
            BY <1>2, <3>3
        <3>5. QED
            BY <3>2, <3>4 DEF HasRead
    <2>2. CASE c.op \notin InfoOps
        <3>1. d = Call("flows", NoEntity)
            BY <1>7, <2>2 DEF Continues, InfoOps
        <3>2. d.op # "addBalance"
            BY <3>1 DEF Call
        <3>3. QED
            BY <3>2 DEF HasRead
    <2>3. QED
        BY <2>1, <2>2
<1>8. QED
    BY <1>5, <1>6, <1>7

\* The call that adds what it has read
LEMMA ReadAdded ==
    ASSUME WalletTypeOK, RowsOK, CallsOK, FilterOK, NEW c \in todo, LeavesAlone(c), TablesGrow,
           c.op = "addBalance", todo' = todo \ {c}, balance' = balance + c.got,
           Adds, \A d \in todo : HasRead(d)
    PROVE  Adds' /\ \A d \in todo' : HasRead(d)'
<1>1. InfoEntities' = InfoEntities
    BY EntitiesStay
<1>2. \A e \in InfoEntities : CoinsOfEntity(e)' = CoinsOfEntity(e)
    BY EntityStays
<1>3. c.on \in InfoEntities /\ c.op \in InfoOps
    BY CallTyped DEF CallOK, InfoOps
<1>4. ASSUME NEW e PROVE Pending(e)' <=> Pending(e) /\ e # c.on
    <2>1. \A d \in todo : d.op \in InfoOps /\ d.on = c.on => d = c
        BY <1>3 DEF CallsOK
    <2>2. QED
        BY <1>3, <2>1 DEF Pending
<1>5. Pending(c.on)
    BY <1>3 DEF Pending
<1>6. Counted' = Counted \cup CoinsOfEntity(c.on)
    <2>1. \A e : e \in Done' <=> e \in Done \/ e = c.on
        BY <1>1, <1>3, <1>4 DEF Done
    <2>2. Counted' = UNION {CoinsOfEntity(e)' : e \in Done'}
        BY DEF Counted, Done
    <2>3. \A e \in Done' : CoinsOfEntity(e)' = CoinsOfEntity(e)
        BY <1>1, <1>2 DEF Done
    <2>4. Counted = UNION {CoinsOfEntity(e) : e \in Done}
        BY DEF Counted, Done
    <2>5. Counted' = UNION {CoinsOfEntity(e) : e \in Done'}
        BY <2>2, <2>3
    <2>6. QED
        BY <2>1, <2>4, <2>5
<1>7. Counted \cap CoinsOfEntity(c.on) = {}
    <2>1. ASSUME NEW e \in Done PROVE CoinsOfEntity(e) \cap CoinsOfEntity(c.on) = {}
        <3>1. e \in InfoEntities /\ e # c.on
            BY <1>5 DEF Done
        <3>2. QED
            BY <1>3, <3>1, EntitiesApart
    <2>2. Counted = UNION {CoinsOfEntity(e) : e \in Done}
        BY DEF Counted, Done
    <2>3. QED
        BY <2>1, <2>2
<1>8. Adds'
    <2>1. Counted \in SUBSET Coins /\ CoinsOfEntity(c.on) \in SUBSET Coins
        BY CountedTyped, EntityCoins
    <2>2. Sum(Counted \cup CoinsOfEntity(c.on)) = Sum(Counted) + Sum(CoinsOfEntity(c.on))
        BY <1>7, <2>1, SumUnion
    <2>3. c.got = Sum(CoinsOfEntity(c.on)) /\ balance = Sum(Counted)
        BY DEF HasRead, Adds
    <2>4. balance' = Sum(Counted')
        BY <1>6, <2>2, <2>3
    <2>5. QED
        BY <2>4 DEF Adds
<1>9. ASSUME NEW d \in todo' PROVE HasRead(d)'
    <2>1. d.op = "addBalance" => d.on \in InfoEntities
        BY CallTyped DEF CallOK
    <2>2. HasRead(d)
        OBVIOUS
    <2>3. d.op = "addBalance" => CoinsOfEntity(d.on)' = CoinsOfEntity(d.on)
        BY <1>2, <2>1
    <2>4. QED
        BY <2>2, <2>3 DEF HasRead
<1>10. QED
    BY <1>8, <1>9


Exact == ~changed /\ ~lowered /\ outcome # "error"

LEMMA BalanceKept ==
    ASSUME WalletTypeOK, RowsOK, CallsOK, FilterOK, BalanceOK, NEW c \in todo,
           Moves(c), Continues(c), LeavesAlone(c), TablesGrow
    PROVE  BalanceOK'
<1> SUFFICES ASSUME Exact' PROVE Adds' /\ \A d \in todo' : HasRead(d)'
    BY DEF BalanceOK, Exact, Adds, HasRead
<1>1. Exact
    <2>1. changed' = changed /\ outcome' \in {outcome, "error"} /\ lowered' \in {lowered, TRUE}
        BY DEF LeavesAlone, WalletTypeOK
    <2>2. ~lowered' => ~lowered
        <3>1. lowered' = lowered \/ lowered' = TRUE
            BY <2>1
        <3>2. QED
            BY <3>1, Zenon
    <2>3. outcome' # "error" => outcome # "error"
        BY <2>1
    <2>4. QED
        BY <2>1, <2>2, <2>3, Zenon DEF Exact
<1>2. Adds /\ \A d \in todo : HasRead(d)
    BY <1>1 DEF BalanceOK, Exact, Adds, HasRead
<1>3. CallOK(c)
    BY CallTyped
<1>4. CASE CallFails(c)
    <2>1. c.op = "ensureAccount" /\ todo' = todo \ {c}
        BY <1>4, CallFailures DEF Exact
    <2>2. QED
        BY <1>2, <2>1, NothingAdded DEF InfoOps
<1>5. CASE CallStep(c) /\ c.op = "addBalance"
    <2>1. AddBalance(c)
        BY <1>5 DEF CallStep, NewAccount, NewAddress, EnsureAccount, EnsureAddresses, ForceEnsure,
               FilterAddresses, ReadBalance, LoadUtxos, ReadPage, LoadTransactions,
               LoadNbTransactions
    <2>2. todo' = todo \ {c} /\ balance' = balance + c.got
        BY <2>1 DEF AddBalance, Over, PlusRead
    <2>3. QED
        BY <1>2, <1>5, <2>2, ReadAdded
<1>6. CASE CallStep(c) /\ c.op \in {"accountInfo", "addressInfo"}
    <2>1. ReadBalance(c)
        BY <1>6 DEF CallStep, NewAccount, NewAddress, EnsureAccount, EnsureAddresses, ForceEnsure,
               FilterAddresses, AddBalance, LoadUtxos, ReadPage, LoadTransactions,
               LoadNbTransactions
    <2>2. CASE c.op = "accountInfo"
        <3>1. c.on \in Accounts
            BY <1>3, <2>2, KindTyped DEF CallOK, AccountOps, WalletTypeOK
        <3>2. CoinsOfEntity(c.on) = UnspentOf(AddressesOf(c.on))
            BY <3>1 DEF CoinsOfEntity
        <3>3. Becomes(c, [c EXCEPT !.op = "addBalance", !.got = Sum(UnspentOf(AddressesOf(c.on)))])
            BY <2>1, <2>2 DEF ReadBalance
        <3>4. Becomes(c, [c EXCEPT !.op = "addBalance", !.got = Sum(CoinsOfEntity(c.on))])
            BY <3>2, <3>3
        <3>5. todo' = (todo \ {c}) \cup {BalanceRead(c, Sum(CoinsOfEntity(c.on)))}
            BY <1>3, <3>4, BalanceReadIs DEF Becomes
        <3>6. QED
            BY <1>2, <2>2, <3>5, NothingAdded
    <2>3. CASE c.op = "addressInfo"
        <3>1. c.on \notin Accounts
            BY <1>3, <2>3, WalletAssumption DEF CallOK, WalletTypeOK
        <3>2. CoinsOfEntity(c.on) = UnspentOf({c.on})
            BY <3>1 DEF CoinsOfEntity
        <3>3. Becomes(c, [c EXCEPT !.op = "addBalance", !.got = Sum(UnspentOf({c.on}))])
            BY <2>1, <2>3 DEF ReadBalance
        <3>4. Becomes(c, [c EXCEPT !.op = "addBalance", !.got = Sum(CoinsOfEntity(c.on))])
            BY <3>2, <3>3
        <3>5. todo' = (todo \ {c}) \cup {BalanceRead(c, Sum(CoinsOfEntity(c.on)))}
            BY <1>3, <3>4, BalanceReadIs DEF Becomes
        <3>6. QED
            BY <1>2, <2>3, <3>5, NothingAdded
    <2>4. QED
        BY <1>6, <2>2, <2>3
<1>7. CASE c.op \notin InfoOps
    BY <1>2, <1>7, NothingAdded DEF InfoOps
<1>8. QED
    BY <1>4, <1>5, <1>6, <1>7 DEF Moves, InfoOps

\* The variables that the parts of the invariant do not speak of
OthersTyped == nTx' \in Nat /\ failures' \in 0 .. MaxDbFailures /\ balance' \in Nat
               /\ utxos' \in [Coins -> Nat]

LEMMA CallsTyped ==
    ASSUME WalletTypeOK, CallsOK, NEW c \in todo, CallStep(c)
    PROVE  OthersTyped
<1>0. /\ c.got \in Nat /\ balance \in Nat /\ utxos \in [Coins -> Nat] /\ nTx \in Nat
      /\ happened \in 0 .. MaxWalletTx /\ failures' \in 0 .. MaxDbFailures /\ LeavesAlone(c)
    BY CallTyped, CallSteps DEF WalletTypeOK, CallStep
<1>1. balance' \in Nat
    <2>1. CASE c.op = "addBalance"
        <3>1. AddBalance(c)
            BY <2>1 DEF CallStep, NewAccount, NewAddress, EnsureAccount, EnsureAddresses, ForceEnsure,
                   FilterAddresses, ReadBalance, LoadUtxos, ReadPage, LoadTransactions,
                   LoadNbTransactions
        <3>2. balance' = balance + c.got
            BY <3>1 DEF AddBalance, PlusRead
        <3>3. QED
            BY <1>0, <3>2
    <2>2. QED
        BY <1>0, <2>1 DEF LeavesAlone
<1>2. utxos' \in [Coins -> Nat]
    BY <1>0, LoadUtxosIs DEF LeavesAlone, UtxoOps
<1>3. nTx' \in Nat
    <2>1. CASE LoadNbTransactions(c)
        <3> DEFINE its == {t \in 1 .. happened : Touches(t, Reach(addrs, XpubsOf(asking)))}
        <3>1. IsFiniteSet(1 .. happened)
            BY <1>0, FS_Interval
        <3>2. IsFiniteSet(its)
            BY <3>1, FS_Subset
        <3>3. Cardinality(its) \in Nat
            BY <3>2, FS_CardinalityType
        <3>4. nTx' = Cardinality(its)
            BY <2>1 DEF LoadNbTransactions
        <3>5. QED
            BY <3>3, <3>4
    <2>2. CASE ~LoadNbTransactions(c)
        <3>1. nTx' = nTx
            BY <2>2 DEF CallStep, NewAccount, NewAddress, EnsureAccount, EnsureAddresses, ForceEnsure,
                   FilterAddresses, ReadBalance, AddBalance, LoadUtxos, ReadPage,
                   LoadTransactions, dbVars, infoVars
        <3>2. QED
            BY <1>0, <3>1
    <2>3. QED
        BY <2>1, <2>2
<1>4. QED
    BY <1>0, <1>1, <1>2, <1>3 DEF OthersTyped

LEMMA FailuresTyped ==
    ASSUME WalletTypeOK, CallsOK, NEW c \in todo, CallFails(c)
    PROVE  OthersTyped
<1>1. UNCHANGED infoVars
    BY CallFailures
<1>2. failures \in Nat /\ failures < MaxDbFailures /\ failures' = failures + 1
    BY DEF CallFails, WalletTypeOK
<1>3. failures' \in 0 .. MaxDbFailures
    BY <1>2, WalletAssumption
<1>4. QED
    BY <1>1, <1>3 DEF OthersTyped, infoVars, WalletTypeOK

LEMMA TypesKept ==
    ASSUME WalletTypeOK, NEW c \in todo, LeavesAlone(c), TablesGrow, OthersTyped
    PROVE  WalletTypeOK'
<1>1. /\ UNCHANGED <<asking, phase, changed, happened>> /\ outcome' \in {"none", "ok", "error"}
      /\ addrs' \subseteq WalletAddrs /\ lowered' \in BOOLEAN
    BY DEF LeavesAlone, WalletTypeOK
<1>2. QED
    BY <1>1 DEF WalletTypeOK, TablesGrow, OthersTyped

\* Each call, done or failed, keeps the invariant.
LEMMA CallsKeepAll ==
    ASSUME WalletInv, NEW c \in todo, CallStep(c) \/ CallFails(c)
    PROVE  WalletInv'
<1>0. /\ WalletTypeOK /\ RequestOK /\ RowsOK /\ CallsOK /\ FilterOK /\ UtxosOK /\ BalanceOK
    BY DEF WalletInv
<1>1. Continues(c) /\ LeavesAlone(c) /\ Moves(c) /\ TablesGrow /\ OthersTyped
    <2>1. CASE CallStep(c)
        <3>1. Continues(c) /\ LeavesAlone(c)
            BY <1>0, <2>1, CallSteps
        <3>2. Moves(c)
            BY <2>1 DEF Moves, CallStep
        <3>3. QED
            BY <1>0, <2>1, <3>1, <3>2, CallsGrowTables, CallsTyped
    <2>2. CASE CallFails(c)
        <3>1. Continues(c) /\ LeavesAlone(c) /\ UNCHANGED <<dbVars, addrs, infoVars>>
            BY <1>0, <2>2, CallFailures
        <3>2. UNCHANGED <<accounts, tracked, coins>>
            BY <3>1 DEF dbVars
        <3>3. QED
            BY <1>0, <2>2, <3>1, <3>2, TablesSame, FailuresTyped DEF Moves
    <2>3. QED
        BY <2>1, <2>2
<1>2. WalletTypeOK' /\ RequestOK' /\ CallsOK'
    BY <1>0, <1>1, TypesKept, RequestKept, CallsKept
<1>3. RowsOK' /\ FilterOK'
    BY <1>0, <1>1, FilterKept DEF TablesGrow
<1>4. UtxosOK' /\ BalanceOK'
    BY <1>0, <1>1, UtxosKept, BalanceKept
<1>5. QED
    BY <1>2, <1>3, <1>4 DEF WalletInv

-----------------------------------------------------------------------------
(* A phase begins                                                             *)

PhaseBegins ==
    /\ asking' \in Asks /\ addrs' \in SUBSET WalletAddrs
    /\ phase' \in 1 .. LastPhase[asking'.kind]
    /\ todo' = Phases(asking', addrs')[phase']

LEMMA BegunNow ==
    ASSUME PhaseBegins
    PROVE  \A c \in todo' : BeginsOK(asking', addrs', phase', c)
<1>1. asking' \in Asks /\ addrs' \in SUBSET WalletAddrs /\ phase' \in 1 .. LastPhase[asking'.kind]
    BY DEF PhaseBegins
<1>2. PICK r \in Asks : r = asking'
    BY <1>1
<1>3. PICK as \in SUBSET WalletAddrs : as = addrs'
    BY <1>1
<1>4. PICK n \in 1 .. LastPhase[r.kind] : n = phase'
    BY <1>1, <1>2
<1>5. Begun(r, as, n, Phases(r, as)[n])
    BY PhasesBegin
<1>6. \A c \in Phases(r, as)[n] : BeginsOK(r, as, n, c)
    BY <1>5 DEF Begun
<1>7. todo' = Phases(r, as)[n]
    BY <1>2, <1>3, <1>4 DEF PhaseBegins
<1>8. QED
    BY <1>2, <1>3, <1>4, <1>6, <1>7

LEMMA CallsBegun ==
    ASSUME PhaseBegins
    PROVE  CallsOK'
<1>0. /\ asking' \in Asks /\ addrs' \in SUBSET WalletAddrs
      /\ XpubsOf(asking') \subseteq Accounts
    BY AsksTyped DEF PhaseBegins
<1>1. ASSUME NEW c \in todo' PROVE BeginsOK(asking', addrs', phase', c)
    BY BegunNow
<1>2. ASSUME NEW c \in todo' PROVE CallOK(c)'
    <2>1. c.op # "addBalance"
        BY <1>1 DEF BeginsOK
    <2>2. QED
        BY <1>1, <2>1 DEF BeginsOK, CallOK
<1>3. ASSUME NEW c \in todo', NEW d \in todo', c.op \in InfoOps, d.op \in InfoOps, c.on = d.on
      PROVE  c = d
    <2>1. /\ c = [op |-> c.op, on |-> c.on, got |-> 0] /\ d = [op |-> d.op, on |-> d.on, got |-> 0]
          /\ c.op # "addBalance" /\ d.op # "addBalance"
        BY <1>1 DEF BeginsOK
    <2>2. \A e \in {c, d} : /\ e.op = "accountInfo" => e.on \in XpubsOf(asking')
                            /\ e.op = "addressInfo" => e.on \in addrs'
        BY <1>1 DEF BeginsOK, AccountOps
    <2>3. c.op = d.op
        BY <1>0, <1>3, <2>1, <2>2, WalletAssumption DEF InfoOps
    <2>4. QED
        BY <1>3, <2>1, <2>3
<1>4. QED
    BY <1>2, <1>3 DEF CallsOK

\* A phase that reads information begins with the calls for all of its entities.
LEMMA NewEntities ==
    ASSUME PhaseBegins, UNCHANGED <<asking, addrs>>, phase' = phase + 1, phase \in Nat
    PROVE  /\ InfoEntities \subseteq InfoEntities'
           /\ \A e \in InfoEntities' : Pending(e)' <=> e \notin InfoEntities
<1>0. /\ asking \in Asks /\ addrs \in SUBSET WalletAddrs /\ asking.kind \in Kinds
      /\ XpubsOf(asking) \subseteq Accounts /\ XpubsOf(asking)' = XpubsOf(asking)
    BY AsksTyped DEF PhaseBegins, Kinds
<1>1. ASSUME NEW c \in todo', c.op \in InfoOps
      PROVE  c.on \in InfoEntities' /\ c.on \notin InfoEntities
    <2>1. BeginsOK(asking', addrs', phase', c)
        BY BegunNow
    <2>2. /\ OpAt(asking.kind, phase + 1, c.op) /\ c.op \in {"accountInfo", "addressInfo"}
          /\ c.op = "accountInfo" => c.on \in XpubsOf(asking)
          /\ c.op = "addressInfo" => c.on \in addrs
        BY <1>0, <1>1, <2>1 DEF BeginsOK, AccountOps, InfoOps
    <2>3. /\ c.op = "accountInfo" => /\ AccountsRead(asking.kind, phase + 1)
                                     /\ ~AccountsRead(asking.kind, phase)
          /\ c.op = "addressInfo" => /\ AddressesRead(asking.kind, phase + 1)
                                     /\ ~AddressesRead(asking.kind, phase)
        BY <1>0, <2>2 DEF OpAt, Kinds, AccountsRead, AddressesRead
    <2>4. c.on \in InfoEntities'
        BY <1>0, <2>2, <2>3 DEF InfoEntities
    <2>5. c.op = "accountInfo" => ~AddressesRead(asking.kind, phase)
        BY <1>0, <2>3, ReadWhen
    <2>6. c.op = "addressInfo" => c.on \notin XpubsOf(asking)
        BY <1>0, <2>2, WalletAssumption
    <2>7. QED
        BY <2>2, <2>3, <2>4, <2>5, <2>6 DEF InfoEntities
<1>2. InfoEntities \subseteq InfoEntities'
    <2>1. /\ AccountsRead(asking.kind, phase) /\ asking.kind # "full" => AccountsRead(asking.kind, phase + 1)
          /\ AddressesRead(asking.kind, phase) /\ asking.kind # "full" => AddressesRead(asking.kind, phase + 1)
          /\ asking.kind = "full" => phase < 5
        BY <1>0 DEF AccountsRead, AddressesRead, PhaseBegins, LastPhase
    <2>2. asking.kind = "full" => ~AccountsRead(asking.kind, phase) /\ ~AddressesRead(asking.kind, phase)
        BY <2>1 DEF AccountsRead, AddressesRead
    <2>3. QED
        BY <1>0, <2>1, <2>2 DEF InfoEntities
<1>3. ASSUME NEW e \in InfoEntities', e \notin InfoEntities PROVE Pending(e)'
    <2>1. \/ e \in XpubsOf(asking) /\ AccountsRead(asking.kind, phase + 1) /\ ~AccountsRead(asking.kind, phase)
          \/ e \in addrs /\ AddressesRead(asking.kind, phase + 1) /\ ~AddressesRead(asking.kind, phase)
        BY <1>0, <1>3 DEF InfoEntities
    <2>2. /\ AccountsRead(asking.kind, phase + 1) /\ ~AccountsRead(asking.kind, phase) =>
               \/ asking.kind = "full" /\ phase' = 5
               \/ asking.kind = "info" /\ phase' = 3
          /\ AddressesRead(asking.kind, phase + 1) /\ ~AddressesRead(asking.kind, phase) =>
               \/ asking.kind = "full" /\ phase' = 5
               \/ asking.kind = "info" /\ phase' = 8
        BY DEF AccountsRead, AddressesRead
    <2>3. todo' = Phases(asking, addrs)[phase']
        BY DEF PhaseBegins
    <2>4. Call("accountInfo", e) \in todo' \/ Call("addressInfo", e) \in todo'
        BY <1>0, <2>1, <2>2, <2>3, ReadsBegin
    <2>5. \A op \in {"accountInfo", "addressInfo"} : Call(op, e).op \in InfoOps /\ Call(op, e).on = e
        BY DEF Call, InfoOps
    <2>6. QED
        BY <2>4, <2>5 DEF Pending
<1>4. ASSUME NEW e \in InfoEntities' , Pending(e)' PROVE e \notin InfoEntities
    BY <1>1, <1>4 DEF Pending
<1>5. QED
    BY <1>2, <1>3, <1>4

-----------------------------------------------------------------------------
(* The other actions                                                          *)

LEMMA Blank ==
    ASSUME WalletInv, phase = 0
    PROVE  /\ todo = {} /\ InfoEntities = {} /\ Counted = {} /\ ~UtxosRead(asking.kind, phase)
           /\ \A u \in Coins : utxos[u] = 0
           /\ Exact => balance = Sum({})
<1>1. todo = {}
    BY DEF WalletInv, RequestOK
<1>2. ~AccountsRead(asking.kind, phase) /\ ~AddressesRead(asking.kind, phase) /\ ~UtxosRead(asking.kind, phase)
    BY DEF AccountsRead, AddressesRead, UtxosRead
<1>3. InfoEntities = {}
    BY <1>2 DEF InfoEntities
<1>4. Counted = {}
    BY <1>3 DEF Counted
<1>5. \A u \in Coins : utxos[u] = 0
    BY <1>2 DEF WalletInv, UtxosOK
<1>6. Exact => balance = Sum({})
    BY <1>4 DEF WalletInv, BalanceOK, Exact
<1>7. QED
    BY <1>1, <1>2, <1>3, <1>4, <1>5, <1>6

LEMMA BeginKeepsAll ==
    ASSUME WalletInv, NEW r \in Asks, Begin(r)
    PROVE  WalletInv'
<1>0. WalletTypeOK /\ RowsOK
    BY DEF WalletInv
<1>1. /\ phase = 0 /\ outcome = "none" /\ asking' = r
      /\ UNCHANGED <<accounts, tracked, coins, happened, balance, utxos, page, txs, nTx,
                     failures, changed, lowered>>
    BY DEF Begin, dbVars, infoVars
<1>2. /\ todo = {} /\ \A u \in Coins : utxos[u] = 0
      /\ Exact => balance = Sum({})
    BY <1>1, Blank
<1>3. r \in Ask /\ AddrsOf(r) \subseteq WalletAddrs /\ FilterAt[r.kind] \in Nat /\ r.kind \in Kinds
      /\ FilterAt[r.kind] \in 1 .. LastPhase[r.kind] - 1 /\ LastPhase[r.kind] \in 2 .. 9
    BY AsksTyped DEF Kinds
<1>4. RowsOK'
    BY <1>0, <1>1 DEF RowsOK
<1>5. ASSUME phase' \in {0, 1}
      PROVE  ~AccountsRead(r.kind, phase') /\ ~AddressesRead(r.kind, phase') /\ ~UtxosRead(r.kind, phase')
    BY <1>5 DEF AccountsRead, AddressesRead, UtxosRead
<1>6. ASSUME phase' \in {0, 1}, outcome' # "error", CallsOK' PROVE UtxosOK' /\ BalanceOK'
    <2>1. UtxosOK'
        BY <1>1, <1>2, <1>5, <1>6 DEF UtxosOK
    <2>2. InfoEntities' = {}
        BY <1>1, <1>5, <1>6 DEF InfoEntities
    <2>3. Counted' = {}
        BY <2>2 DEF Counted
    <2>4. \A d \in todo' : d.op = "addBalance" => d.on \in InfoEntities'
        BY <1>6 DEF CallsOK, CallOK
    <2>5. BalanceOK'
        BY <1>1, <1>2, <2>2, <2>3, <2>4 DEF BalanceOK, Exact
    <2>6. QED
        BY <2>1, <2>5
<1>7. CASE outcome' \in {"ok", "error"} /\ UNCHANGED <<phase, todo, addrs>> /\ (outcome' = "ok" => AllEmpty(r))
    <2>1. WalletTypeOK'
        BY <1>0, <1>1, <1>3, <1>7 DEF WalletTypeOK
    <2>2. RequestOK' /\ CallsOK'
        BY <1>1, <1>2, <1>7 DEF RequestOK, CallsOK
    <2>3. FilterOK'
        <3>1. ~Filtered'
            BY <1>1, <1>3, <1>7 DEF Filtered
        <3>2. QED
            BY <1>1, <1>7, <3>1 DEF FilterOK
    <2>4. UtxosOK' /\ BalanceOK'
        <3>1. UtxosOK'
            BY <1>1, <1>2, <1>5, <1>7 DEF UtxosOK
        <3>2. CASE outcome' = "error"
            BY <3>1, <3>2 DEF BalanceOK
        <3>3. CASE outcome' # "error"
            BY <1>1, <1>6, <1>7, <2>2, <3>3
        <3>4. QED
            BY <3>1, <3>2, <3>3
    <2>5. QED
        BY <1>4, <2>1, <2>2, <2>3, <2>4 DEF WalletInv
<1>8. CASE /\ addrs' = AddrsOf(r) /\ phase' = 1 /\ todo' = Phases(r, addrs')[1]
           /\ UNCHANGED outcome
    <2>1. PhaseBegins
        BY <1>1, <1>3, <1>8 DEF PhaseBegins
    <2>2. CallsOK'
        BY <2>1, CallsBegun
    <2>3. WalletTypeOK'
        BY <1>0, <1>1, <1>3, <1>8 DEF WalletTypeOK
    <2>4. RequestOK'
        BY <1>1, <1>3, <1>8 DEF RequestOK
    <2>5. FilterOK'
        <3>1. ~Filtered'
            <4>1. ASSUME FilterAt[r.kind] = 1 PROVE todo' # {}
                <5>1. todo' = {Call("filter", NoEntity)}
                    BY <1>8, <4>1, FilterIsAlone
                <5>2. QED
                    BY <5>1
            <4>2. QED
                BY <1>1, <1>3, <1>8, <4>1 DEF Filtered
        <3>2. AddrsOf(asking)' = AddrsOf(r)
            BY <1>1
        <3>3. QED
            BY <1>8, <3>1, <3>2 DEF FilterOK
    <2>6. UtxosOK' /\ BalanceOK'
        BY <1>1, <1>6, <1>8, <2>2
    <2>7. QED
        BY <1>4, <2>2, <2>3, <2>4, <2>5, <2>6 DEF WalletInv
<1>9. QED
    <2>1. CASE TooFew(r)
        BY <1>7, <2>1 DEF Begin
    <2>2. CASE ~TooFew(r) /\ AllEmpty(r)
        BY <1>7, <2>2 DEF Begin
    <2>3. CASE ~TooFew(r) /\ ~AllEmpty(r)
        BY <1>8, <2>3 DEF Begin
    <2>4. QED
        BY <2>1, <2>2, <2>3

LEMMA PhaseEnds ==
    ASSUME WalletInv, EndPhase, phase < Len(Phases(asking, addrs))
    PROVE  WalletInv'
<1>0. /\ WalletTypeOK /\ RequestOK /\ RowsOK /\ FilterOK /\ UtxosOK /\ BalanceOK
    BY DEF WalletInv
<1>1. /\ phase > 0 /\ phase \in Nat /\ outcome = "none" /\ todo = {}
      /\ phase' = phase + 1 /\ todo' = Phases(asking, addrs)[phase + 1]
      /\ UNCHANGED <<accounts, tracked, coins, happened, asking, outcome, addrs, balance, utxos,
                     page, txs, nTx, failures, changed, lowered>>
    BY <1>0 DEF EndPhase, dbVars, infoVars, WalletTypeOK
<1>2. asking \in Asks /\ addrs \in SUBSET WalletAddrs /\ addrs \subseteq AddrsOf(asking)
    BY <1>0, <1>1 DEF RequestOK, WalletTypeOK
<1>3. /\ phase < LastPhase[asking.kind] /\ asking.kind \in Kinds
      /\ LastPhase[asking.kind] \in 2 .. 9
      /\ FilterAt[asking.kind] \in 1 .. LastPhase[asking.kind] - 1
    BY <1>2, AsksTyped, PhasesBegin DEF Kinds
<1>4. phase' \in 1 .. LastPhase[asking.kind] /\ phase' \in 0 .. 9
    BY <1>1, <1>3
<1>5. PhaseBegins
    BY <1>1, <1>2, <1>4 DEF PhaseBegins
<1>6. CallsOK'
    BY <1>5, CallsBegun
<1>7. WalletTypeOK' /\ RowsOK'
    BY <1>0, <1>1, <1>4 DEF WalletTypeOK, RowsOK
<1>8. RequestOK'
    BY <1>1, <1>2, <1>4 DEF RequestOK
<1>9. FilterOK'
    <2>1. ASSUME phase' <= FilterAt[asking.kind] PROVE addrs = AddrsOf(asking)
        BY <1>0, <1>1, <1>3, <2>1 DEF FilterOK
    <2>2. ASSUME phase' = FilterAt[asking.kind] PROVE todo' # {}
        <3>1. todo' = {Call("filter", NoEntity)}
            BY <1>1, <1>2, <2>2, FilterIsAlone
        <3>2. QED
            BY <3>1
    <2>3. ASSUME phase' > FilterAt[asking.kind] PROVE Filtered
        BY <1>1, <1>3, <2>3 DEF Filtered
    <2>4. Filtered' => phase' > FilterAt[asking.kind]
        BY <1>1, <2>2 DEF Filtered
    <2>5. Theirs(XpubsOf(asking))' = Theirs(XpubsOf(asking))
        BY <1>1 DEF Theirs, AddressesOf
    <2>6. Filtered' => /\ addrs \cap Theirs(XpubsOf(asking)) = {}
                       /\ AddrsOf(asking) \ addrs \subseteq Theirs(XpubsOf(asking))
        BY <1>0, <2>3, <2>4 DEF FilterOK
    <2>7. AddrsOf(asking)' = AddrsOf(asking)
        BY <1>1
    <2>8. QED
        BY <1>1, <2>1, <2>5, <2>6, <2>7 DEF FilterOK
<1>10. UtxosOK'
    <2>1. ~UtxosRead(asking.kind, phase)
        BY <1>3 DEF UtxosRead, LastPhase, Kinds
    <2>2. \A u \in Coins : utxos[u] = 0
        BY <1>0, <2>1 DEF UtxosOK
    <2>3. ASSUME UtxosRead(asking.kind, phase'), NEW u \in Coins PROVE ~Listed(u)'
        <3>1. /\ Call("addressUtxos", NoEntity) \in todo'
              /\ \A x \in XpubsOf(asking) : Call("accountUtxos", x) \in todo'
            BY <1>1, <1>2, <2>3, ReadsBegin DEF UtxosRead
        <3>2. Call("addressUtxos", NoEntity).op = "addressUtxos"
            BY DEF Call
        <3>3. QED
            BY <1>1, <3>1, <3>2 DEF Listed
    <2>4. QED
        BY <1>1, <2>2, <2>3 DEF UtxosOK
<1>11. BalanceOK'
    <2> SUFFICES ASSUME Exact' PROVE Adds' /\ \A d \in todo' : HasRead(d)'
        BY DEF BalanceOK, Exact, Adds, HasRead
    <2>1. Exact /\ Adds
        BY <1>0, <1>1 DEF BalanceOK, Exact, Adds
    <2>2. /\ InfoEntities \subseteq InfoEntities'
          /\ \A e \in InfoEntities' : Pending(e)' <=> e \notin InfoEntities
        BY <1>1, <1>5, NewEntities
    <2>3. \A e : ~Pending(e)
        BY <1>1 DEF Pending
    <2>4. \A e : CoinsOfEntity(e)' = CoinsOfEntity(e)
        BY <1>1 DEF CoinsOfEntity, UnspentOf, AddressesOf, Spent
    <2>5. Counted' = Counted
        BY <2>2, <2>3, <2>4 DEF Counted
    <2>6. Adds'
        BY <1>1, <2>1, <2>5 DEF Adds
    <2>7. \A d \in todo' : d.op # "addBalance"
        BY <1>5, BegunNow DEF BeginsOK
    <2>8. QED
        BY <2>6, <2>7 DEF HasRead
<1>12. QED
    BY <1>6, <1>7, <1>8, <1>9, <1>10, <1>11 DEF WalletInv

\* The last phase is over: the answer is sent.
LEMMA AnswerSent ==
    ASSUME WalletInv, EndPhase, ~(phase < Len(Phases(asking, addrs)))
    PROVE  WalletInv'
<1>0. /\ WalletTypeOK /\ RequestOK /\ RowsOK /\ CallsOK /\ FilterOK /\ UtxosOK /\ BalanceOK
    BY DEF WalletInv
<1>1. /\ phase > 0 /\ phase \in Nat /\ outcome = "none" /\ todo = {} /\ outcome' = "ok"
      /\ UNCHANGED <<accounts, tracked, coins, happened, asking, phase, todo, addrs, balance,
                     utxos, page, txs, nTx, failures, changed, lowered>>
    BY <1>0 DEF EndPhase, dbVars, infoVars, WalletTypeOK
<1>2. asking \in Asks /\ addrs \in SUBSET WalletAddrs /\ phase <= LastPhase[asking.kind]
    BY <1>0, <1>1 DEF RequestOK, WalletTypeOK
<1>3. phase = LastPhase[asking.kind]
    BY <1>1, <1>2, AsksTyped, PhasesBegin
<1>4. WalletTypeOK' /\ RowsOK' /\ CallsOK'
    BY <1>0, <1>1 DEF WalletTypeOK, RowsOK, CallsOK
<1>5. RequestOK'
    BY <1>0, <1>1, <1>3 DEF RequestOK
<1>6. FilterOK'
    <2>1. Filtered' => Filtered
        BY <1>1 DEF Filtered
    <2>2. Theirs(XpubsOf(asking))' = Theirs(XpubsOf(asking)) /\ AddrsOf(asking)' = AddrsOf(asking)
        BY <1>1 DEF Theirs, AddressesOf
    <2>3. QED
        BY <1>0, <1>1, <2>1, <2>2 DEF FilterOK
<1>7. UtxosOK'
    <2>1. ASSUME NEW u PROVE (Listed(u)' <=> Listed(u)) /\ (Spent(u)' <=> Spent(u))
        BY <1>1 DEF Listed, AddressesOf, Spent
    <2>2. QED
        BY <1>0, <1>1, <2>1 DEF UtxosOK
<1>8. BalanceOK'
    <2>1. InfoEntities' = InfoEntities
        BY <1>1 DEF InfoEntities
    <2>2. \A e : (Pending(e)' <=> Pending(e)) /\ CoinsOfEntity(e)' = CoinsOfEntity(e)
        BY <1>1 DEF Pending, CoinsOfEntity, UnspentOf, AddressesOf, Spent
    <2>3. Counted' = Counted
        BY <2>1, <2>2 DEF Counted
    <2>4. QED
        BY <1>0, <1>1, <2>3 DEF BalanceOK
<1>9. QED
    BY <1>4, <1>5, <1>6, <1>7, <1>8 DEF WalletInv

\* While nothing is being read, there are no entities yet and nothing is listed.
LEMMA NotReading ==
    ASSUME WalletInv, ~Reading
    PROVE  InfoEntities = {} /\ ~UtxosRead(asking.kind, phase)
<1>1. CASE phase = 0
    BY <1>1, Blank
<1>2. CASE phase # 0
    <2>1. phase \in 1 .. 9 /\ asking \in Asks /\ asking.kind \in Kinds
        BY <1>2, KindTyped DEF WalletInv, WalletTypeOK, RequestOK
    <2>2. \A i \in 1 .. phase : \A c \in Phases(asking, addrs)[i] : c.op \notin Reads
        BY DEF Reading
    <2>3. /\ Call("addressUtxos", NoEntity).op \in Reads /\ Call("page", NoEntity).op \in Reads
          /\ \A e : Call("accountInfo", e).op \in Reads /\ Call("addressInfo", e).op \in Reads
        BY DEF Call, Reads
    <2>4. ~(asking.kind = "full" /\ phase = 5)
        BY <2>1, <2>2, <2>3, ReadsBegin
    <2>5. ~(asking.kind = "utxos" /\ phase = 7)
        BY <2>1, <2>2, <2>3, ReadsBegin
    <2>6. ASSUME asking.kind = "info", phase >= 3 PROVE XpubsOf(asking) = {}
        <3>1. 3 \in 1 .. phase
            BY <2>1, <2>6
        <3>2. QED
            BY <2>1, <2>2, <2>3, <2>6, <3>1, ReadsBegin
    <2>7. ASSUME asking.kind = "info", phase >= 8 PROVE addrs = {}
        <3>1. 8 \in 1 .. phase
            BY <2>1, <2>7
        <3>2. QED
            BY <2>1, <2>2, <2>3, <2>7, <3>1, ReadsBegin
    <2>8. InfoEntities = {}
        BY <2>4, <2>6, <2>7 DEF InfoEntities, AccountsRead, AddressesRead
    <2>9. QED
        BY <2>4, <2>5, <2>8 DEF UtxosRead
<1>3. QED
    BY <1>1, <1>2

LEMMA StoreKeepsAll ==
    ASSUME WalletInv, StoreTransaction
    PROVE  WalletInv'
<1>0. /\ WalletTypeOK /\ RequestOK /\ RowsOK /\ CallsOK /\ FilterOK /\ UtxosOK /\ BalanceOK
    BY DEF WalletInv
<1>1. /\ UNCHANGED <<accounts, tracked, asking, phase, todo, outcome, addrs, balance, utxos, page,
                     txs, nTx, failures, lowered>>
      /\ happened < MaxWalletTx /\ happened' = happened + 1
      /\ coins' = coins \cup {c \in Coins : CoinTx[c] = happened' /\ CoinAddr[c] \in tracked}
      /\ changed' = (changed \/ Reading)
    BY DEF StoreTransaction, infoVars
<1>2. WalletTypeOK'
    <2>1. happened' \in 0 .. MaxWalletTx
        <3>1. MaxWalletTx \in Int /\ happened \in 0 .. MaxWalletTx
            BY <1>0, WalletAssumption DEF WalletTypeOK
        <3>2. QED
            BY <1>1, <3>1
    <2>2. changed' \in BOOLEAN
        BY <1>1
    <2>3. coins' \subseteq Coins /\ \A c \in coins' : CoinAddr[c] \in tracked'
        BY <1>0, <1>1 DEF WalletTypeOK
    <2>4. QED
        BY <1>0, <1>1, <2>1, <2>2, <2>3 DEF WalletTypeOK
<1>3. RowsOK' /\ RequestOK' /\ CallsOK'
    <2>1. InfoEntities' = InfoEntities
        BY <1>1 DEF InfoEntities
    <2>2. QED
        BY <1>0, <1>1, <2>1 DEF RowsOK, RequestOK, CallsOK, CallOK
<1>4. FilterOK'
    <2>1. Filtered' => Filtered
        BY <1>1 DEF Filtered
    <2>2. Theirs(XpubsOf(asking))' = Theirs(XpubsOf(asking)) /\ AddrsOf(asking)' = AddrsOf(asking)
        BY <1>1 DEF Theirs, AddressesOf
    <2>3. QED
        BY <1>0, <1>1, <2>1, <2>2 DEF FilterOK
<1>5. ~changed' => ~changed /\ ~Reading
    BY <1>1
<1>6. UtxosOK'
    <2>1. ASSUME NEW u PROVE Listed(u)' <=> Listed(u)
        BY <1>1 DEF Listed, AddressesOf
    <2>2. UtxosRead(asking.kind, phase)' => changed'
        BY <1>1, <1>5, NotReading
    <2>3. QED
        BY <1>0, <1>1, <2>1, <2>2 DEF UtxosOK
<1>7. BalanceOK'
    <2> SUFFICES ASSUME Exact' PROVE Adds' /\ \A d \in todo' : HasRead(d)'
        BY DEF BalanceOK, Exact, Adds, HasRead
    <2>1. Exact /\ ~Reading
        BY <1>1, <1>5 DEF Exact
    <2>2. InfoEntities = {} /\ InfoEntities' = {}
        BY <1>1, <2>1, NotReading DEF InfoEntities
    <2>3. Counted = {} /\ Counted' = {}
        BY <2>2 DEF Counted
    <2>4. balance = Sum(Counted)
        BY <1>0, <2>1 DEF BalanceOK, Exact
    <2>5. Adds'
        BY <1>1, <2>3, <2>4 DEF Adds
    <2>6. \A d \in todo : d.op = "addBalance" => d.on \in InfoEntities
        BY <1>0 DEF CallsOK, CallOK
    <2>7. QED
        BY <1>1, <2>2, <2>5, <2>6 DEF HasRead
<1>8. QED
    BY <1>2, <1>3, <1>4, <1>6, <1>7 DEF WalletInv

LEMMA StutterKeepsAll ==
    ASSUME WalletInv, UNCHANGED walletVars
    PROVE  WalletInv'
<1>0. /\ WalletTypeOK /\ RequestOK /\ RowsOK /\ CallsOK /\ FilterOK /\ UtxosOK /\ BalanceOK
    BY DEF WalletInv
<1>1. UNCHANGED <<accounts, tracked, coins, happened, asking, phase, todo, outcome, addrs, balance,
                  utxos, nTx, failures, changed, lowered>>
    BY DEF walletVars
<1>2. WalletTypeOK' /\ RequestOK' /\ RowsOK' /\ CallsOK'
    <2>1. InfoEntities' = InfoEntities
        BY <1>1 DEF InfoEntities
    <2>2. QED
        BY <1>0, <1>1, <2>1 DEF WalletTypeOK, RequestOK, RowsOK, CallsOK, CallOK
<1>3. FilterOK'
    <2>1. Filtered' => Filtered
        BY <1>1 DEF Filtered
    <2>2. Theirs(XpubsOf(asking))' = Theirs(XpubsOf(asking)) /\ AddrsOf(asking)' = AddrsOf(asking)
        BY <1>1 DEF Theirs, AddressesOf
    <2>3. QED
        BY <1>0, <1>1, <2>1, <2>2 DEF FilterOK
<1>4. UtxosOK'
    <2>1. ASSUME NEW u PROVE (Listed(u)' <=> Listed(u)) /\ (Spent(u)' <=> Spent(u))
        BY <1>1 DEF Listed, AddressesOf, Spent
    <2>2. QED
        BY <1>0, <1>1, <2>1 DEF UtxosOK
<1>5. BalanceOK'
    <2>1. InfoEntities' = InfoEntities
        BY <1>1 DEF InfoEntities
    <2>2. \A e : (Pending(e)' <=> Pending(e)) /\ CoinsOfEntity(e)' = CoinsOfEntity(e)
        BY <1>1 DEF Pending, CoinsOfEntity, UnspentOf, AddressesOf, Spent
    <2>3. Counted' = Counted
        BY <2>1, <2>2 DEF Counted
    <2>4. QED
        BY <1>0, <1>1, <2>2, <2>3 DEF BalanceOK
<1>6. QED
    BY <1>2, <1>3, <1>4, <1>5 DEF WalletInv

LEMMA InitialWallet == WalletInit => WalletInv
<1> SUFFICES ASSUME WalletInit PROVE WalletInv
    OBVIOUS
<1>1. /\ phase = 0 /\ todo = {} /\ outcome = "none" /\ addrs = {} /\ asking = NoAsk /\ balance = 0
      /\ nTx = 0 /\ failures = 0 /\ changed = FALSE /\ lowered = FALSE
      /\ utxos = [c \in Coins |-> 0]
    BY DEF WalletInit
<1>2. WalletTypeOK
    <2>1. accounts \subseteq Accounts /\ tracked \subseteq WalletAddrs /\ coins \subseteq Coins
          /\ (\A c \in coins : CoinAddr[c] \in tracked) /\ happened \in 0 .. MaxWalletTx
        BY WalletAssumption DEF WalletInit
    <2>2. failures \in 0 .. MaxDbFailures
        BY <1>1, WalletAssumption
    <2>3. addrs \subseteq WalletAddrs /\ utxos \in [Coins -> Nat]
        BY <1>1
    <2>4. changed \in BOOLEAN /\ lowered \in BOOLEAN
        BY <1>1, Zenon
    <2>5. QED
        BY <1>1, <2>1, <2>2, <2>3, <2>4 DEF WalletTypeOK
<1>3. RowsOK
    BY WalletAssumption DEF WalletInit, RowsOK
<1>4. RequestOK /\ CallsOK
    BY <1>1 DEF RequestOK, CallsOK
<1>5. FilterOK
    <2>1. FilterAt[asking.kind] = 4
        BY <1>1 DEF FilterAt, NoAsk
    <2>2. ~Filtered
        BY <1>1, <2>1 DEF Filtered
    <2>3. QED
        BY <1>1, <2>2 DEF FilterOK
<1>6. ~AccountsRead(asking.kind, phase) /\ ~AddressesRead(asking.kind, phase) /\ ~UtxosRead(asking.kind, phase)
    BY <1>1 DEF AccountsRead, AddressesRead, UtxosRead
<1>7. UtxosOK
    BY <1>1, <1>6 DEF UtxosOK
<1>8. BalanceOK
    <2>1. Counted = {}
        BY <1>6 DEF Counted, InfoEntities
    <2>2. Sum({}) = 0
        BY SumStep
    <2>3. QED
        BY <1>1, <2>1, <2>2 DEF BalanceOK
<1>9. QED
    BY <1>2, <1>3, <1>4, <1>5, <1>7, <1>8 DEF WalletInv

LEMMA WalletStep == WalletInv /\ [WalletNext]_walletVars => WalletInv'
<1> SUFFICES ASSUME WalletInv, [WalletNext]_walletVars PROVE WalletInv'
    OBVIOUS
<1>1. ASSUME NEW r \in Asks, Begin(r) PROVE WalletInv'
    BY <1>1, BeginKeepsAll
<1>2. CASE EndPhase
    BY <1>2, PhaseEnds, AnswerSent
<1>3. ASSUME NEW c \in todo, CallStep(c) \/ CallFails(c) PROVE WalletInv'
    BY <1>3, CallsKeepAll
<1>4. CASE StoreTransaction
    BY <1>4, StoreKeepsAll
<1>5. CASE UNCHANGED walletVars
    BY <1>5, StutterKeepsAll
<1>6. QED
    BY <1>1, <1>2, <1>3, <1>4, <1>5 DEF WalletNext

LEMMA WalletIsInvariant == WalletSpec => []WalletInv
<1>1. QED
    BY InitialWallet, WalletStep, PTL DEF WalletSpec

-----------------------------------------------------------------------------
(* The theorems                                                               *)

\* The variables of a request keep their types, whichever calls of a phase end first,
\* fail or see what the tracker stores meanwhile (lib/wallet/wallet-service.js): in
\* particular the final balance is never negative, and an output is stored for addresses
\* with a row only.
THEOREM WalletTypes == WalletSpec => []WalletTypeOK
<1>1. WalletInv => WalletTypeOK
    BY DEF WalletInv
<1>2. QED
    BY <1>1, WalletIsInvariant, PTL

\* An answer that is sent covers the entities asked for.
LEMMA AnswerCovers ==
    ASSUME WalletInv, outcome = "ok", ~AllEmpty(asking)
    PROVE  /\ asking.kind \in Kinds /\ phase = LastPhase[asking.kind] /\ todo = {} /\ Filtered
           /\ \A u \in coins : CoinAddr[u] \in Reach(AddrsOf(asking), XpubsOf(asking))
                                 <=> CoinAddr[u] \in addrs \cup Theirs(XpubsOf(asking))
<1>0. WalletTypeOK /\ RequestOK /\ FilterOK
    BY DEF WalletInv
<1>1. phase \in 0 .. 9 /\ asking.kind \in Kinds
    BY <1>0, KindTyped DEF WalletTypeOK
<1>2. phase > 0
    BY <1>0, <1>1 DEF RequestOK
<1>3. /\ phase = LastPhase[asking.kind] /\ todo = {} /\ addrs \subseteq AddrsOf(asking)
    BY <1>0, <1>2 DEF RequestOK
<1>4. Filtered
    BY <1>1, <1>3 DEF Filtered, FilterAt, LastPhase, Kinds
<1>5. AddrsOf(asking) \ addrs \subseteq Theirs(XpubsOf(asking))
    BY <1>0, <1>4 DEF FilterOK
<1>6. \A u \in coins : CoinAddr[u] \in tracked
    BY <1>0 DEF WalletTypeOK
<1>7. Reach(AddrsOf(asking), XpubsOf(asking)) = (AddrsOf(asking) \cap tracked) \cup Theirs(XpubsOf(asking))
    BY DEF Reach, Theirs
<1>8. QED
    BY <1>1, <1>3, <1>4, <1>5, <1>6, <1>7

LEMMA AskedIs ==
    ASSUME WalletInv, outcome = "ok", ~AllEmpty(asking), NEW u
    PROVE  u \in AskedCoins <=> u \in coins /\ ~Spent(u)
                                 /\ CoinAddr[u] \in addrs \cup Theirs(XpubsOf(asking))
BY AnswerCovers DEF AskedCoins, UnspentOf

\* No answer lists an unspent output twice, and when nothing is stored between the first
\* read and the answer, the concurrent reads of accounts and addresses add up: the unspent
\* outputs of a wallet are those of the entities asked for and the final balance is their
\* sum, unless the information of an account could not be read (loadUtxos,
\* loadHdAccountsInfo and loadAddressesInfo in lib/wallet/wallet-info.js, behind the
\* filter of getXpubByAddresses).
THEOREM WalletAdds == WalletSpec => []WalletAddsUp
<1>1. WalletInv => WalletAddsUp
    <2> SUFFICES ASSUME WalletInv PROVE WalletAddsUp
        OBVIOUS
    <2>0. UtxosOK /\ BalanceOK /\ WalletTypeOK /\ FilterOK
        BY DEF WalletInv
    <2>1. \A c \in Coins : utxos[c] <= 1
        BY <2>0 DEF UtxosOK
    <2>2. ASSUME outcome = "ok", ~changed, ~AllEmpty(asking), asking.kind \in {"full", "utxos"}
          PROVE  {c \in Coins : utxos[c] = 1} = AskedCoins
        <3>1. phase = LastPhase[asking.kind] /\ todo = {}
            BY <2>2, AnswerCovers
        <3>2. UtxosRead(asking.kind, phase)
            BY <2>2, <3>1 DEF UtxosRead, LastPhase
        <3>3. \A c \in Coins : (utxos[c] = 1) <=> (c \in coins /\ ~Spent(c) /\ Listed(c))
            BY <2>0, <2>2, <3>2 DEF UtxosOK
        <3>4. \A c : Listed(c) <=> CoinAddr[c] \in addrs \cup Theirs(XpubsOf(asking))
            BY <3>1 DEF Listed, Theirs
        <3>5. \A c : c \in AskedCoins <=> c \in coins /\ ~Spent(c)
                        /\ CoinAddr[c] \in addrs \cup Theirs(XpubsOf(asking))
            BY <2>2, AskedIs
        <3>6. coins \subseteq Coins
            BY <2>0 DEF WalletTypeOK
        <3>7. QED
            BY <3>3, <3>4, <3>5, <3>6
    <2>3. ASSUME outcome = "ok", ~changed, ~AllEmpty(asking), asking.kind \in {"full", "info"}, ~lowered
          PROVE  balance = Sum(AskedCoins)
        <3>1. phase = LastPhase[asking.kind] /\ todo = {}
            BY <2>3, AnswerCovers
        <3>2. AccountsRead(asking.kind, phase) /\ AddressesRead(asking.kind, phase)
            BY <2>3, <3>1 DEF AccountsRead, AddressesRead, LastPhase
        <3>3. InfoEntities = XpubsOf(asking) \cup addrs
            BY <3>2 DEF InfoEntities
        <3>4. Counted = UNION {CoinsOfEntity(e) : e \in XpubsOf(asking) \cup addrs}
            BY <3>1, <3>3 DEF Counted, Pending
        <3>5. XpubsOf(asking) \subseteq Accounts /\ addrs \cap Accounts = {}
            BY <2>0, KindTyped, WalletAssumption DEF WalletTypeOK
        <3>6. ASSUME NEW c
              PROVE  c \in Counted <=> c \in coins /\ ~Spent(c)
                                        /\ CoinAddr[c] \in addrs \cup Theirs(XpubsOf(asking))
            <4>1. \A x \in XpubsOf(asking) : CoinsOfEntity(x) = UnspentOf(AddressesOf(x))
                BY <3>5 DEF CoinsOfEntity
            <4>2. \A a \in addrs : CoinsOfEntity(a) = UnspentOf({a})
                BY <3>5 DEF CoinsOfEntity
            <4>3. \A as : c \in UnspentOf(as) <=> c \in coins /\ ~Spent(c) /\ CoinAddr[c] \in as
                BY DEF UnspentOf
            <4>4. ASSUME c \in Counted
                  PROVE  /\ c \in coins /\ ~Spent(c)
                         /\ CoinAddr[c] \in addrs \cup Theirs(XpubsOf(asking))
                <5>1. PICK e \in XpubsOf(asking) \cup addrs : c \in CoinsOfEntity(e)
                    BY <3>4, <4>4
                <5>2. CASE e \in addrs
                    BY <4>2, <4>3, <5>1, <5>2
                <5>3. CASE e \in XpubsOf(asking)
                    BY <4>1, <4>3, <5>1, <5>3 DEF Theirs
                <5>4. QED
                    BY <5>1, <5>2, <5>3
            <4>5. ASSUME c \in coins, ~Spent(c), CoinAddr[c] \in addrs \cup Theirs(XpubsOf(asking))
                  PROVE  c \in Counted
                <5>1. CASE CoinAddr[c] \in addrs
                    <6>1. c \in CoinsOfEntity(CoinAddr[c])
                        BY <4>2, <4>3, <4>5, <5>1
                    <6>2. QED
                        BY <3>4, <5>1, <6>1
                <5>2. CASE CoinAddr[c] \in Theirs(XpubsOf(asking))
                    <6>1. PICK x \in XpubsOf(asking) : CoinAddr[c] \in AddressesOf(x)
                        BY <5>2 DEF Theirs
                    <6>2. c \in CoinsOfEntity(x)
                        BY <4>1, <4>3, <4>5, <6>1
                    <6>3. QED
                        BY <3>4, <6>1, <6>2
                <5>3. QED
                    BY <4>5, <5>1, <5>2
            <4>6. QED
                BY <4>4, <4>5
        <3>7. \A c : c \in AskedCoins <=> c \in coins /\ ~Spent(c)
                        /\ CoinAddr[c] \in addrs \cup Theirs(XpubsOf(asking))
            BY <2>3, AskedIs
        <3>8. Counted = AskedCoins
            BY <3>6, <3>7
        <3>9. QED
            BY <2>0, <2>3, <3>8 DEF BalanceOK
    <2>4. QED
        BY <2>1, <2>2, <2>3 DEF WalletAddsUp
<1>2. QED
    BY <1>1, WalletIsInvariant, PTL
=============================================================================
