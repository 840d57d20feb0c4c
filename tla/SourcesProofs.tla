----------------------------- MODULE SourcesProofs -----------------------------
(***************************************************************************)
(* Proofs about Sources, for any addresses, lists, histories, threshold,   *)
(* sizes of pages, batches and pools, arrivals and failures: whatever the  *)
(* source, an answer is whole, and the strict mode finds in it what it     *)
(* asked about.                                                            *)
(***************************************************************************)
EXTENDS Sources, FiniteSetTheorems, SequenceTheorems, WellFoundedInduction, TLAPS

-----------------------------------------------------------------------------
(* Induction on naturals, for sets *)

LEMMA NatSet ==
    ASSUME NEW S \in SUBSET Nat, 0 \in S, \A n \in S : n + 1 \in S
    PROVE  S = Nat
<1>1. SUFFICES ASSUME Nat \ S # {} PROVE FALSE
    OBVIOUS
<1>2. IsWellFoundedOn(OpToRel(<, Nat), Nat)
    BY NatLessThanWellFounded
<1>3. PICK x \in Nat \ S : \A y \in Nat \ S : ~(<<y, x>> \in OpToRel(<, Nat))
    BY <1>1, <1>2, WFMin
<1>4. \A y \in Nat \ S : ~(y < x)
    BY <1>3 DEF OpToRel
<1>5. x \in Nat /\ x \notin S
    BY <1>3
<1>6. x # 0
    BY <1>5
<1>7. x - 1 \in Nat /\ x - 1 < x /\ (x - 1) + 1 = x
    BY <1>5, <1>6
<1>8. x - 1 \in S
    BY <1>4, <1>7
<1>9. QED
    BY <1>5, <1>7, <1>8

-----------------------------------------------------------------------------
(* Sequences and their elements *)

LEMMA AppendElements ==
    ASSUME NEW S, NEW t \in Seq(S), NEW e \in S
    PROVE  Append(t, e) \in Seq(S) /\ Elements(Append(t, e)) = Elements(t) \cup {e}
<1>1. /\ Append(t, e) \in Seq(S) /\ Len(Append(t, e)) = Len(t) + 1
      /\ \A i \in 1 .. Len(t) : Append(t, e)[i] = t[i]
      /\ Append(t, e)[Len(t) + 1] = e
    BY AppendProperties
<1>2. DOMAIN t = 1 .. Len(t) /\ DOMAIN Append(t, e) = 1 .. Len(t) + 1 /\ Len(t) \in Nat
    BY <1>1
<1> DEFINE u == Append(t, e)
<1> HIDE DEF u
<1>3. \A x \in Elements(u) : x \in Elements(t) \cup {e}
    <2>1. TAKE x \in Elements(u)
    <2>2. PICK i \in DOMAIN u : x = u[i]
        BY <2>1 DEF Elements
    <2>3. i \in 1 .. Len(t) \/ i = Len(t) + 1
        BY <1>2, <2>2 DEF u
    <2>4. QED
        BY <1>1, <1>2, <2>2, <2>3 DEF u, Elements
<1>4. \A x \in Elements(t) : x \in Elements(u)
    <2>1. TAKE x \in Elements(t)
    <2>2. PICK i \in DOMAIN t : x = t[i]
        BY <2>1 DEF Elements
    <2>3. i \in DOMAIN u /\ u[i] = x
        BY <1>1, <1>2, <2>2 DEF u
    <2>4. QED
        BY <2>3 DEF Elements
<1>5. e \in Elements(u)
    <2>1. Len(t) + 1 \in DOMAIN u /\ u[Len(t) + 1] = e
        BY <1>1, <1>2 DEF u
    <2>2. QED
        BY <2>1 DEF Elements
<1>6. Elements(u) = Elements(t) \cup {e}
    BY <1>3, <1>4, <1>5
<1>7. QED
    BY <1>1, <1>6 DEF u

LEMMA ElementsIn ==
    ASSUME NEW S, NEW t \in Seq(S)
    PROVE  Elements(t) \subseteq S
BY DEF Elements

LEMMA NoElements == Elements(<<>>) = {}
BY DEF Elements

LEMMA SomeElement ==
    ASSUME NEW S, NEW t \in Seq(S), Elements(t) # {}
    PROVE  t # <<>> /\ Len(t) \in Nat /\ Len(t) > 0
BY DEF Elements

LEMMA FirstPlace ==
    ASSUME NEW S, NEW s \in Seq(S), NEW a \in Elements(s)
    PROVE  \E i \in DOMAIN s : s[i] = a /\ \A j \in 1 .. i - 1 : s[j] # s[i]
<1> DEFINE T == {i \in Nat : i \in DOMAIN s /\ s[i] = a}
<1>1. DOMAIN s = 1 .. Len(s) /\ Len(s) \in Nat
    OBVIOUS
<1>2. T # {} /\ T \in SUBSET Nat
    BY <1>1 DEF Elements
<1>3. IsWellFoundedOn(OpToRel(<, Nat), Nat)
    BY NatLessThanWellFounded
<1> HIDE DEF T
<1>4. PICK i \in T : \A j \in T : ~(<<j, i>> \in OpToRel(<, Nat))
    BY <1>2, <1>3, WFMin
<1>5. \A j \in T : ~(j < i)
    BY <1>2, <1>4 DEF OpToRel
<1>6. i \in Nat /\ i \in DOMAIN s /\ s[i] = a
    BY <1>4 DEF T
<1>7. ASSUME NEW j \in 1 .. i - 1, s[j] = s[i] PROVE FALSE
    <2>1. j \in Nat /\ j < i /\ j \in DOMAIN s
        BY <1>1, <1>6, <1>7
    <2>2. j \in T
        BY <1>6, <1>7, <2>1 DEF T
    <2>3. QED
        BY <1>5, <2>1, <2>2
<1>8. QED
    BY <1>6, <1>7

LEMMA FirstElement ==
    ASSUME NEW S, NEW t \in Seq(S), t # <<>>
    PROVE  t[1] \in Elements(t) /\ Len(t) \in Nat /\ Len(t) > 0
<1>1. Len(t) \in Nat /\ Len(t) > 0 /\ 1 \in DOMAIN t
    OBVIOUS
<1>2. QED
    BY <1>1 DEF Elements

-----------------------------------------------------------------------------
(* Only: the elements at some positions *)

Grown(t, s, i, positions) == IF i \in positions THEN Append(t, s[i]) ELSE t

IsPicking(f, s, positions) ==
    f = [i \in 0 .. Len(s) |-> IF i = 0 THEN <<>> ELSE Grown(f[i - 1], s, i, positions)]

Picking(s, positions) == CHOOSE f : IsPicking(f, s, positions)

LEMMA PickingExists ==
    ASSUME NEW s, Len(s) \in Nat, NEW positions
    PROVE  IsPicking(Picking(s, positions), s, positions)
<1> DEFINE Row(f, i) == IF i = 0 THEN <<>> ELSE Grown(f[i - 1], s, i, positions)
           Upto(f, n) == f = [i \in 0 .. n |-> Row(f, i)]
           S == {n \in Nat : \E f : Upto(f, n)}
<1>1. 0 \in S
    <2> DEFINE f == [i \in 0 .. 0 |-> <<>>]
    <2>1. Upto(f, 0)
        OBVIOUS
    <2>2. QED
        BY <2>1
<1>2. ASSUME NEW n \in Nat, NEW f, Upto(f, n) PROVE \E g : Upto(g, n + 1)
    <2> DEFINE g == [i \in 0 .. n + 1 |-> IF i = n + 1 THEN Grown(f[n], s, n + 1, positions) ELSE f[i]]
    <2>1. \A i \in 0 .. n : f[i] = Row(f, i)
        BY <1>2
    <2>2. ASSUME NEW i \in 0 .. n + 1 PROVE g[i] = Row(g, i)
        <3>1. CASE i = n + 1
            BY <3>1
        <3>2. CASE i = 0
            BY <2>1, <3>2
        <3>3. CASE i # 0 /\ i # n + 1
            <4>1. i \in 0 .. n /\ i - 1 \in 0 .. n /\ i - 1 \in 0 .. n + 1 /\ i - 1 # n + 1
                BY <3>3
            <4>2. g[i] = f[i] /\ g[i - 1] = f[i - 1]
                BY <3>3, <4>1
            <4> HIDE DEF g
            <4>3. QED
                BY <2>1, <3>3, <4>1, <4>2
        <3>4. QED
            BY <3>1, <3>2, <3>3
    <2>3. g = [i \in 0 .. n + 1 |-> g[i]]
        OBVIOUS
    <2> HIDE DEF g
    <2>4. g = [i \in 0 .. n + 1 |-> Row(g, i)]
        BY <2>2, <2>3
    <2>5. QED
        BY <2>4
<1>3. S = Nat
    <2> HIDE DEF Upto
    <2>1. \A n \in S : n + 1 \in S
        BY <1>2
    <2>2. QED
        BY <1>1, <2>1, NatSet
<1>4. PICK f : Upto(f, Len(s))
    BY <1>3
<1>5. IsPicking(f, s, positions)
    BY <1>4 DEF IsPicking
<1>6. QED
    BY <1>5 DEF Picking

LEMMA PickingIs ==
    ASSUME NEW s, Len(s) \in Nat, NEW positions
    PROVE  LET f == Picking(s, positions)
           IN  /\ f[0] = <<>>
               /\ \A i \in 1 .. Len(s) : f[i] = Grown(f[i - 1], s, i, positions)
               /\ Only(s, positions) = f[Len(s)]
<1> DEFINE f == Picking(s, positions)
<1>1. IsPicking(f, s, positions)
    BY PickingExists
<1>2. Only(s, positions) = f[Len(s)]
    BY DEF Only, Picking, IsPicking, Grown
<1> HIDE DEF f
<1>3. /\ f[0] = <<>>
      /\ \A i \in 1 .. Len(s) : f[i] = Grown(f[i - 1], s, i, positions)
    BY <1>1 DEF IsPicking
<1>4. QED
    BY <1>2, <1>3 DEF f

\* The elements at the positions, and no other, are picked.
LEMMA OnlyElements ==
    ASSUME NEW S, NEW s \in Seq(S), NEW positions
    PROVE  /\ Only(s, positions) \in Seq(S)
           /\ Elements(Only(s, positions)) = {s[i] : i \in positions \cap DOMAIN s}
<1> DEFINE f == Picking(s, positions)
           Of(n) == {s[i] : i \in positions \cap (1 .. n)}
           P == {n \in Nat : n <= Len(s) => f[n] \in Seq(S) /\ Elements(f[n]) = Of(n)}
<1>1. Len(s) \in Nat /\ DOMAIN s = 1 .. Len(s) /\ \A i \in 1 .. Len(s) : s[i] \in S
    OBVIOUS
<1>2. /\ f[0] = <<>>
      /\ \A i \in 1 .. Len(s) : f[i] = Grown(f[i - 1], s, i, positions)
      /\ Only(s, positions) = f[Len(s)]
    BY <1>1, PickingIs
<1> HIDE DEF f
<1>3. 0 \in P
    <2>1. f[0] \in Seq(S) /\ Elements(f[0]) = {}
        BY <1>2, NoElements
    <2>2. Of(0) = {}
        OBVIOUS
    <2>3. QED
        BY <2>1, <2>2
<1>4. ASSUME NEW n \in P, n + 1 <= Len(s)
      PROVE  f[n + 1] \in Seq(S) /\ Elements(f[n + 1]) = Of(n + 1)
    <2>1. n \in Nat /\ n + 1 \in 1 .. Len(s) /\ (n + 1) - 1 = n /\ n <= Len(s)
        BY <1>1, <1>4
    <2>2. f[n] \in Seq(S) /\ Elements(f[n]) = Of(n)
        BY <2>1, <1>4
    <2>3. s[n + 1] \in S
        BY <1>1, <2>1
    <2>4. \A i : i \in 1 .. n + 1 <=> i \in 1 .. n \/ i = n + 1
        BY <2>1
    <2>5. CASE n + 1 \in positions
        <3>1. f[n + 1] = Append(f[n], s[n + 1])
            BY <1>2, <2>1, <2>5 DEF Grown
        <3>2. f[n + 1] \in Seq(S) /\ Elements(f[n + 1]) = Elements(f[n]) \cup {s[n + 1]}
            BY <2>2, <2>3, <3>1, AppendElements
        <3>3. Of(n + 1) = Of(n) \cup {s[n + 1]}
            BY <2>4, <2>5
        <3>4. QED
            BY <2>2, <3>2, <3>3
    <2>6. CASE n + 1 \notin positions
        <3>1. f[n + 1] = f[n]
            BY <1>2, <2>1, <2>6 DEF Grown
        <3>2. Of(n + 1) = Of(n)
            BY <2>4, <2>6
        <3>3. QED
            BY <2>2, <3>1, <3>2
    <2>7. QED
        BY <2>5, <2>6
<1>5. P = Nat
    <2> HIDE DEF Of
    <2>1. \A n \in P : n + 1 \in P
        BY <1>4
    <2>2. QED
        BY <1>3, <2>1, NatSet
<1>6. Len(s) \in P
    BY <1>1, <1>5
<1>7. f[Len(s)] \in Seq(S) /\ Elements(f[Len(s)]) = Of(Len(s))
    BY <1>1, <1>6
<1>8. QED
    BY <1>1, <1>2, <1>7

\* A sequence without its i-th element
LEMMA WithoutElements ==
    ASSUME NEW S, NEW s \in Seq(S), NEW i \in 1 .. Len(s)
    PROVE  LET u == SubSeq(s, 1, i - 1) \o SubSeq(s, i + 1, Len(s))
           IN  /\ u \in Seq(S) /\ Elements(u) \subseteq Elements(s)
               /\ \A x \in Elements(s) : x = s[i] \/ x \in Elements(u)
<1> DEFINE m == SubSeq(s, 1, i - 1)
           n == SubSeq(s, i + 1, Len(s))
           u == m \o n
<1>1. /\ Len(s) \in Nat /\ DOMAIN s = 1 .. Len(s) /\ \A j \in 1 .. Len(s) : s[j] \in S
      /\ i \in Nat /\ 1 <= i /\ i <= Len(s)
    OBVIOUS
<1>2. /\ m \in Seq(S) /\ Len(m) = i - 1
      /\ \A j \in 1 .. i - 1 : m[j] = s[j]
    <2>1. \A j \in 1 .. i - 1 : s[j] \in S
        BY <1>1
    <2>2. /\ m \in Seq(S) /\ Len(m) = IF 1 <= i - 1 THEN (i - 1) - 1 + 1 ELSE 0
          /\ \A j \in 1 .. (i - 1) - 1 + 1 : m[j] = s[1 + j - 1]
        BY <1>1, <2>1, SubSeqProperties
    <2> HIDE DEF m
    <2>3. QED
        BY <1>1, <2>2
<1>3. /\ n \in Seq(S) /\ Len(n) = Len(s) - i
      /\ \A j \in 1 .. Len(s) - i : n[j] = s[i + j]
    <2>1. \A j \in i + 1 .. Len(s) : s[j] \in S
        BY <1>1
    <2>2. /\ n \in Seq(S) /\ Len(n) = IF i + 1 <= Len(s) THEN Len(s) - (i + 1) + 1 ELSE 0
          /\ \A j \in 1 .. Len(s) - (i + 1) + 1 : n[j] = s[(i + 1) + j - 1]
        BY <1>1, <2>1, SubSeqProperties
    <2> HIDE DEF n
    <2>3. Len(n) = Len(s) - i
        <3> DEFINE l == Len(s)
                   k == Len(n)
        <3>1. l \in Nat /\ i \in Nat /\ i <= l
            BY <1>1
        <3>2. k = IF i + 1 <= l THEN l - (i + 1) + 1 ELSE 0
            BY <2>2
        <3> HIDE DEF k, l
        <3>3. k = l - i
            BY <3>1, <3>2
        <3>4. QED
            BY <3>3 DEF k, l
    <2>4. \A j \in 1 .. Len(s) - i : n[j] = s[i + j]
        <3>1. TAKE j \in 1 .. Len(s) - i
        <3>2. j \in 1 .. Len(s) - (i + 1) + 1 /\ (i + 1) + j - 1 = i + j
            BY <1>1, <3>1
        <3>3. QED
            BY <2>2, <3>2
    <2>5. QED
        BY <2>2, <2>3, <2>4
<1> HIDE DEF m, n
<1>4. /\ u \in Seq(S) /\ Len(u) = Len(m) + Len(n)
      /\ \A j \in 1 .. Len(m) + Len(n) : u[j] = IF j <= Len(m) THEN m[j] ELSE n[j - Len(m)]
    BY <1>2, <1>3, ConcatProperties
<1> HIDE DEF u
<1>5. /\ DOMAIN u = 1 .. Len(s) - 1
      /\ \A j \in 1 .. i - 1 : u[j] = s[j]
      /\ \A j \in i .. Len(s) - 1 : u[j] = s[j + 1]
    <2>1. Len(m) + Len(n) = Len(s) - 1
        BY <1>1, <1>2, <1>3
    <2>2. DOMAIN u = 1 .. Len(s) - 1
        BY <1>4, <2>1
    <2>3. \A j \in 1 .. i - 1 : u[j] = s[j]
        <3>1. TAKE j \in 1 .. i - 1
        <3>2. j \in 1 .. Len(m) + Len(n) /\ j <= Len(m)
            BY <1>1, <1>2, <2>1, <3>1
        <3>3. QED
            BY <1>2, <1>4, <3>1, <3>2
    <2>4. \A j \in i .. Len(s) - 1 : u[j] = s[j + 1]
        <3>1. TAKE j \in i .. Len(s) - 1
        <3>2. j \in 1 .. Len(m) + Len(n) /\ ~(j <= Len(m))
            BY <1>1, <1>2, <2>1, <3>1
        <3>3. j - Len(m) \in 1 .. Len(s) - i /\ i + (j - Len(m)) = j + 1
            BY <1>1, <1>2, <3>1
        <3>4. u[j] = n[j - Len(m)]
            BY <1>4, <3>2
        <3>5. n[j - Len(m)] = s[j + 1]
            BY <1>3, <3>3
        <3>6. QED
            BY <3>4, <3>5
    <2>5. QED
        BY <2>2, <2>3, <2>4
<1>6. \A x \in Elements(u) : x \in Elements(s)
    <2>1. TAKE x \in Elements(u)
    <2>2. PICK j \in DOMAIN u : x = u[j]
        BY <2>1 DEF Elements
    <2>3. \/ j \in 1 .. i - 1 /\ j \in DOMAIN s
          \/ j \in i .. Len(s) - 1 /\ j + 1 \in DOMAIN s
        BY <1>1, <1>5, <2>2
    <2>4. \/ x = s[j] /\ j \in DOMAIN s
          \/ x = s[j + 1] /\ j + 1 \in DOMAIN s
        BY <1>5, <2>2, <2>3
    <2>5. QED
        BY <2>4 DEF Elements
<1>7. \A x \in Elements(s) : x = s[i] \/ x \in Elements(u)
    <2>1. TAKE x \in Elements(s)
    <2>2. PICK j \in DOMAIN s : x = s[j]
        BY <2>1 DEF Elements
    <2>3. \/ j = i
          \/ j \in 1 .. i - 1 /\ j \in DOMAIN u
          \/ j - 1 \in i .. Len(s) - 1 /\ j - 1 \in DOMAIN u /\ (j - 1) + 1 = j
        BY <1>1, <1>5, <2>2
    <2>4. x = s[i] \/ (x = u[j] /\ j \in DOMAIN u) \/ (x = u[j - 1] /\ j - 1 \in DOMAIN u)
        BY <1>5, <2>2, <2>3
    <2>5. QED
        BY <2>4 DEF Elements
<1>8. QED
    BY <1>4, <1>6, <1>7 DEF u, m, n

-----------------------------------------------------------------------------
(* Lists of answers *)

Answers == [address : ScriptAddrs, ntx : Nat, txids : Seq(Nat)]

\* A list that lost only elements with too many transactions, or with none
Thinned(left, infos) ==
    /\ left \in Seq(Answers) /\ Elements(left) \subseteq Elements(infos)
    /\ \A r \in Elements(infos) : r \in Elements(left) \/ TooManyTxs(r.ntx) \/ r.txids = <<>>

LEMMA ThinnedTwice ==
    ASSUME NEW less, NEW left, NEW infos, Thinned(less, left), Thinned(left, infos)
    PROVE  Thinned(less, infos)
BY DEF Thinned

LEMMA ThinnedItself ==
    ASSUME NEW infos \in Seq(Answers)
    PROVE  Thinned(infos, infos)
BY DEF Thinned

LEMMA WithFewTxsThins ==
    ASSUME NEW infos \in Seq(Answers)
    PROVE  /\ Thinned(WithFewTxs(infos), infos)
           /\ \A r \in Elements(WithFewTxs(infos)) : ~TooManyTxs(r.ntx)
<1> DEFINE few == {i \in DOMAIN infos : ~TooManyTxs(infos[i].ntx)}
           left == WithFewTxs(infos)
<1>1. left \in Seq(Answers) /\ Elements(left) = {infos[i] : i \in few \cap DOMAIN infos}
    BY OnlyElements DEF WithFewTxs
<1> HIDE DEF left
<1>2. Elements(left) = {infos[i] : i \in few}
    BY <1>1
<1>3. \A r \in Elements(left) : r \in Elements(infos) /\ ~TooManyTxs(r.ntx)
    BY <1>2 DEF Elements
<1>4. \A r \in Elements(infos) : r \in Elements(left) \/ TooManyTxs(r.ntx)
    <2>1. TAKE r \in Elements(infos)
    <2>2. PICK i \in DOMAIN infos : r = infos[i]
        BY <2>1 DEF Elements
    <2>3. QED
        BY <1>2, <2>2
<1>5. QED
    BY <1>1, <1>3, <1>4 DEF Thinned, left

\* The loop that removes elements while it goes through them
Spliced(left, i) ==
    IF i <= Len(left) /\ TooManyTxs(left[i].ntx)
    THEN SubSeq(left, 1, i - 1) \o SubSeq(left, i + 1, Len(left))
    ELSE left

IsSplicing(f, infos) ==
    f = [i \in 0 .. Len(infos) |-> IF i = 0 THEN infos ELSE Spliced(f[i - 1], i)]

Splicing(infos) == CHOOSE f : IsSplicing(f, infos)

LEMMA SplicingExists ==
    ASSUME NEW infos, Len(infos) \in Nat
    PROVE  IsSplicing(Splicing(infos), infos)
<1> DEFINE Row(f, i) == IF i = 0 THEN infos ELSE Spliced(f[i - 1], i)
           Upto(f, n) == f = [i \in 0 .. n |-> Row(f, i)]
           S == {n \in Nat : \E f : Upto(f, n)}
<1>1. 0 \in S
    <2> DEFINE f == [i \in 0 .. 0 |-> infos]
    <2>1. Upto(f, 0)
        OBVIOUS
    <2>2. QED
        BY <2>1
<1>2. ASSUME NEW n \in Nat, NEW f, Upto(f, n) PROVE \E g : Upto(g, n + 1)
    <2> DEFINE g == [i \in 0 .. n + 1 |-> IF i = n + 1 THEN Spliced(f[n], n + 1) ELSE f[i]]
    <2>1. \A i \in 0 .. n : f[i] = Row(f, i)
        BY <1>2
    <2>2. ASSUME NEW i \in 0 .. n + 1 PROVE g[i] = Row(g, i)
        <3>1. CASE i = n + 1
            BY <3>1
        <3>2. CASE i = 0
            BY <2>1, <3>2
        <3>3. CASE i # 0 /\ i # n + 1
            <4>1. i \in 0 .. n /\ i - 1 \in 0 .. n /\ i - 1 \in 0 .. n + 1 /\ i - 1 # n + 1
                BY <3>3
            <4>2. g[i] = f[i] /\ g[i - 1] = f[i - 1]
                BY <3>3, <4>1
            <4> HIDE DEF g
            <4>3. QED
                BY <2>1, <3>3, <4>1, <4>2
        <3>4. QED
            BY <3>1, <3>2, <3>3
    <2>3. g = [i \in 0 .. n + 1 |-> g[i]]
        OBVIOUS
    <2> HIDE DEF g
    <2>4. g = [i \in 0 .. n + 1 |-> Row(g, i)]
        BY <2>2, <2>3
    <2>5. QED
        BY <2>4
<1>3. S = Nat
    <2> HIDE DEF Upto
    <2>1. \A n \in S : n + 1 \in S
        BY <1>2
    <2>2. QED
        BY <1>1, <2>1, NatSet
<1>4. PICK f : Upto(f, Len(infos))
    BY <1>3
<1>5. IsSplicing(f, infos)
    BY <1>4 DEF IsSplicing
<1>6. QED
    BY <1>5 DEF Splicing

LEMMA SplicingIs ==
    ASSUME NEW infos, Len(infos) \in Nat
    PROVE  LET f == Splicing(infos)
           IN  /\ f[0] = infos
               /\ \A i \in 1 .. Len(infos) : f[i] = Spliced(f[i - 1], i)
               /\ SplicedInfos(infos) = f[Len(infos)]
<1> DEFINE f == Splicing(infos)
<1>1. IsSplicing(f, infos)
    BY SplicingExists
<1>2. SplicedInfos(infos) = f[Len(infos)]
    BY DEF SplicedInfos, Splicing, IsSplicing, Spliced
<1> HIDE DEF f
<1>3. f[0] = infos /\ \A i \in 1 .. Len(infos) : f[i] = Spliced(f[i - 1], i)
    BY <1>1 DEF IsSplicing
<1>4. QED
    BY <1>2, <1>3 DEF f

LEMMA SplicedThins ==
    ASSUME NEW left \in Seq(Answers), NEW i \in Nat \ {0}
    PROVE  Thinned(Spliced(left, i), left)
<1>1. CASE i <= Len(left) /\ TooManyTxs(left[i].ntx)
    <2> DEFINE u == SubSeq(left, 1, i - 1) \o SubSeq(left, i + 1, Len(left))
    <2>1. Len(left) \in Nat /\ i \in 1 .. Len(left)
        BY <1>1
    <2>2. /\ u \in Seq(Answers) /\ Elements(u) \subseteq Elements(left)
          /\ \A r \in Elements(left) : r = left[i] \/ r \in Elements(u)
        BY <2>1, WithoutElements
    <2>3. Spliced(left, i) = u
        BY <1>1 DEF Spliced
    <2> HIDE DEF u
    <2>4. \A r \in Elements(left) : r \in Elements(u) \/ TooManyTxs(r.ntx)
        BY <1>1, <2>2
    <2>5. QED
        BY <2>2, <2>3, <2>4 DEF Thinned
<1>2. CASE ~(i <= Len(left) /\ TooManyTxs(left[i].ntx))
    <2>1. Spliced(left, i) = left
        BY <1>2 DEF Spliced
    <2>2. QED
        BY <2>1, ThinnedItself
<1>3. QED
    BY <1>1, <1>2

LEMMA SplicedInfosThins ==
    ASSUME NEW infos \in Seq(Answers)
    PROVE  Thinned(SplicedInfos(infos), infos)
<1> DEFINE f == Splicing(infos)
           P == {n \in Nat : n <= Len(infos) => Thinned(f[n], infos)}
<1>1. Len(infos) \in Nat
    OBVIOUS
<1>2. /\ f[0] = infos /\ \A i \in 1 .. Len(infos) : f[i] = Spliced(f[i - 1], i)
      /\ SplicedInfos(infos) = f[Len(infos)]
    BY <1>1, SplicingIs
<1> HIDE DEF f
<1>3. 0 \in P
    BY <1>2, ThinnedItself
<1>4. ASSUME NEW n \in P, n + 1 <= Len(infos) PROVE Thinned(f[n + 1], infos)
    <2>1. n \in Nat /\ n + 1 \in 1 .. Len(infos) /\ (n + 1) - 1 = n /\ n <= Len(infos)
        BY <1>1, <1>4
    <2>2. Thinned(f[n], infos)
        BY <2>1, <1>4
    <2>3. f[n] \in Seq(Answers)
        BY <2>2 DEF Thinned
    <2>4. f[n + 1] = Spliced(f[n], n + 1)
        BY <1>2, <2>1
    <2>5. Thinned(f[n + 1], f[n])
        BY <2>1, <2>3, <2>4, SplicedThins
    <2>6. QED
        BY <2>2, <2>5, ThinnedTwice
<1>5. P = Nat
    <2>1. \A n \in P : n + 1 \in P
        BY <1>4
    <2>2. QED
        BY <1>3, <2>1, NatSet
<1>6. Thinned(f[Len(infos)], infos)
    BY <1>1, <1>5
<1>7. QED
    BY <1>2, <1>6

\* The answers about a list of addresses, before those without transactions are left out
AnswersOf(hashes, txs) == [i \in DOMAIN hashes |-> Info(hashes[i], txs[hashes[i]])]

LEMMA InfoIs ==
    ASSUME NEW a \in ScriptAddrs, NEW txids \in Seq(Nat)
    PROVE  /\ Info(a, txids) \in Answers
           /\ Info(a, txids).address = a
           /\ Info(a, txids).ntx = Len(txids)
           /\ Info(a, txids).txids = txids
BY DEF Info, Answers

LEMMA AnswersOfIs ==
    ASSUME NEW hashes \in Seq(ScriptAddrs), NEW txs \in [ScriptAddrs -> Seq(Nat)]
    PROVE  /\ AnswersOf(hashes, txs) \in Seq(Answers)
           /\ Elements(AnswersOf(hashes, txs)) = {Info(a, txs[a]) : a \in Elements(hashes)}
<1> DEFINE infos == AnswersOf(hashes, txs)
<1>1. Len(hashes) \in Nat /\ DOMAIN hashes = 1 .. Len(hashes)
      /\ \A i \in 1 .. Len(hashes) : hashes[i] \in ScriptAddrs
    OBVIOUS
<1>2. \A i \in 1 .. Len(hashes) : Info(hashes[i], txs[hashes[i]]) \in Answers
    BY <1>1, InfoIs
<1>3. infos = [i \in 1 .. Len(hashes) |-> Info(hashes[i], txs[hashes[i]])]
    BY <1>1 DEF AnswersOf
<1>4. infos \in Seq(Answers) /\ DOMAIN infos = DOMAIN hashes
    BY <1>1, <1>2, <1>3
<1>5. \A i \in DOMAIN hashes : infos[i] = Info(hashes[i], txs[hashes[i]])
    BY <1>1, <1>3
<1> HIDE DEF infos
<1>6. Elements(infos) = {Info(a, txs[a]) : a \in Elements(hashes)}
    BY <1>4, <1>5 DEF Elements
<1>7. QED
    BY <1>4, <1>6 DEF infos

LEMMA InfosOfThins ==
    ASSUME NEW hashes \in Seq(ScriptAddrs), NEW omitted \in BOOLEAN,
           NEW txs \in [ScriptAddrs -> Seq(Nat)]
    PROVE  Thinned(InfosOf(hashes, omitted, txs), AnswersOf(hashes, txs))
<1> DEFINE infos == AnswersOf(hashes, txs)
           some == {i \in DOMAIN infos : omitted => infos[i].ntx > 0}
           left == InfosOf(hashes, omitted, txs)
<1>1. infos \in Seq(Answers)
    BY AnswersOfIs
<1>2. left = Only(infos, some)
    BY DEF InfosOf, AnswersOf
<1>3. \A i \in DOMAIN infos : infos[i].ntx = Len(infos[i].txids) /\ infos[i].txids \in Seq(Nat)
    <2>1. TAKE i \in DOMAIN infos
    <2>2. i \in DOMAIN hashes /\ infos[i] = Info(hashes[i], txs[hashes[i]])
        BY <2>1 DEF AnswersOf
    <2>3. hashes[i] \in ScriptAddrs
        BY <2>2
    <2>4. QED
        BY <2>2, <2>3, InfoIs
<1> HIDE DEF infos, left
<1>4. left \in Seq(Answers) /\ Elements(left) = {infos[i] : i \in some \cap DOMAIN infos}
    BY <1>1, <1>2, OnlyElements
<1>5. Elements(left) \subseteq Elements(infos)
    BY <1>4 DEF Elements
<1>6. \A r \in Elements(infos) : r \in Elements(left) \/ r.txids = <<>>
    <2>1. TAKE r \in Elements(infos)
    <2>2. PICK i \in DOMAIN infos : r = infos[i]
        BY <2>1 DEF Elements
    <2>3. CASE i \in some
        BY <1>4, <2>2, <2>3
    <2>4. CASE i \notin some
        <3>1. ~(infos[i].ntx > 0)
            BY <2>2, <2>4
        <3>2. Len(infos[i].txids) = 0
            BY <1>3, <2>2, <3>1
        <3>3. QED
            BY <1>3, <2>2, <3>2
    <2>5. QED
        BY <2>3, <2>4
<1>7. QED
    BY <1>4, <1>5, <1>6 DEF Thinned, infos, left

-----------------------------------------------------------------------------
(* When an answer is whole *)

\* What an element says is right.
Right(r) == r.ntx = Len(r.txids) /\ Elements(r.txids) \subseteq Elements(SeenNow(r.address))

Lasting(a) == Elements(seenAtStart[a]) \cap Elements(SeenNow(a))

\* A list tells of an address what an answer owes.
Tells(r, infos, a) ==
    /\ r \in Elements(infos) /\ r.address = a /\ ~TooManyTxs(r.ntx)
    /\ Lasting(a) \subseteq Elements(r.txids)

IsTooMuch(infos, a) ==
    /\ TooManyTxs(Len(SeenNow(a)))
    /\ \A r \in Elements(infos) : r.address = a => TooManyTxs(r.ntx) \/ r.txids = <<>>

IsNewest(r, infos, a) ==
    /\ source.kind = "oxt"
    /\ r \in Elements(infos) /\ r.address = a /\ ~TooManyTxs(r.ntx)
    /\ Cardinality(Elements(r.txids)) = AddrFilterThreshold + 1
    /\ \A q \in Elements(infos) : q.address = a => q.txids = r.txids

Covered(a, infos) ==
    \/ Lasting(a) = {}
    \/ \E r : Tells(r, infos, a)
    \/ IsTooMuch(infos, a)
    \/ \E r : IsNewest(r, infos, a)

Covers(infos) ==
    /\ infos \in Seq(Answers)
    /\ \A r \in Elements(infos) : Right(r)
    /\ \A a \in Elements(question.addresses) : Covered(a, infos)

FoundIn(infos, a) == UNION {Elements(r.txids) : r \in {s \in Elements(infos) : s.address = a}}

\* AnswersAreWhole of a list
WholeFor(infos, a) ==
    \/ Lasting(a) \subseteq FoundIn(infos, a)
    \/ TooManyTxs(Len(SeenNow(a))) /\ FoundIn(infos, a) = {}
    \/ source.kind = "oxt" /\ Cardinality(FoundIn(infos, a)) = AddrFilterThreshold + 1

Whole(infos) ==
    /\ infos \in Seq(Answers)
    /\ \A a \in Elements(question.addresses) : WholeFor(infos, a)
    /\ \A r \in Elements(infos) : ~TooManyTxs(r.ntx) /\ r.ntx = Len(r.txids)
    /\ \A a \in ScriptAddrs : FoundIn(infos, a) \subseteq Elements(SeenNow(a))

LEMMA FoundInIs ==
    ASSUME NEW infos, NEW a
    PROVE  \A n : n \in FoundIn(infos, a) <=>
                    \E r \in Elements(infos) : r.address = a /\ n \in Elements(r.txids)
BY DEF FoundIn

LEMMA FoundOf ==
    ASSUME NEW infos, NEW r \in Elements(infos)
    PROVE  Elements(r.txids) \subseteq FoundIn(infos, r.address)
BY FoundInIs

\* What was told of an address is found in what is left.
LEMMA ThinnedTells ==
    ASSUME NEW left, NEW infos, Thinned(left, infos), NEW a, NEW r, Tells(r, infos, a)
    PROVE  Lasting(a) \subseteq FoundIn(left, a)
<1>1. /\ r \in Elements(infos) /\ r.address = a /\ ~TooManyTxs(r.ntx)
      /\ Lasting(a) \subseteq Elements(r.txids)
    BY DEF Tells
<1>2. CASE r.txids = <<>>
    BY <1>1, <1>2, NoElements
<1>3. CASE r.txids # <<>>
    <2>1. r \in Elements(left)
        BY <1>1, <1>3 DEF Thinned
    <2>2. Elements(r.txids) \subseteq FoundIn(left, a)
        BY <1>1, <2>1, FoundOf
    <2>3. QED
        BY <1>1, <2>2
<1>4. QED
    BY <1>2, <1>3

LEMMA ThinnedTooMuch ==
    ASSUME NEW left, NEW infos, Thinned(left, infos), NEW a, IsTooMuch(infos, a),
           \A r \in Elements(left) : ~TooManyTxs(r.ntx)
    PROVE  TooManyTxs(Len(SeenNow(a))) /\ FoundIn(left, a) = {}
<1>1. ASSUME NEW n \in FoundIn(left, a) PROVE FALSE
    <2>1. PICK r \in Elements(left) : r.address = a /\ n \in Elements(r.txids)
        BY <1>1, FoundInIs
    <2>2. r \in Elements(infos) /\ ~TooManyTxs(r.ntx)
        BY <2>1 DEF Thinned
    <2>3. r.txids = <<>>
        BY <2>1, <2>2 DEF IsTooMuch
    <2>4. QED
        BY <2>1, <2>3, NoElements
<1>2. QED
    BY <1>1 DEF IsTooMuch

LEMMA ThinnedNewest ==
    ASSUME NEW left, NEW infos, Thinned(left, infos), NEW a, NEW r, IsNewest(r, infos, a)
    PROVE  source.kind = "oxt" /\ Cardinality(FoundIn(left, a)) = AddrFilterThreshold + 1
<1>1. /\ source.kind = "oxt" /\ r \in Elements(infos) /\ r.address = a /\ ~TooManyTxs(r.ntx)
      /\ Cardinality(Elements(r.txids)) = AddrFilterThreshold + 1
      /\ \A q \in Elements(infos) : q.address = a => q.txids = r.txids
    BY DEF IsNewest
<1>2. AddrFilterThreshold + 1 # 0
    BY SourcesAssumption
<1>3. Cardinality({}) = 0
    BY FS_EmptySet
<1>4. r.txids # <<>>
    BY <1>1, <1>2, <1>3, NoElements
<1>5. r \in Elements(left)
    BY <1>1, <1>4 DEF Thinned
<1>6. Elements(r.txids) \subseteq FoundIn(left, a)
    BY <1>1, <1>5, FoundOf
<1>7. ASSUME NEW n \in FoundIn(left, a) PROVE n \in Elements(r.txids)
    <2>1. PICK q \in Elements(left) : q.address = a /\ n \in Elements(q.txids)
        BY <1>7, FoundInIs
    <2>2. q \in Elements(infos)
        BY <2>1 DEF Thinned
    <2>3. q.txids = r.txids
        BY <1>1, <2>1, <2>2
    <2>4. QED
        BY <2>1, <2>3
<1>8. FoundIn(left, a) = Elements(r.txids)
    BY <1>6, <1>7
<1>9. QED
    BY <1>1, <1>8

\* What is left of a list that covers the addresses is whole, if the filter lets it pass.
LEMMA ThinnedIsWhole ==
    ASSUME NEW left, NEW infos, Covers(infos), Thinned(left, infos),
           \A r \in Elements(left) : ~TooManyTxs(r.ntx)
    PROVE  Whole(left)
<1>1. left \in Seq(Answers) /\ Elements(left) \subseteq Elements(infos)
    BY DEF Thinned
<1>2. \A r \in Elements(left) : Right(r)
    BY <1>1 DEF Covers
<1>3. \A a \in Elements(question.addresses) : WholeFor(left, a)
    <2>1. TAKE a \in Elements(question.addresses)
    <2>2. Covered(a, infos)
        BY <2>1 DEF Covers
    <2>3. CASE Lasting(a) = {}
        BY <2>3 DEF WholeFor
    <2>4. CASE \E r : Tells(r, infos, a)
        <3>1. PICK r : Tells(r, infos, a)
            BY <2>4
        <3>2. QED
            BY <3>1, ThinnedTells DEF WholeFor
    <2>5. CASE IsTooMuch(infos, a)
        <3>1. TooManyTxs(Len(SeenNow(a))) /\ FoundIn(left, a) = {}
            BY <2>5, ThinnedTooMuch
        <3>2. QED
            BY <3>1 DEF WholeFor
    <2>6. CASE \E r : IsNewest(r, infos, a)
        <3>1. PICK r : IsNewest(r, infos, a)
            BY <2>6
        <3>2. source.kind = "oxt" /\ Cardinality(FoundIn(left, a)) = AddrFilterThreshold + 1
            BY <3>1, ThinnedNewest
        <3>3. QED
            BY <3>2 DEF WholeFor
    <2>7. QED
        BY <2>2, <2>3, <2>4, <2>5, <2>6 DEF Covered
<1>4. \A r \in Elements(left) : ~TooManyTxs(r.ntx) /\ r.ntx = Len(r.txids)
    BY <1>2 DEF Right
<1>5. \A a \in ScriptAddrs : FoundIn(left, a) \subseteq Elements(SeenNow(a))
    <2>1. TAKE a \in ScriptAddrs
    <2>2. ASSUME NEW n \in FoundIn(left, a) PROVE n \in Elements(SeenNow(a))
        <3>1. PICK r \in Elements(left) : r.address = a /\ n \in Elements(r.txids)
            BY <2>2, FoundInIs
        <3>2. QED
            BY <1>2, <3>1 DEF Right
    <2>3. QED
        BY <2>2
<1>6. QED
    BY <1>1, <1>3, <1>4, <1>5 DEF Whole

-----------------------------------------------------------------------------
(* The inductive invariant *)

ChainOK ==
    /\ histories \in [ScriptAddrs -> Seq(Nat)]
    /\ \A a \in ScriptAddrs : histories[a] = NewestFirst(Len(histories[a]))
    /\ unspents \in [ScriptAddrs -> Seq(Nat)]
    /\ \A a \in ScriptAddrs : Elements(unspents[a]) \subseteq Elements(histories[a])

\* Nothing is left from a call before: a process that is asked is asked once.
IdleOK == progress = "idle" => got = <<>> /\ reading = <<>> /\ vouts = <<>>

\* What the call is about: of each address, the source saw what it still sees, or less.
CalledOK ==
    progress \in {"asking", "answered", "failed"} =>
        /\ question.addresses \in Seq(ScriptAddrs) \ {<<>>}
        /\ question.filterAddr \in BOOLEAN
        /\ source.kind # "bitcoind" =>
             \A a \in ScriptAddrs :
                \E n \in 0 .. Len(histories[a]) : seenAtStart[a] = NewestFirst(n)

\* An element that a wrapper collected has what its address had when the call started, or
\* more; or none, of an address with too many.
Told(r, a) ==
    \E n \in 0 .. Len(histories[a]) :
        /\ r = Info(a, NewestFirst(n))
        /\ Len(seenAtStart[a]) <= n \/ (n = 0 /\ TooManyTxs(Len(histories[a])))

GotFromEsplora ==
    /\ got \in Seq(Answers) /\ Len(got) < Len(question.addresses)
    /\ \A i \in DOMAIN got : Told(got[i], question.addresses[i])

GotFromIndexer ==
    /\ DOMAIN got \subseteq DOMAIN ScriptHashes
    /\ \A i \in DOMAIN got : Told(got[i], ScriptHashes[i])
    /\ source.batch => got \in Seq(Answers)

\* The k newest of the first `top` transactions of an address
Pages(top, k) == [i \in 1 .. k |-> top - i + 1]

\* Pages that were read go on without a gap, from the newest transaction at their time.
ReadOK(txids, a) ==
    \/ txids = <<>>
    \/ \E top \in 1 .. Len(histories[a]) : \E k \in 1 .. top :
         txids = Pages(top, k) /\ Len(seenAtStart[a]) <= top

AskingOK ==
    progress = "asking" =>
        /\ source.kind = "esplora" => GotFromEsplora /\ ReadOK(reading, question.addresses[Len(got) + 1])
        /\ source.kind = "indexer" => GotFromIndexer

ResultOK ==
    /\ returned \in Seq(Answers)
    /\ progress = "failed" => returned = <<>> /\ sourceErrors # 0

Reused(i) == vouts[i] \in usedInDb \/ \E j \in 1 .. i - 1 : vouts[j] = vouts[i]

\* In strict mode, the source is asked about every output that is not at fault yet.
StrictOK ==
    vouts # <<>> /\ progress \in {"asking", "answered", "failed"} =>
        /\ source.kind # "bitcoind" /\ ~question.filterAddr
        /\ faultyOutputs = {i \in DOMAIN vouts : Reused(i)}
        /\ \A i \in DOMAIN vouts \ faultyOutputs : vouts[i] \in Elements(question.addresses)

StatesOK ==
    /\ source \in [kind : {"bitcoind", "indexer", "rest", "oxt", "esplora"}, batch : BOOLEAN]
    /\ progress \in {"idle", "asking", "answered", "failed", "pushed", "refused"}
    /\ sourceErrors \in Nat
    /\ vouts \in Seq(ScriptAddrs) /\ faultyOutputs \subseteq DOMAIN vouts

SourcesIInv ==
    /\ StatesOK /\ ChainOK /\ IdleOK /\ CalledOK /\ AskingOK /\ ResultOK /\ StrictOK
    /\ AnswersAreWhole /\ StrictModeHolds

-----------------------------------------------------------------------------
(* Transactions by number *)

LEMMA PagesIs ==
    ASSUME NEW top \in Nat, NEW k \in 0 .. top
    PROVE  /\ Pages(top, k) \in Seq(Nat) /\ Len(Pages(top, k)) = k
           /\ DOMAIN Pages(top, k) = 1 .. k
           /\ \A i \in 1 .. k : Pages(top, k)[i] = top - i + 1
           /\ Elements(Pages(top, k)) = top - k + 1 .. top
<1> DEFINE p == Pages(top, k)
<1>1. k \in Nat /\ \A i \in 1 .. k : top - i + 1 \in Nat
    OBVIOUS
<1>2. p = [i \in 1 .. k |-> top - i + 1]
    BY DEF Pages
<1>3. p \in Seq(Nat) /\ DOMAIN p = 1 .. k
    BY <1>1, <1>2
<1>4. Len(p) = k
    BY <1>1, <1>3
<1>5. \A i \in 1 .. k : p[i] = top - i + 1
    BY <1>2
<1> HIDE DEF p
<1>6. Elements(p) = {p[i] : i \in 1 .. k}
    BY <1>3 DEF Elements
<1>7. \A i \in 1 .. k : p[i] \in top - k + 1 .. top
    BY <1>1, <1>5
<1>8. \A x \in top - k + 1 .. top : top - x + 1 \in 1 .. k /\ p[top - x + 1] = x
    <2>1. TAKE x \in top - k + 1 .. top
    <2>2. top - x + 1 \in 1 .. k /\ top - (top - x + 1) + 1 = x
        BY <1>1, <2>1
    <2>3. QED
        BY <1>5, <2>2
<1>9. Elements(p) = top - k + 1 .. top
    BY <1>6, <1>7, <1>8
<1>10. QED
    BY <1>3, <1>4, <1>5, <1>9 DEF p

LEMMA NewestFirstIs ==
    ASSUME NEW n \in Nat
    PROVE  /\ NewestFirst(n) = Pages(n, n)
           /\ NewestFirst(n) \in Seq(Nat) /\ Len(NewestFirst(n)) = n
           /\ DOMAIN NewestFirst(n) = 1 .. n
           /\ \A i \in 1 .. n : NewestFirst(n)[i] = n - i + 1
           /\ Elements(NewestFirst(n)) = 1 .. n
<1>1. NewestFirst(n) = Pages(n, n)
    BY DEF NewestFirst, Pages
<1>2. n \in 0 .. n /\ n - n + 1 = 1
    OBVIOUS
<1>3. QED
    BY <1>1, <1>2, PagesIs

LEMMA NewestFirstZero == NewestFirst(0) = <<>>
<1>1. NewestFirst(0) \in Seq(Nat) /\ Len(NewestFirst(0)) = 0
    BY NewestFirstIs
<1>2. QED
    BY <1>1

LEMMA NewestFirstGrows ==
    ASSUME NEW n \in Nat
    PROVE  <<n + 1>> \o NewestFirst(n) = NewestFirst(n + 1)
<1> DEFINE one == <<n + 1>>
           s == NewestFirst(n)
           t == NewestFirst(n + 1)
<1>1. one \in Seq(Nat) /\ Len(one) = 1 /\ one[1] = n + 1
    OBVIOUS
<1>2. s \in Seq(Nat) /\ Len(s) = n /\ \A i \in 1 .. n : s[i] = n - i + 1
    BY NewestFirstIs
<1>3. t \in Seq(Nat) /\ Len(t) = n + 1 /\ \A i \in 1 .. n + 1 : t[i] = (n + 1) - i + 1
    BY NewestFirstIs
<1> HIDE DEF one, s, t
<1> DEFINE u == one \o s
<1>0. one \in Seq(Nat) /\ s \in Seq(Nat)
    BY <1>1, <1>2
<1>4. /\ u \in Seq(Nat) /\ Len(u) = Len(one) + Len(s)
      /\ \A i \in 1 .. Len(one) + Len(s) : u[i] = IF i <= Len(one) THEN one[i] ELSE s[i - Len(one)]
    BY <1>0, ConcatProperties
<1> HIDE DEF u
<1>5. u \in Seq(Nat) /\ Len(u) = n + 1
      /\ \A i \in 1 .. n + 1 : u[i] = IF i <= 1 THEN one[i] ELSE s[i - 1]
    <2>1. Len(one) + Len(s) = n + 1
        BY <1>1, <1>2
    <2>2. QED
        BY <1>1, <1>4, <2>1
<1>6. ASSUME NEW i \in 1 .. n + 1 PROVE u[i] = t[i]
    <2>1. CASE i = 1
        <3>1. t[1] = n + 1
            BY <1>3
        <3>2. QED
            BY <1>1, <1>5, <2>1, <3>1
    <2>2. CASE i # 1
        <3>1. i - 1 \in 1 .. n /\ n - (i - 1) + 1 = (n + 1) - i + 1 /\ ~(i <= 1)
            BY <2>2
        <3>2. QED
            BY <1>2, <1>3, <1>5, <3>1
    <2>3. QED
        BY <2>1, <2>2
<1>7. u = t
    BY <1>3, <1>5, <1>6, SeqEqual
<1>8. QED
    BY <1>7 DEF u, one, s, t

LEMMA OutputsOfIs ==
    ASSUME NEW h \in Seq(Nat), h = NewestFirst(Len(h))
    PROVE  OutputsOf(h) \in Seq(Nat) /\ Elements(OutputsOf(h)) \subseteq Elements(h)
<1>1. Len(h) \in Nat
    OBVIOUS
<1>2. Elements(h) = 1 .. Len(h)
    BY <1>1, NewestFirstIs
<1>3. CASE h = <<>>
    <2>1. OutputsOf(h) = [i \in 1 .. 0 |-> IF i = 1 THEN 1 ELSE i - 1]
        BY <1>3 DEF OutputsOf
    <2>2. OutputsOf(h) \in Seq(Nat) /\ DOMAIN OutputsOf(h) = {}
        BY <2>1
    <2>3. QED
        BY <2>2 DEF Elements
<1>4. CASE h # <<>>
    <2> DEFINE n == Len(h) + 1
               u == [i \in 1 .. n |-> IF i = 1 THEN 1 ELSE i - 1]
    <2>1. OutputsOf(h) = u
        BY <1>4 DEF OutputsOf
    <2>2. n \in Nat /\ Len(h) > 0
        BY <1>1, <1>4
    <2>3. \A i \in 1 .. n : u[i] \in 1 .. Len(h)
        BY <1>1, <2>2
    <2>4. \A i \in 1 .. n : u[i] \in Nat
        BY <2>3
    <2>5. u \in Seq(Nat) /\ DOMAIN u = 1 .. n
        BY <2>2, <2>4
    <2> HIDE DEF u, n
    <2>6. Elements(u) \subseteq 1 .. Len(h)
        BY <2>3, <2>5 DEF Elements
    <2>7. QED
        BY <1>2, <2>1, <2>5, <2>6
<1>5. QED
    BY <1>3, <1>4

LEMMA HistoryIs ==
    ASSUME ChainOK, NEW a \in ScriptAddrs
    PROVE  /\ Len(histories[a]) \in Nat /\ histories[a] \in Seq(Nat)
           /\ histories[a] = NewestFirst(Len(histories[a]))
           /\ Elements(histories[a]) = 1 .. Len(histories[a])
<1>1. Len(histories[a]) \in Nat /\ histories[a] \in Seq(Nat)
      /\ histories[a] = NewestFirst(Len(histories[a]))
    BY DEF ChainOK
<1>2. Elements(histories[a]) = 1 .. Len(histories[a])
    BY <1>1, NewestFirstIs
<1>3. QED
    BY <1>1, <1>2

LEMMA SourcesInitHolds == SourcesInit => SourcesIInv
<1> SUFFICES ASSUME SourcesInit PROVE SourcesIInv
    OBVIOUS
<1>1. histories \in [ScriptAddrs -> Seq(Nat)]
      /\ \A a \in ScriptAddrs : histories[a] = NewestFirst(Len(histories[a]))
    BY SourcesAssumption DEF SourcesInit
<1>2. \A a \in ScriptAddrs : OutputsOf(histories[a]) \in Seq(Nat)
                             /\ Elements(OutputsOf(histories[a])) \subseteq Elements(histories[a])
    BY <1>1, OutputsOfIs
<1>3. unspents = [a \in ScriptAddrs |-> OutputsOf(histories[a])]
    BY DEF SourcesInit
<1>4. ChainOK
    BY <1>1, <1>2, <1>3 DEF ChainOK
<1>5. source \in [kind : {"bitcoind", "indexer", "rest", "oxt", "esplora"}, batch : BOOLEAN]
    <2>0. PICK initSource \in {InitSourceMainnet, InitSourceTestnet} :
               \E active \in DOMAIN initSource, batch \in BOOLEAN :
                   source = [kind |-> initSource[active], batch |-> batch /\ active = "local_indexer"]
        BY DEF SourcesInit
    <2>1. PICK active \in DOMAIN initSource, batch \in BOOLEAN :
               source = [kind |-> initSource[active], batch |-> batch /\ active = "local_indexer"]
        BY <2>0
    <2>2. initSource[active] \in {"bitcoind", "indexer", "rest", "oxt", "esplora"}
        BY <2>0, <2>1 DEF InitSourceMainnet, InitSourceTestnet
    <2>3. (batch /\ active = "local_indexer") \in BOOLEAN
        OBVIOUS
    <2>4. QED
        BY <2>1, <2>2, <2>3
<1>6. /\ got = <<>> /\ reading = <<>> /\ returned = <<>> /\ vouts = <<>> /\ faultyOutputs = {}
      /\ progress = "idle" /\ sourceErrors = 0
    BY DEF SourcesInit
<1>7. StatesOK
    BY <1>5, <1>6 DEF StatesOK
<1>8. IdleOK /\ CalledOK /\ AskingOK /\ ResultOK /\ StrictOK
    BY <1>6 DEF IdleOK, CalledOK, AskingOK, ResultOK, StrictOK
<1>9. AnswersAreWhole /\ StrictModeHolds
    BY <1>6 DEF AnswersAreWhole, StrictModeHolds
<1>10. QED
    BY <1>4, <1>7, <1>8, <1>9 DEF SourcesIInv

-----------------------------------------------------------------------------
(* A transaction arrives *)

LEMMA TooManyIfMore ==
    ASSUME NEW m \in Nat, NEW n \in Nat, m <= n, TooManyTxs(m)
    PROVE  TooManyTxs(n)
<1>1. AddrFilterThreshold \in Nat
    BY SourcesAssumption
<1>2. question.filterAddr /\ m > AddrFilterThreshold
    BY DEF TooManyTxs
<1>3. n > AddrFilterThreshold
    BY <1>1, <1>2
<1>4. QED
    BY <1>2, <1>3 DEF TooManyTxs

\* The place of a list's address in the list of script hashes
LEMMA ScriptHashesIs ==
    ASSUME question.addresses \in Seq(ScriptAddrs)
    PROVE  /\ ScriptHashes \in Seq(ScriptAddrs)
           /\ Elements(ScriptHashes) = Elements(question.addresses)
<1> DEFINE as == question.addresses
           firsts == {i \in DOMAIN as : \A j \in 1 .. i - 1 : as[j] # as[i]}
           hashes == ScriptHashes
<1>1. hashes = Only(as, firsts)
    BY DEF ScriptHashes
<1>2. as \in Seq(ScriptAddrs) /\ Len(as) \in Nat /\ DOMAIN as = 1 .. Len(as)
    OBVIOUS
<1> HIDE DEF as, hashes
<1>3. hashes \in Seq(ScriptAddrs) /\ Elements(hashes) = {as[i] : i \in firsts \cap DOMAIN as}
    BY <1>1, <1>2, OnlyElements
<1>4. ASSUME NEW a \in Elements(as) PROVE \E i \in firsts : as[i] = a
    <2>1. PICK i \in DOMAIN as : as[i] = a /\ \A j \in 1 .. i - 1 : as[j] # as[i]
        BY <1>2, FirstPlace
    <2>2. QED
        BY <2>1
<1>5. Elements(as) = {as[i] : i \in firsts \cap DOMAIN as}
    BY <1>4 DEF Elements
<1>6. QED
    BY <1>3, <1>5 DEF hashes, as

LEMMA ToldLater ==
    ASSUME NEW r, NEW b \in ScriptAddrs, Told(r, b), Len(histories[b]) \in Nat,
           Len(histories'[b]) \in Nat, Len(histories[b]) <= Len(histories'[b]),
           UNCHANGED <<question, seenAtStart>>
    PROVE  Told(r, b)'
<1> DEFINE m == Len(histories[b])
           n == Len(histories'[b])
<1>1. m \in Nat /\ n \in Nat /\ m <= n
    OBVIOUS
<1>2. PICK k \in 0 .. m : /\ r = Info(b, NewestFirst(k))
                          /\ Len(seenAtStart[b]) <= k \/ (k = 0 /\ TooManyTxs(m))
    BY DEF Told
<1> HIDE DEF m, n
<1>3. k \in 0 .. n
    BY <1>1, <1>2
<1>4. TooManyTxs(m) => TooManyTxs(n)
    BY <1>1, TooManyIfMore
<1>5. TooManyTxs(n) => TooManyTxs(Len(histories[b]))'
    BY DEF TooManyTxs, n
<1>6. Len(seenAtStart'[b]) <= k \/ (k = 0 /\ TooManyTxs(Len(histories[b]))')
    BY <1>2, <1>4, <1>5
<1>7. QED
    BY <1>2, <1>3, <1>6 DEF Told, n

ChainGrows ==
    \A b \in ScriptAddrs : /\ Len(histories[b]) \in Nat /\ Len(histories'[b]) \in Nat
                           /\ Len(histories[b]) <= Len(histories'[b])

LEMMA ArriveChain ==
    ASSUME ChainOK, NEW a \in ScriptAddrs, NEW outs \in Seq(Nat),
           Elements(outs) \subseteq 1 .. Len(histories[a]) + 1, Arrive(a, outs)
    PROVE  ChainOK' /\ ChainGrows
<1> DEFINE h == NewestFirst(Len(histories[a]) + 1)
<1>0. PICK n \in Nat : n = Len(histories[a]) /\ histories[a] = NewestFirst(n)
    BY HistoryIs
<1>1. h = NewestFirst(n + 1)
    BY <1>0
<1> HIDE DEF h
<1>4. h \in Seq(Nat) /\ Len(h) = n + 1 /\ Elements(h) = 1 .. n + 1
    <2>1. n + 1 \in Nat
        OBVIOUS
    <2>2. QED
        BY <1>1, <2>1, NewestFirstIs
<1>5. h = NewestFirst(Len(h))
    BY <1>1, <1>4
<1>2. <<n + 1>> \o histories[a] = h
    BY <1>0, <1>1, NewestFirstGrows
<1>3. histories' = [histories EXCEPT ![a] = h]
    BY <1>0, <1>2 DEF Arrive
<1>6. unspents' = [unspents EXCEPT ![a] = outs]
    BY DEF Arrive
<1>7. /\ histories \in [ScriptAddrs -> Seq(Nat)] /\ unspents \in [ScriptAddrs -> Seq(Nat)]
      /\ \A b \in ScriptAddrs : histories[b] = NewestFirst(Len(histories[b]))
      /\ \A b \in ScriptAddrs : Elements(unspents[b]) \subseteq Elements(histories[b])
    BY DEF ChainOK
<1>8. Elements(outs) \subseteq 1 .. n + 1
    BY <1>0
<1>9. /\ histories' \in [ScriptAddrs -> Seq(Nat)] /\ histories'[a] = h
      /\ \A b \in ScriptAddrs \ {a} : histories'[b] = histories[b]
    BY <1>3, <1>4, <1>7
<1>10. /\ unspents' \in [ScriptAddrs -> Seq(Nat)] /\ unspents'[a] = outs
       /\ \A b \in ScriptAddrs \ {a} : unspents'[b] = unspents[b]
    BY <1>6, <1>7
<1>11. \A b \in ScriptAddrs : histories'[b] = NewestFirst(Len(histories'[b]))
    BY <1>5, <1>7, <1>9
<1>12. \A b \in ScriptAddrs : Elements(unspents'[b]) \subseteq Elements(histories'[b])
    BY <1>4, <1>7, <1>8, <1>9, <1>10
<1>13. ChainOK'
    BY <1>9, <1>10, <1>11, <1>12 DEF ChainOK
<1>14. ChainGrows
    <2> USE DEF ChainGrows
    <2>1. TAKE b \in ScriptAddrs
    <2>2. Len(histories[b]) \in Nat
        BY HistoryIs
    <2>3. CASE b = a
        <3>1. Len(histories[b]) = n /\ Len(histories'[b]) = n + 1
            BY <1>0, <1>4, <1>9, <2>3
        <3>2. QED
            BY <3>1
    <2>4. CASE b # a
        BY <1>9, <2>2, <2>4
    <2>5. QED
        BY <2>3, <2>4
<1>15. QED
    BY <1>13, <1>14

\* What was collected, and the pages that were read, are still what they should be.
LEMMA GotLater ==
    ASSUME SourcesIInv, ChainGrows, progress = "asking",
           UNCHANGED <<source, question, seenAtStart, got, reading>>
    PROVE  AskingOK'
<1>1. question.addresses \in Seq(ScriptAddrs) \ {<<>>}
    BY DEF SourcesIInv, CalledOK
<1>2. ASSUME source.kind = "esplora"
      PROVE  GotFromEsplora' /\ ReadOK(reading, question.addresses[Len(got) + 1])'
    <2>1. /\ got \in Seq(Answers) /\ Len(got) < Len(question.addresses)
          /\ \A i \in DOMAIN got : Told(got[i], question.addresses[i])
        BY <1>2 DEF SourcesIInv, AskingOK, GotFromEsplora
    <2>2. \A i \in DOMAIN got : Told(got[i], question.addresses[i])'
        <3>1. TAKE i \in DOMAIN got
        <3>2. PICK r, b : r = got[i] /\ b = question.addresses[i]
            OBVIOUS
        <3>3. Told(r, b)
            BY <2>1, <3>2
        <3>4. b \in ScriptAddrs
            BY <1>1, <2>1, <3>2
        <3>5. Told(r, b)'
            BY <3>3, <3>4, ToldLater DEF ChainGrows
        <3>6. r = got'[i] /\ b = question'.addresses[i]
            BY <3>2
        <3>7. QED
            BY <3>5, <3>6 DEF Told, TooManyTxs
    <2>3. GotFromEsplora'
        BY <2>1, <2>2 DEF GotFromEsplora
    <2>4. ReadOK(reading, question.addresses[Len(got) + 1])'
        <3>1. PICK b : b = question.addresses[Len(got) + 1]
            OBVIOUS
        <3>2. b \in ScriptAddrs
            BY <1>1, <2>1, <3>1
        <3>3. ReadOK(reading, b)
            BY <1>2, <3>1 DEF SourcesIInv, AskingOK
        <3>4. CASE reading = <<>>
            BY <3>4 DEF ReadOK
        <3>5. CASE reading # <<>>
            <4>1. PICK top \in 1 .. Len(histories[b]) : \E k \in 1 .. top :
                       reading = Pages(top, k) /\ Len(seenAtStart[b]) <= top
                BY <3>3, <3>5 DEF ReadOK
            <4>2. top \in 1 .. Len(histories'[b])
                BY <3>2, <4>1 DEF ChainGrows
            <4>3. b = question'.addresses[Len(got') + 1] /\ reading' = reading
                  /\ seenAtStart' = seenAtStart
                BY <3>1
            <4>4. QED
                BY <4>1, <4>2, <4>3 DEF ReadOK
        <3>6. QED
            BY <3>4, <3>5
    <2>5. QED
        BY <2>3, <2>4
<1>3. ASSUME source.kind = "indexer" PROVE GotFromIndexer'
    <2>1. /\ DOMAIN got \subseteq DOMAIN ScriptHashes
          /\ \A i \in DOMAIN got : Told(got[i], ScriptHashes[i])
          /\ source.batch => got \in Seq(Answers)
        BY <1>3 DEF SourcesIInv, AskingOK, GotFromIndexer
    <2>2. ScriptHashes' = ScriptHashes
        BY DEF ScriptHashes
    <2>3. ScriptHashes \in Seq(ScriptAddrs)
        BY <1>1, ScriptHashesIs
    <2>4. \A i \in DOMAIN got : Told(got[i], ScriptHashes[i])'
        <3>1. TAKE i \in DOMAIN got
        <3>2. PICK r, b : r = got[i] /\ b = ScriptHashes[i]
            OBVIOUS
        <3>3. Told(r, b)
            BY <2>1, <3>2
        <3>4. b \in ScriptAddrs
            BY <2>1, <2>3, <3>2
        <3>5. Told(r, b)'
            BY <3>3, <3>4, ToldLater DEF ChainGrows
        <3>6. r = got'[i] /\ b = ScriptHashes'[i]
            BY <2>2, <3>2
        <3>7. QED
            BY <3>5, <3>6 DEF Told, TooManyTxs
    <2>5. QED
        BY <2>1, <2>2, <2>4 DEF GotFromIndexer
<1>4. progress = "asking" /\ source' = source
    OBVIOUS
<1>5. QED
    BY <1>2, <1>3, <1>4 DEF AskingOK

LEMMA CalledLater ==
    ASSUME CalledOK, ChainGrows, progress = "asking", UNCHANGED <<source, question, seenAtStart>>
    PROVE  CalledOK'
<1>1. /\ question.addresses \in Seq(ScriptAddrs) \ {<<>>}
      /\ question.filterAddr \in BOOLEAN
      /\ source.kind # "bitcoind" =>
           \A a \in ScriptAddrs : \E n \in 0 .. Len(histories[a]) : seenAtStart[a] = NewestFirst(n)
    BY DEF CalledOK
<1>2. ASSUME source.kind # "bitcoind", NEW a \in ScriptAddrs
      PROVE  \E n \in 0 .. Len(histories'[a]) : seenAtStart'[a] = NewestFirst(n)
    <2>1. PICK n \in 0 .. Len(histories[a]) : seenAtStart[a] = NewestFirst(n)
        BY <1>1, <1>2
    <2>2. n \in 0 .. Len(histories'[a])
        BY <1>2, <2>1 DEF ChainGrows
    <2>3. QED
        BY <2>1, <2>2
<1>3. QED
    BY <1>1, <1>2 DEF CalledOK

LEMMA ArriveHolds ==
    ASSUME SourcesIInv, NEW a \in ScriptAddrs, NEW outs \in Seq(Nat),
           Elements(outs) \subseteq 1 .. Len(histories[a]) + 1, Arrive(a, outs)
    PROVE  SourcesIInv'
<1>1. /\ progress = "asking" /\ progress' = progress
      /\ UNCHANGED <<source, question, seenAtStart, got, reading>>
    BY DEF Arrive, callVars
<1>2. UNCHANGED <<returned, sourceErrors, vouts, usedInDb, faultyOutputs>>
    BY DEF Arrive, callVars, strictVars
<1>3. StatesOK /\ ChainOK /\ CalledOK /\ ResultOK /\ StrictOK
    BY DEF SourcesIInv
<1>4. ChainOK' /\ ChainGrows
    BY <1>3, ArriveChain
<1>5. CalledOK'
    BY <1>1, <1>3, <1>4, CalledLater
<1>6. AskingOK'
    BY <1>1, <1>4, GotLater
<1>7. StatesOK' /\ ResultOK'
    BY <1>1, <1>2, <1>3 DEF StatesOK, ResultOK
<1>8. IdleOK' /\ AnswersAreWhole' /\ StrictModeHolds'
    BY <1>1 DEF IdleOK, AnswersAreWhole, StrictModeHolds
<1>9. StrictOK'
    BY <1>1, <1>2, <1>3 DEF StrictOK, Reused
<1>10. QED
    BY <1>4, <1>5, <1>6, <1>7, <1>8, <1>9 DEF SourcesIInv

LEMMA ReceiveHolds ==
    ASSUME SourcesIInv, NEW a \in ScriptAddrs, Receive(a)
    PROVE  SourcesIInv'
<1>1. ChainOK
    BY DEF SourcesIInv
<1>2. PICK n \in Nat : n = Len(histories[a]) /\ Elements(histories[a]) = 1 .. n
    BY <1>1, HistoryIs
<1>3. unspents[a] \in Seq(Nat) /\ Elements(unspents[a]) \subseteq 1 .. n
    BY <1>1, <1>2 DEF ChainOK
<1>4. n + 1 \in Nat
    OBVIOUS
<1>5. PICK outs : outs = Append(unspents[a], n + 1)
    OBVIOUS
<1>6. outs \in Seq(Nat) /\ Elements(outs) = Elements(unspents[a]) \cup {n + 1}
    BY <1>3, <1>4, <1>5, AppendElements
<1>7. Elements(outs) \subseteq 1 .. n + 1
    BY <1>3, <1>6
<1>8. Arrive(a, outs)
    BY <1>2, <1>5 DEF Receive
<1>9. Elements(outs) \subseteq 1 .. Len(histories[a]) + 1
    BY <1>2, <1>7
<1>10. QED
    BY <1>6, <1>8, <1>9, ArriveHolds

LEMMA SpendHolds ==
    ASSUME SourcesIInv, NEW a \in ScriptAddrs, Spend(a)
    PROVE  SourcesIInv'
<1>1. ChainOK
    BY DEF SourcesIInv
<1>2. PICK n \in Nat : n = Len(histories[a]) /\ Elements(histories[a]) = 1 .. n
    BY <1>1, HistoryIs
<1>3. PICK s : s = unspents[a]
    OBVIOUS
<1>4. s \in Seq(Nat) /\ Elements(s) \subseteq 1 .. n /\ s # <<>>
    BY <1>1, <1>2, <1>3 DEF ChainOK, Spend
<1>5. /\ Tail(s) \in Seq(Nat) /\ Len(Tail(s)) = Len(s) - 1
      /\ \A i \in 1 .. Len(Tail(s)) : Tail(s)[i] = s[i + 1]
    BY <1>4, HeadTailProperties
<1>6. PICK outs : outs = Tail(s)
    OBVIOUS
<1>7. \A i \in DOMAIN outs : outs[i] = s[i + 1] /\ i + 1 \in DOMAIN s
    BY <1>4, <1>5, <1>6
<1>8. Elements(outs) \subseteq Elements(s)
    BY <1>7 DEF Elements
<1>9. Elements(outs) \subseteq 1 .. n + 1
    <2>1. 1 .. n \subseteq 1 .. n + 1
        OBVIOUS
    <2>2. QED
        BY <1>4, <1>8, <2>1
<1>10. Arrive(a, outs) /\ outs \in Seq(Nat)
    BY <1>3, <1>5, <1>6 DEF Spend
<1>11. Elements(outs) \subseteq 1 .. Len(histories[a]) + 1
    BY <1>2, <1>9
<1>12. QED
    BY <1>10, <1>11, ArriveHolds

-----------------------------------------------------------------------------
(* A call begins *)

LEMMA AskHolds ==
    ASSUME SourcesIInv, progress = "idle", NEW as \in Seq(ScriptAddrs) \ {<<>>},
           NEW filter \in BOOLEAN, AskSource(as, filter),
           UNCHANGED <<source, chainVars, got, reading, returned, sourceErrors>>
    PROVE  /\ ChainOK' /\ IdleOK' /\ CalledOK' /\ AskingOK' /\ ResultOK'
           /\ AnswersAreWhole' /\ StrictModeHolds'
<1>1. /\ question' = [addresses |-> as, filterAddr |-> filter]
      /\ seenAtStart' = [a \in ScriptAddrs |-> SeenNow(a)] /\ progress' = "asking"
    BY DEF AskSource
<1>2. UNCHANGED <<histories, unspents, source, got, reading, returned, sourceErrors>>
    BY DEF chainVars
<1>3. ChainOK /\ ResultOK /\ got = <<>> /\ reading = <<>>
    BY DEF SourcesIInv, IdleOK
<1>4. ChainOK' /\ ResultOK'
    BY <1>1, <1>2, <1>3 DEF ChainOK, ResultOK
<1>5. ASSUME source'.kind # "bitcoind", NEW a \in ScriptAddrs
      PROVE  \E n \in 0 .. Len(histories'[a]) : seenAtStart'[a] = NewestFirst(n)
    <2>1. seenAtStart'[a] = histories[a]
        BY <1>1, <1>2, <1>5 DEF SeenNow, SeenFrom
    <2>2. Len(histories[a]) \in Nat /\ histories[a] = NewestFirst(Len(histories[a]))
        BY <1>3, HistoryIs
    <2>3. Len(histories[a]) \in 0 .. Len(histories'[a])
        BY <1>2, <2>2
    <2>4. QED
        BY <2>1, <2>2, <2>3
<1>6. question'.addresses = as /\ question'.filterAddr = filter
    BY <1>1
<1>7. CalledOK'
    BY <1>5, <1>6 DEF CalledOK
<1>8. got' = <<>> /\ reading' = <<>>
    BY <1>2, <1>3
<1>9. Len(as) \in Nat /\ Len(as) > 0
    <2>1. as \in Seq(ScriptAddrs) /\ as # <<>>
        OBVIOUS
    <2>2. QED
        BY <2>1, FirstElement
<1>10. GotFromEsplora'
    <2>1. <<>> \in Seq(Answers) /\ Len(<<>>) = 0 /\ DOMAIN <<>> = {}
        OBVIOUS
    <2>2. QED
        BY <1>6, <1>8, <1>9, <2>1 DEF GotFromEsplora
<1>11. GotFromIndexer'
    <2>1. <<>> \in Seq(Answers) /\ DOMAIN <<>> = {}
        OBVIOUS
    <2>2. QED
        BY <1>8, <2>1 DEF GotFromIndexer
<1>12. ReadOK(reading, question.addresses[Len(got) + 1])'
    BY <1>8 DEF ReadOK
<1>13. AskingOK'
    BY <1>10, <1>11, <1>12 DEF AskingOK
<1>14. IdleOK' /\ AnswersAreWhole' /\ StrictModeHolds'
    BY <1>1 DEF IdleOK, AnswersAreWhole, StrictModeHolds
<1>15. QED
    BY <1>4, <1>7, <1>13, <1>14

LEMMA GetAddressesHolds ==
    ASSUME SourcesIInv, NEW as \in AddressLists, NEW filter \in BOOLEAN, GetAddresses(as, filter)
    PROVE  SourcesIInv'
<1>1. as \in Seq(ScriptAddrs) \ {<<>>}
    BY SourcesAssumption
<1>2. /\ progress = "idle" /\ AskSource(as, filter)
      /\ UNCHANGED <<source, chainVars, strictVars, got, reading, returned, sourceErrors>>
    BY DEF GetAddresses
<1>3. UNCHANGED <<source, chainVars, got, reading, returned, sourceErrors>>
    BY <1>2
<1>4. /\ ChainOK' /\ IdleOK' /\ CalledOK' /\ AskingOK' /\ ResultOK'
      /\ AnswersAreWhole' /\ StrictModeHolds'
    BY <1>1, <1>2, <1>3, AskHolds
<1>5. progress' = "asking" /\ UNCHANGED <<source, sourceErrors, vouts, faultyOutputs>>
    BY <1>2 DEF AskSource, strictVars
<1>6. StatesOK /\ vouts = <<>>
    BY <1>2 DEF SourcesIInv, IdleOK
<1>7. StatesOK'
    BY <1>5, <1>6 DEF StatesOK
<1>8. StrictOK'
    BY <1>5, <1>6 DEF StrictOK
<1>9. QED
    BY <1>4, <1>7, <1>8 DEF SourcesIInv

LEMMA SourceFailsHolds ==
    ASSUME SourcesIInv, SourceFails
    PROVE  SourcesIInv'
<1>1. /\ progress = "asking" /\ progress' = "failed" /\ returned' = <<>>
      /\ sourceErrors' = sourceErrors + 1
      /\ UNCHANGED <<source, question, seenAtStart, got, reading>>
    BY DEF SourceFails
<1>2. UNCHANGED <<histories, unspents, vouts, usedInDb, faultyOutputs>>
    BY DEF SourceFails, chainVars, strictVars
<1>3. StatesOK /\ ChainOK /\ CalledOK /\ StrictOK
    BY DEF SourcesIInv
<1>4. sourceErrors \in Nat
    BY <1>3 DEF StatesOK
<1>5. StatesOK'
    BY <1>1, <1>2, <1>3, <1>4 DEF StatesOK
<1>6. ChainOK'
    BY <1>2, <1>3 DEF ChainOK
<1>7. CalledOK'
    BY <1>1, <1>2, <1>3 DEF CalledOK
<1>8. ResultOK'
    <2>1. <<>> \in Seq(Answers) /\ sourceErrors + 1 # 0
        BY <1>4
    <2>2. QED
        BY <1>1, <2>1 DEF ResultOK
<1>9. StrictOK'
    BY <1>1, <1>2, <1>3 DEF StrictOK, Reused
<1>10. IdleOK' /\ AskingOK' /\ AnswersAreWhole' /\ StrictModeHolds'
    BY <1>1 DEF IdleOK, AskingOK, AnswersAreWhole, StrictModeHolds
<1>11. QED
    BY <1>5, <1>6, <1>7, <1>8, <1>9, <1>10 DEF SourcesIInv

-----------------------------------------------------------------------------
(* The strict mode *)

LEMMA EnforceStrictModeHolds ==
    ASSUME SourcesIInv, NEW outs \in AddressLists, NEW used, EnforceStrictModeVouts(outs, used)
    PROVE  SourcesIInv'
<1> DEFINE faulty == {i \in DOMAIN outs : outs[i] \in used \/ \E j \in 1 .. i - 1 : outs[j] = outs[i]}
           addrMap == Only(outs, DOMAIN outs \ faulty)
<1>1. /\ progress = "idle" /\ vouts' = outs /\ usedInDb' = used /\ faultyOutputs' = faulty
      /\ UNCHANGED <<source, chainVars, got, reading, returned, sourceErrors>>
    BY DEF EnforceStrictModeVouts
<1>2. IF addrMap # <<>> /\ source.kind # "bitcoind"
      THEN AskSource(addrMap, FALSE)
      ELSE /\ progress' = IF faulty = {} THEN "pushed" ELSE "refused"
           /\ UNCHANGED <<question, seenAtStart>>
    BY DEF EnforceStrictModeVouts
<1>3. outs \in Seq(ScriptAddrs) \ {<<>>}
    BY SourcesAssumption
<1>4. /\ addrMap \in Seq(ScriptAddrs)
      /\ Elements(addrMap) = {outs[i] : i \in (DOMAIN outs \ faulty) \cap DOMAIN outs}
    BY <1>3, OnlyElements
<1>5. \A i \in DOMAIN outs \ faulty : outs[i] \in Elements(addrMap)
    BY <1>4
<1>6. \A i \in DOMAIN outs : i \in faulty <=> Reused(i)'
    BY <1>1 DEF Reused
<1> HIDE DEF addrMap
<1>7. faulty \subseteq DOMAIN outs
    OBVIOUS
<1> HIDE DEF faulty
<1>8. StatesOK /\ ChainOK /\ ResultOK
    BY DEF SourcesIInv
<1>9. UNCHANGED <<histories, unspents, source, returned, sourceErrors>>
    BY <1>1 DEF chainVars
<1>10. CASE addrMap # <<>> /\ source.kind # "bitcoind"
    <2>1. AskSource(addrMap, FALSE) /\ progress' = "asking" /\ question'.filterAddr = FALSE
          /\ question'.addresses = addrMap
        BY <1>2, <1>10 DEF AskSource
    <2>2. addrMap \in Seq(ScriptAddrs) \ {<<>>} /\ FALSE \in BOOLEAN
        BY <1>4, <1>10
    <2>3. /\ ChainOK' /\ IdleOK' /\ CalledOK' /\ AskingOK' /\ ResultOK'
          /\ AnswersAreWhole' /\ StrictModeHolds'
        BY <1>1, <2>1, <2>2, AskHolds
    <2>4. StatesOK'
        BY <1>1, <1>3, <1>7, <1>8, <1>9, <2>1 DEF StatesOK
    <2>5. faultyOutputs' = {i \in DOMAIN outs : Reused(i)'}
        BY <1>1, <1>6, <1>7
    <2>6. StrictOK'
        BY <1>1, <1>5, <1>9, <1>10, <2>1, <2>5 DEF StrictOK
    <2>7. QED
        BY <2>3, <2>4, <2>6 DEF SourcesIInv
<1>11. CASE ~(addrMap # <<>> /\ source.kind # "bitcoind")
    <2>1. progress' = IF faulty = {} THEN "pushed" ELSE "refused"
        BY <1>2, <1>11
    <2>2. progress' \in {"pushed", "refused"}
        BY <2>1
    <2>3. StatesOK'
        BY <1>1, <1>3, <1>7, <1>8, <1>9, <2>2 DEF StatesOK
    <2>4. ChainOK'
        BY <1>8, <1>9 DEF ChainOK
    <2>5. ResultOK'
        BY <1>8, <1>9, <2>2 DEF ResultOK
    <2>6. IdleOK' /\ CalledOK' /\ AskingOK' /\ StrictOK' /\ AnswersAreWhole'
        BY <2>2 DEF IdleOK, CalledOK, AskingOK, StrictOK, AnswersAreWhole
    <2>7. ASSUME progress' = "pushed", NEW i \in DOMAIN outs
          PROVE  ~Reused(i)' /\ source.kind = "bitcoind"
        <3>1. faulty = {}
            BY <2>1, <2>7
        <3>2. outs[i] \in Elements(addrMap)
            BY <1>5, <2>7, <3>1
        <3>3. addrMap # <<>>
            BY <3>2, NoElements
        <3>4. QED
            BY <1>6, <1>11, <2>7, <3>1, <3>3
    <2>8. \A i \in faulty : Reused(i)'
        BY <1>6, <1>7
    <2>9. StrictModeHolds'
        BY <1>1, <1>9, <2>7, <2>8 DEF StrictModeHolds, Reused
    <2>10. QED
        BY <2>3, <2>4, <2>5, <2>6, <2>9 DEF SourcesIInv
<1>12. QED
    BY <1>10, <1>11

\* What the answer says of an address is found by the loop over its elements.
LEMMA FoundIs ==
    ASSUME NEW a
    PROVE  \A n : n \in Found(a) <=>
                    \E r \in Elements(returned) : r.address = a /\ n \in Elements(r.txids)
BY DEF Found

LEMMA NothingFoundIfNew ==
    ASSUME SourcesIInv, NEW r \in Elements(returned), r.ntx > 0, progress \in {"answered", "failed"}
    PROVE  SeenNow(r.address) # <<>>
<1>1. returned \in Seq(Answers) /\ (progress = "failed" => returned = <<>>) /\ AnswersAreWhole
    BY DEF SourcesIInv, ResultOK
<1>2. progress = "answered"
    BY <1>1, NoElements
<1>3. r \in Answers
    BY <1>1, ElementsIn
<1>4. r.address \in ScriptAddrs /\ r.txids \in Seq(Nat)
    BY <1>3 DEF Answers
<1>5. r.ntx = Len(r.txids)
    BY <1>1, <1>2 DEF AnswersAreWhole
<1>6. r.txids # <<>>
    BY <1>5
<1>7. r.txids[1] \in Elements(r.txids)
    BY <1>4, <1>6, FirstElement
<1>8. r.txids[1] \in Found(r.address)
    BY <1>7, FoundIs
<1>9. r.txids[1] \in Elements(SeenNow(r.address))
    BY <1>1, <1>2, <1>4, <1>8 DEF AnswersAreWhole
<1>10. QED
    BY <1>9, NoElements

LEMMA SeenIsFound ==
    ASSUME SourcesIInv, progress = "answered", source.kind # "bitcoind", ~question.filterAddr,
           NEW a \in Elements(question.addresses), seenAtStart[a] # <<>>
    PROVE  \E r \in Elements(returned) : r.address = a /\ r.ntx > 0
<1>1. CalledOK /\ ChainOK /\ ResultOK /\ AnswersAreWhole
    BY DEF SourcesIInv
<1>2. question.addresses \in Seq(ScriptAddrs)
    BY <1>1 DEF CalledOK
<1>3. a \in ScriptAddrs
    BY <1>2, ElementsIn
<1>4. PICK h : h = Len(histories[a]) /\ h \in Nat /\ Elements(histories[a]) = 1 .. h
    BY <1>1, <1>3, HistoryIs
<1>5. PICK n \in 0 .. h : seenAtStart[a] = NewestFirst(n)
    BY <1>1, <1>3, <1>4 DEF CalledOK
<1>6. n # 0
    BY <1>5, NewestFirstZero
<1>7. Elements(seenAtStart[a]) = 1 .. n
    BY <1>4, <1>5, NewestFirstIs
<1>8. 1 \in Elements(seenAtStart[a]) /\ 1 \in Elements(histories[a])
    BY <1>4, <1>5, <1>6, <1>7
<1>9. SeenNow(a) = histories[a]
    BY DEF SeenNow, SeenFrom
<1>10. \/ (Elements(seenAtStart[a]) \cap Elements(SeenNow(a))) \subseteq Found(a)
       \/ TooManyTxs(Len(SeenNow(a))) /\ Found(a) = {}
       \/ source.kind = "oxt" /\ Cardinality(Found(a)) = AddrFilterThreshold + 1
    BY <1>1 DEF AnswersAreWhole
<1>11. ~TooManyTxs(Len(SeenNow(a)))
    BY DEF TooManyTxs
<1>12. Found(a) # {}
    <2>1. CASE Found(a) = {}
        <3>1. Cardinality(Found(a)) = 0
            BY <2>1, FS_EmptySet
        <3>2. AddrFilterThreshold + 1 # 0
            BY SourcesAssumption
        <3>3. QED
            BY <1>8, <1>9, <1>10, <1>11, <2>1, <3>1, <3>2
    <2>2. QED
        BY <2>1
<1>13. PICK x : x \in Found(a)
    BY <1>12
<1>14. PICK r \in Elements(returned) : r.address = a /\ x \in Elements(r.txids)
    BY <1>13, FoundIs
<1>15. r \in Answers
    BY <1>1, ElementsIn DEF ResultOK
<1>16. r.txids \in Seq(Nat) /\ r.ntx = Len(r.txids)
    BY <1>1, <1>14, <1>15 DEF Answers, AnswersAreWhole
<1>17. r.txids # <<>>
    BY <1>14, NoElements
<1>18. Len(r.txids) > 0
    BY <1>16, <1>17, FirstElement
<1>19. QED
    BY <1>14, <1>16, <1>18

LEMMA PostPushTxHolds ==
    ASSUME SourcesIInv, PostPushTx
    PROVE  SourcesIInv'
<1>1. /\ progress \in {"answered", "failed"} /\ vouts # <<>>
      /\ faultyOutputs' = faultyOutputs \cup UsedElsewhere
      /\ progress' = IF faultyOutputs' = {} THEN "pushed" ELSE "refused"
      /\ UNCHANGED <<source, vouts, usedInDb, seenAtStart, returned, sourceErrors>>
    BY DEF PostPushTx
<1>2. UNCHANGED <<histories, unspents>>
    BY DEF PostPushTx, chainVars
<1>3. StatesOK /\ ChainOK /\ ResultOK /\ StrictOK
    BY DEF SourcesIInv
<1>4. progress' \in {"pushed", "refused"}
    BY <1>1
<1>5. UsedElsewhere \subseteq DOMAIN vouts
    BY DEF UsedElsewhere
<1>6. StatesOK'
    BY <1>1, <1>3, <1>4, <1>5 DEF StatesOK
<1>7. ChainOK'
    BY <1>2, <1>3 DEF ChainOK
<1>8. ResultOK'
    BY <1>1, <1>3, <1>4 DEF ResultOK
<1>9. IdleOK' /\ CalledOK' /\ AskingOK' /\ StrictOK' /\ AnswersAreWhole'
    BY <1>4 DEF IdleOK, CalledOK, AskingOK, StrictOK, AnswersAreWhole
<1>10. /\ source.kind # "bitcoind" /\ ~question.filterAddr
       /\ faultyOutputs = {i \in DOMAIN vouts : Reused(i)}
       /\ \A i \in DOMAIN vouts \ faultyOutputs : vouts[i] \in Elements(question.addresses)
    BY <1>1, <1>3 DEF StrictOK
<1>11. \A i \in UsedElsewhere : \E r \in Elements(returned) : r.address = vouts[i] /\ r.ntx > 0
    BY DEF UsedElsewhere, Elements
<1>12. \A i \in UsedElsewhere : histories[vouts[i]] # <<>>
    <2>1. TAKE i \in UsedElsewhere
    <2>2. PICK r \in Elements(returned) : r.address = vouts[i] /\ r.ntx > 0
        BY <1>11
    <2>3. SeenNow(r.address) # <<>>
        BY <1>1, <2>2, NothingFoundIfNew
    <2>4. QED
        BY <1>10, <2>2, <2>3 DEF SeenNow, SeenFrom
<1>13. ASSUME progress' = "pushed", NEW i \in DOMAIN vouts
       PROVE  ~Reused(i) /\ (sourceErrors = 0 => seenAtStart[vouts[i]] = <<>>)
    <2>1. faultyOutputs = {} /\ UsedElsewhere = {}
        BY <1>1, <1>13
    <2>2. ~Reused(i) /\ vouts[i] \in Elements(question.addresses)
        BY <1>10, <1>13, <2>1
    <2>3. ASSUME sourceErrors = 0, seenAtStart[vouts[i]] # <<>> PROVE FALSE
        <3>1. progress = "answered"
            BY <1>1, <1>3, <2>3 DEF ResultOK
        <3>2. PICK a : a = vouts[i]
            OBVIOUS
        <3>3. a \in Elements(question.addresses) /\ seenAtStart[a] # <<>>
            BY <2>2, <2>3, <3>2
        <3>4. PICK r \in Elements(returned) : r.address = a /\ r.ntx > 0
            BY <1>10, <3>1, <3>3, SeenIsFound
        <3>5. i \in UsedElsewhere
            BY <1>13, <2>1, <3>2, <3>4 DEF UsedElsewhere, Elements
        <3>6. QED
            BY <2>1, <3>5
    <2>4. QED
        BY <2>2, <2>3
<1>14. \A i \in faultyOutputs' : Reused(i) \/ histories[vouts[i]] # <<>>
    BY <1>1, <1>10, <1>12
<1>15. StrictModeHolds'
    BY <1>1, <1>2, <1>13, <1>14 DEF StrictModeHolds, Reused
<1>16. QED
    BY <1>6, <1>7, <1>8, <1>9, <1>15 DEF SourcesIInv

-----------------------------------------------------------------------------
(* What each source tells *)

LEMMA SeenIs ==
    ASSUME ChainOK, NEW a \in ScriptAddrs
    PROVE  SeenNow(a) \in Seq(Nat)
BY DEF ChainOK, SeenNow, SeenFrom

\* A list of elements that were told covers the addresses that it has.
LEMMA ToldRight ==
    ASSUME ChainOK, source.kind # "bitcoind", NEW r, NEW a \in ScriptAddrs, Told(r, a)
    PROVE  r \in Answers /\ r.address = a /\ Right(r)
<1>1. PICK h \in Nat : h = Len(histories[a]) /\ Elements(histories[a]) = 1 .. h
    BY HistoryIs
<1>2. PICK n \in 0 .. h : r = Info(a, NewestFirst(n))
    BY <1>1 DEF Told
<1>3. n \in Nat
    OBVIOUS
<1>4. PICK s : s = NewestFirst(n)
    OBVIOUS
<1>5. s \in Seq(Nat) /\ Elements(s) = 1 .. n
    BY <1>3, <1>4, NewestFirstIs
<1>6. r \in Answers /\ r.address = a /\ r.ntx = Len(s) /\ r.txids = s
    BY <1>2, <1>4, <1>5, InfoIs
<1>7. SeenNow(a) = histories[a]
    BY DEF SeenNow, SeenFrom
<1>8. 1 .. n \subseteq 1 .. h
    OBVIOUS
<1>9. Right(r)
    BY <1>1, <1>5, <1>6, <1>7, <1>8 DEF Right
<1>10. QED
    BY <1>6, <1>9

LEMMA ToldCovers ==
    ASSUME ChainOK, CalledOK, progress = "asking", source.kind # "bitcoind", NEW infos,
           NEW a \in ScriptAddrs,
           \A r \in Elements(infos) : r.address = a => Told(r, a),
           \E r \in Elements(infos) : r.address = a
    PROVE  Covered(a, infos)
<1>1. PICK h \in Nat : h = Len(histories[a]) /\ Elements(histories[a]) = 1 .. h
    BY HistoryIs
<1>2. SeenNow(a) = histories[a]
    BY DEF SeenNow, SeenFrom
<1>3. PICK m \in 0 .. h : seenAtStart[a] = NewestFirst(m)
    BY <1>1 DEF CalledOK
<1>4. m \in Nat
    OBVIOUS
<1>5. Elements(seenAtStart[a]) = 1 .. m /\ Len(seenAtStart[a]) = m
    BY <1>3, <1>4, NewestFirstIs
<1>6. Lasting(a) \subseteq 1 .. m
    BY <1>5 DEF Lasting
<1>7. ASSUME NEW r \in Elements(infos), r.address = a
      PROVE  \/ Tells(r, infos, a)
             \/ TooManyTxs(h) /\ (TooManyTxs(r.ntx) \/ r.txids = <<>>)
    <2>1. Told(r, a)
        BY <1>7
    <2>2. PICK n \in 0 .. h : /\ r = Info(a, NewestFirst(n))
                              /\ m <= n \/ (n = 0 /\ TooManyTxs(h))
        BY <1>1, <1>5, <2>1 DEF Told
    <2>3. n \in Nat /\ n <= h
        OBVIOUS
    <2>4. PICK s : s = NewestFirst(n)
        OBVIOUS
    <2>5. s \in Seq(Nat) /\ Len(s) = n /\ Elements(s) = 1 .. n
        BY <2>3, <2>4, NewestFirstIs
    <2>6. r.ntx = n /\ r.txids = s
        BY <2>2, <2>4, <2>5, InfoIs
    <2>7. CASE TooManyTxs(n)
        BY <2>3, <2>6, <2>7, TooManyIfMore
    <2>8. CASE ~TooManyTxs(n) /\ m <= n
        <3>1. 1 .. m \subseteq 1 .. n
            BY <1>4, <2>3, <2>8
        <3>2. Tells(r, infos, a)
            BY <1>6, <1>7, <2>5, <2>6, <2>8, <3>1 DEF Tells
        <3>3. QED
            BY <3>2
    <2>9. CASE n = 0 /\ TooManyTxs(h)
        BY <2>4, <2>6, <2>9, NewestFirstZero
    <2>10. QED
        BY <2>2, <2>7, <2>8, <2>9
<1>8. CASE \E r \in Elements(infos) : Tells(r, infos, a)
    BY <1>8 DEF Covered
<1>9. CASE ~\E r \in Elements(infos) : Tells(r, infos, a)
    <2>1. \A r \in Elements(infos) : r.address = a =>
             TooManyTxs(h) /\ (TooManyTxs(r.ntx) \/ r.txids = <<>>)
        BY <1>7, <1>9
    <2>2. IsTooMuch(infos, a)
        BY <1>1, <1>2, <2>1 DEF IsTooMuch
    <2>3. QED
        BY <2>2 DEF Covered
<1>10. QED
    BY <1>8, <1>9

\* Elements that were told of all the addresses cover them.
LEMMA AllToldCovers ==
    ASSUME ChainOK, CalledOK, progress = "asking", source.kind # "bitcoind",
           NEW infos \in Seq(Answers),
           \A r \in Elements(infos) : Told(r, r.address),
           \A a \in Elements(question.addresses) : \E r \in Elements(infos) : r.address = a
    PROVE  Covers(infos)
<1>1. ASSUME NEW r \in Elements(infos) PROVE Right(r)
    <2>1. r \in Answers
        BY ElementsIn
    <2>2. PICK b : b = r.address
        OBVIOUS
    <2>3. b \in ScriptAddrs /\ Told(r, b)
        BY <2>1, <2>2 DEF Answers
    <2>4. QED
        BY <2>3, ToldRight
<1>2. question.addresses \in Seq(ScriptAddrs)
    BY DEF CalledOK
<1>3. ASSUME NEW a \in Elements(question.addresses) PROVE Covered(a, infos)
    <2>1. a \in ScriptAddrs
        BY <1>2, ElementsIn
    <2>2. \A r \in Elements(infos) : r.address = a => Told(r, a)
        OBVIOUS
    <2>3. QED
        BY <2>1, <2>2, ToldCovers
<1>4. QED
    BY <1>1, <1>3 DEF Covers

\* A local indexer, or one with a REST API, that answers about all the addresses at once
LEMMA HistoryTold ==
    ASSUME ChainOK, CalledOK, progress = "asking", source.kind # "bitcoind", NEW a \in ScriptAddrs
    PROVE  Told(Info(a, histories[a]), a)
<1>1. PICK h \in Nat : h = Len(histories[a]) /\ histories[a] = NewestFirst(h)
    BY HistoryIs
<1>2. PICK m \in 0 .. h : seenAtStart[a] = NewestFirst(m)
    BY <1>1 DEF CalledOK
<1>3. m \in Nat /\ m <= h
    OBVIOUS
<1>4. Len(seenAtStart[a]) = m
    BY <1>2, <1>3, NewestFirstIs
<1>5. h \in 0 .. Len(histories[a])
    BY <1>1
<1>6. Info(a, histories[a]) = Info(a, NewestFirst(h)) /\ Len(seenAtStart[a]) <= h
    BY <1>1, <1>3, <1>4
<1>7. QED
    BY <1>5, <1>6 DEF Told

LEMMA HistoriesCover ==
    ASSUME ChainOK, CalledOK, progress = "asking", source.kind # "bitcoind"
    PROVE  Covers(AnswersOf(ScriptHashes, histories))
<1> DEFINE infos == AnswersOf(ScriptHashes, histories)
<1>1. question.addresses \in Seq(ScriptAddrs)
    BY DEF CalledOK
<1>2. ScriptHashes \in Seq(ScriptAddrs) /\ Elements(ScriptHashes) = Elements(question.addresses)
    BY <1>1, ScriptHashesIs
<1>3. histories \in [ScriptAddrs -> Seq(Nat)]
    BY DEF ChainOK
<1>4. /\ infos \in Seq(Answers)
      /\ Elements(infos) = {Info(a, histories[a]) : a \in Elements(ScriptHashes)}
    BY <1>2, <1>3, AnswersOfIs
<1> HIDE DEF infos
<1>5. ASSUME NEW a \in Elements(ScriptHashes)
      PROVE  Info(a, histories[a]).address = a /\ Told(Info(a, histories[a]), a)
    <2>1. a \in ScriptAddrs
        BY <1>2, ElementsIn
    <2>2. histories[a] \in Seq(Nat)
        BY <1>3, <2>1
    <2>3. QED
        BY <2>1, <2>2, InfoIs, HistoryTold
<1>6. \A r \in Elements(infos) : Told(r, r.address)
    BY <1>4, <1>5
<1>7. \A a \in Elements(question.addresses) : \E r \in Elements(infos) : r.address = a
    BY <1>2, <1>4, <1>5
<1>8. QED
    BY <1>4, <1>6, <1>7, AllToldCovers DEF infos

\* bitcoind
LEMMA UnspentsCover ==
    ASSUME ChainOK, CalledOK, progress = "asking", source.kind = "bitcoind"
    PROVE  Covers(AnswersOf(ScriptHashes, unspents))
<1> DEFINE infos == AnswersOf(ScriptHashes, unspents)
<1>1. question.addresses \in Seq(ScriptAddrs)
    BY DEF CalledOK
<1>2. ScriptHashes \in Seq(ScriptAddrs) /\ Elements(ScriptHashes) = Elements(question.addresses)
    BY <1>1, ScriptHashesIs
<1>3. unspents \in [ScriptAddrs -> Seq(Nat)]
    BY DEF ChainOK
<1>4. /\ infos \in Seq(Answers)
      /\ Elements(infos) = {Info(a, unspents[a]) : a \in Elements(ScriptHashes)}
    BY <1>2, <1>3, AnswersOfIs
<1> HIDE DEF infos
<1>5. ASSUME NEW a \in Elements(ScriptHashes)
      PROVE  /\ Info(a, unspents[a]).address = a
             /\ Info(a, unspents[a]).ntx = Len(SeenNow(a))
             /\ Info(a, unspents[a]).txids = SeenNow(a)
    <2>1. a \in ScriptAddrs
        BY <1>2, ElementsIn
    <2>2. unspents[a] \in Seq(Nat) /\ SeenNow(a) = unspents[a]
        BY <1>3, <2>1 DEF SeenNow, SeenFrom
    <2>3. QED
        BY <2>1, <2>2, InfoIs
<1>6. ASSUME NEW r \in Elements(infos)
      PROVE  r.ntx = Len(SeenNow(r.address)) /\ r.txids = SeenNow(r.address)
    <2>1. PICK a \in Elements(ScriptHashes) : r = Info(a, unspents[a])
        BY <1>4
    <2>2. r.address = a
        BY <1>5, <2>1
    <2>3. r.ntx = Len(SeenNow(a)) /\ r.txids = SeenNow(a)
        BY <1>5, <2>1
    <2>4. QED
        BY <2>2, <2>3
<1>7. \A r \in Elements(infos) : Right(r)
    BY <1>6 DEF Right
<1>8. ASSUME NEW a \in Elements(question.addresses) PROVE Covered(a, infos)
    <2>1. PICK r \in Elements(infos) : r.address = a
        BY <1>2, <1>4, <1>5
    <2>2. r.ntx = Len(SeenNow(a)) /\ r.txids = SeenNow(a)
        BY <1>6, <2>1
    <2>3. CASE TooManyTxs(Len(SeenNow(a)))
        <3>1. \A q \in Elements(infos) : q.address = a => TooManyTxs(q.ntx)
            BY <1>6, <2>3
        <3>2. IsTooMuch(infos, a)
            BY <2>3, <3>1 DEF IsTooMuch
        <3>3. QED
            BY <3>2 DEF Covered
    <2>4. CASE ~TooManyTxs(Len(SeenNow(a)))
        <3>1. Tells(r, infos, a)
            BY <2>1, <2>2, <2>4 DEF Tells, Lasting
        <3>2. QED
            BY <3>1 DEF Covered
    <2>5. QED
        BY <2>3, <2>4
<1>9. QED
    BY <1>4, <1>7, <1>8 DEF Covers, infos

\* OXT: the newest transactions of an address
LEMMA NewestIs ==
    ASSUME NEW h \in Nat
    PROVE  LET s == Newest(NewestFirst(h))
           IN  /\ s \in Seq(Nat) /\ Elements(s) \subseteq 1 .. h
               /\ h <= AddrFilterThreshold => s = NewestFirst(h)
               /\ h > AddrFilterThreshold =>
                    /\ Len(s) = AddrFilterThreshold + 1
                    /\ Cardinality(Elements(s)) = AddrFilterThreshold + 1
<1> DEFINE f == NewestFirst(h)
           s == Newest(NewestFirst(h))
           k == AddrFilterThreshold + 1
<1>1. AddrFilterThreshold \in Nat
    BY SourcesAssumption
<1>2. /\ f \in Seq(Nat) /\ Len(f) = h /\ Elements(f) = 1 .. h
      /\ \A i \in 1 .. h : f[i] = h - i + 1
    BY NewestFirstIs
<1>3. s = IF Len(f) <= AddrFilterThreshold THEN f ELSE SubSeq(f, 1, AddrFilterThreshold + 1)
    BY DEF Newest
<1> HIDE DEF f, s
<1>4. CASE h <= AddrFilterThreshold
    <2>1. s = f /\ ~(h > AddrFilterThreshold)
        BY <1>1, <1>2, <1>3, <1>4
    <2>2. QED
        BY <1>2, <2>1 DEF f, s
<1>5. CASE ~(h <= AddrFilterThreshold)
    <2>1. s = SubSeq(f, 1, k)
        BY <1>2, <1>3, <1>5
    <2>2. k \in Nat /\ k \in 0 .. h /\ k >= 1
        BY <1>1, <1>5
    <2> HIDE DEF k
    <2>3. \A i \in 1 .. k : f[i] \in Nat
        BY <1>2, <2>2
    <2>4. /\ SubSeq(f, 1, k) \in Seq(Nat) /\ Len(SubSeq(f, 1, k)) = IF 1 <= k THEN k - 1 + 1 ELSE 0
          /\ \A i \in 1 .. k - 1 + 1 : SubSeq(f, 1, k)[i] = f[1 + i - 1]
        BY <2>2, <2>3, SubSeqProperties
    <2>5. s \in Seq(Nat) /\ Len(s) = k /\ \A i \in 1 .. k : s[i] = f[i]
        BY <2>1, <2>2, <2>4
    <2>6. \A i \in 1 .. k : s[i] = h - i + 1
        BY <1>2, <2>2, <2>5
    <2>7. /\ Pages(h, k) \in Seq(Nat) /\ Len(Pages(h, k)) = k
          /\ \A i \in 1 .. k : Pages(h, k)[i] = h - i + 1
          /\ Elements(Pages(h, k)) = h - k + 1 .. h
        BY <2>2, PagesIs
    <2>8. s = Pages(h, k)
        BY <2>5, <2>6, <2>7, SeqEqual
    <2>9. Elements(s) = h - k + 1 .. h
        BY <2>7, <2>8
    <2>10. h - k + 1 \in Int /\ h \in Int /\ ~(h - k + 1 > h) /\ h - (h - k + 1) + 1 = k
        BY <2>2
    <2>11. Cardinality(h - k + 1 .. h) = k
        BY <2>10, FS_Interval
    <2>12. h - k + 1 .. h \subseteq 1 .. h
        BY <2>2
    <2>13. Len(s) = AddrFilterThreshold + 1 /\ Cardinality(Elements(s)) = AddrFilterThreshold + 1
        BY <2>5, <2>9, <2>11 DEF k
    <2>14. QED
        BY <1>5, <2>5, <2>9, <2>12, <2>13 DEF s
<1>6. QED
    BY <1>4, <1>5

NewestOf == [a \in ScriptAddrs |-> Newest(histories[a])]

LEMMA NewestOfIs ==
    ASSUME ChainOK
    PROVE  NewestOf \in [ScriptAddrs -> Seq(Nat)]
<1>1. ASSUME NEW a \in ScriptAddrs PROVE Newest(histories[a]) \in Seq(Nat)
    <2>1. PICK h \in Nat : histories[a] = NewestFirst(h)
        BY HistoryIs
    <2>2. QED
        BY <2>1, NewestIs
<1>2. QED
    BY <1>1 DEF NewestOf

LEMMA NewestCovered ==
    ASSUME ChainOK, source.kind = "oxt", NEW infos, NEW a \in ScriptAddrs,
           NEW r, r \in Elements(infos), r.address = a,
           \A q \in Elements(infos) : q.address = a =>
                q.ntx = Len(Newest(histories[a])) /\ q.txids = Newest(histories[a])
    PROVE  Covered(a, infos)
<1>1. PICK h \in Nat : h = Len(histories[a]) /\ histories[a] = NewestFirst(h)
    BY HistoryIs
<1>2. PICK s : s = Newest(histories[a])
    OBVIOUS
<1>3. s = Newest(NewestFirst(h))
    BY <1>1, <1>2
<1>4. /\ h <= AddrFilterThreshold => s = NewestFirst(h)
      /\ h > AddrFilterThreshold =>
           Len(s) = AddrFilterThreshold + 1 /\ Cardinality(Elements(s)) = AddrFilterThreshold + 1
    BY <1>3, NewestIs
<1>5. AddrFilterThreshold \in Nat
    BY SourcesAssumption
<1>6. SeenNow(a) = histories[a]
    BY DEF SeenNow, SeenFrom
<1>7. \A q \in Elements(infos) : q.address = a => q.ntx = Len(s) /\ q.txids = s
    BY <1>2
<1>8. r.ntx = Len(s) /\ r.txids = s
    BY <1>7
<1>9. CASE h <= AddrFilterThreshold
    <2>1. s = histories[a] /\ Len(s) = h
        BY <1>1, <1>4, <1>9
    <2>2. ~TooManyTxs(h)
        BY <1>5, <1>9 DEF TooManyTxs
    <2>3. Tells(r, infos, a)
        BY <1>6, <1>8, <2>1, <2>2 DEF Tells, Lasting
    <2>4. QED
        BY <2>3 DEF Covered
<1>10. CASE ~(h <= AddrFilterThreshold)
    <2>1. h > AddrFilterThreshold
        BY <1>5, <1>10
    <2>2. Len(s) = AddrFilterThreshold + 1 /\ Cardinality(Elements(s)) = AddrFilterThreshold + 1
        BY <1>4, <2>1
    <2>3. CASE question.filterAddr
        <3>1. TooManyTxs(h) /\ TooManyTxs(Len(s))
            BY <1>5, <2>1, <2>2, <2>3 DEF TooManyTxs
        <3>2. IsTooMuch(infos, a)
            BY <1>1, <1>6, <1>7, <3>1 DEF IsTooMuch
        <3>3. QED
            BY <3>2 DEF Covered
    <2>4. CASE ~question.filterAddr
        <3>1. ~TooManyTxs(r.ntx)
            BY <2>4 DEF TooManyTxs
        <3>2. IsNewest(r, infos, a)
            BY <1>7, <1>8, <2>2, <3>1 DEF IsNewest
        <3>3. QED
            BY <3>2 DEF Covered
    <2>5. QED
        BY <2>3, <2>4
<1>11. QED
    BY <1>9, <1>10

LEMMA NewestCover ==
    ASSUME ChainOK, CalledOK, progress = "asking", source.kind = "oxt"
    PROVE  Covers(AnswersOf(ScriptHashes, NewestOf))
<1> DEFINE infos == AnswersOf(ScriptHashes, NewestOf)
<1>1. question.addresses \in Seq(ScriptAddrs)
    BY DEF CalledOK
<1>2. ScriptHashes \in Seq(ScriptAddrs) /\ Elements(ScriptHashes) = Elements(question.addresses)
    BY <1>1, ScriptHashesIs
<1>3. NewestOf \in [ScriptAddrs -> Seq(Nat)]
    BY NewestOfIs
<1>4. /\ infos \in Seq(Answers)
      /\ Elements(infos) = {Info(a, NewestOf[a]) : a \in Elements(ScriptHashes)}
    BY <1>2, <1>3, AnswersOfIs
<1> HIDE DEF infos
<1>5. ASSUME NEW a \in Elements(ScriptHashes)
      PROVE  /\ a \in ScriptAddrs
             /\ Info(a, NewestOf[a]).address = a
             /\ Info(a, NewestOf[a]).ntx = Len(Newest(histories[a]))
             /\ Info(a, NewestOf[a]).txids = Newest(histories[a])
    <2>1. a \in ScriptAddrs
        BY <1>2, ElementsIn
    <2>2. NewestOf[a] = Newest(histories[a]) /\ NewestOf[a] \in Seq(Nat)
        BY <1>3, <2>1 DEF NewestOf
    <2>3. QED
        BY <2>1, <2>2, InfoIs
<1>6. ASSUME NEW r \in Elements(infos)
      PROVE  /\ r.address \in ScriptAddrs
             /\ r.ntx = Len(Newest(histories[r.address]))
             /\ r.txids = Newest(histories[r.address])
    <2>1. PICK a \in Elements(ScriptHashes) : r = Info(a, NewestOf[a])
        BY <1>4
    <2>2. r.address = a /\ a \in ScriptAddrs
        BY <1>5, <2>1
    <2>3. r.ntx = Len(Newest(histories[a])) /\ r.txids = Newest(histories[a])
        BY <1>5, <2>1
    <2>4. QED
        BY <2>2, <2>3
<1>7. ASSUME NEW r \in Elements(infos) PROVE Right(r)
    <2>1. PICK a \in ScriptAddrs : a = r.address
        BY <1>6
    <2>2. PICK h \in Nat : h = Len(histories[a]) /\ histories[a] = NewestFirst(h)
                           /\ Elements(histories[a]) = 1 .. h
        BY HistoryIs
    <2>3. Elements(Newest(histories[a])) \subseteq 1 .. h
        BY <2>2, NewestIs
    <2>4. SeenNow(a) = histories[a]
        BY DEF SeenNow, SeenFrom
    <2>5. QED
        BY <1>6, <2>1, <2>2, <2>3, <2>4 DEF Right
<1>8. ASSUME NEW a \in Elements(question.addresses) PROVE Covered(a, infos)
    <2>1. PICK r \in Elements(infos) : r.address = a
        BY <1>2, <1>4, <1>5
    <2>2. a \in ScriptAddrs
        BY <1>2, <1>5
    <2>3. \A q \in Elements(infos) : q.address = a =>
              q.ntx = Len(Newest(histories[a])) /\ q.txids = Newest(histories[a])
        BY <1>6
    <2>4. QED
        BY <2>1, <2>2, <2>3, NewestCovered
<1>9. QED
    BY <1>4, <1>7, <1>8 DEF Covers, infos

\* OXT: of an address with too many transactions, only their number
Emptied(infos) ==
    [i \in DOMAIN infos |->
        [infos[i] EXCEPT !.txids = IF TooManyTxs(infos[i].ntx) THEN <<>> ELSE @]]

LEMMA EmptiedThins ==
    ASSUME NEW infos \in Seq(Answers)
    PROVE  /\ Thinned(Kept(Emptied(infos)), infos)
           /\ \A r \in Elements(Kept(Emptied(infos))) : ~TooManyTxs(r.ntx)
<1> DEFINE ex == Emptied(infos)
           left == Kept(Emptied(infos))
<1>1. DOMAIN infos = 1 .. Len(infos) /\ Len(infos) \in Nat /\ \A i \in DOMAIN infos : infos[i] \in Answers
    OBVIOUS
<1>2. ASSUME NEW i \in DOMAIN infos
      PROVE  /\ ex[i] \in Answers /\ ex[i].ntx = infos[i].ntx
             /\ ~TooManyTxs(infos[i].ntx) => ex[i] = infos[i]
    <2>1. PICK q \in Answers : q = infos[i]
        BY <1>1
    <2>2. ex[i] = [q EXCEPT !.txids = IF TooManyTxs(q.ntx) THEN <<>> ELSE q.txids]
        BY <2>1 DEF Emptied
    <2>3. PICK t : t = IF TooManyTxs(q.ntx) THEN <<>> ELSE q.txids
        OBVIOUS
    <2>4. t \in Seq(Nat)
        BY <2>3 DEF Answers
    <2>5. ex[i] = [q EXCEPT !.txids = t]
        BY <2>2, <2>3
    <2>6. ex[i] \in Answers /\ ex[i].ntx = q.ntx
        BY <2>4, <2>5 DEF Answers
    <2>7. t = q.txids => ex[i] = q
        BY <2>5 DEF Answers
    <2>8. QED
        BY <2>1, <2>3, <2>6, <2>7
<1>3. DOMAIN ex = 1 .. Len(infos)
    BY <1>1 DEF Emptied
<1>4. ex \in Seq(Answers)
    <2>1. ex = [i \in 1 .. Len(infos) |-> ex[i]]
        BY <1>1 DEF Emptied
    <2> HIDE DEF ex
    <2>2. \A i \in 1 .. Len(infos) : ex[i] \in Answers
        BY <1>1, <1>2
    <2>3. QED
        BY <1>1, <2>1, <2>2
<1>5. Thinned(left, ex) /\ \A r \in Elements(left) : ~TooManyTxs(r.ntx)
    BY <1>4, WithFewTxsThins DEF Kept
<1> HIDE DEF ex, left
<1>6. \A r \in Elements(left) : r \in Elements(infos)
    <2>1. TAKE r \in Elements(left)
    <2>2. r \in Elements(ex) /\ ~TooManyTxs(r.ntx)
        BY <1>5 DEF Thinned
    <2>3. PICK i \in DOMAIN ex : r = ex[i]
        BY <2>2 DEF Elements
    <2>4. i \in DOMAIN infos
        BY <1>1, <1>3, <2>3
    <2>5. r = infos[i]
        BY <1>2, <2>2, <2>3, <2>4
    <2>6. QED
        BY <2>4, <2>5 DEF Elements
<1>7. \A r \in Elements(infos) : r \in Elements(left) \/ TooManyTxs(r.ntx) \/ r.txids = <<>>
    <2>1. TAKE r \in Elements(infos)
    <2>2. PICK i \in DOMAIN infos : r = infos[i]
        BY <2>1 DEF Elements
    <2>3. CASE ~TooManyTxs(r.ntx)
        <3>1. r = ex[i] /\ i \in DOMAIN ex
            BY <1>1, <1>2, <1>3, <2>2, <2>3
        <3>2. r \in Elements(ex)
            BY <3>1 DEF Elements
        <3>3. QED
            BY <1>5, <3>2 DEF Thinned
    <2>4. QED
        BY <2>3
<1>8. Thinned(left, infos)
    BY <1>5, <1>6, <1>7 DEF Thinned
<1>9. QED
    BY <1>5, <1>8 DEF left

-----------------------------------------------------------------------------
(* The replies of the source *)

\* What does not change while the source replies
Replying ==
    /\ progress = "asking"
    /\ UNCHANGED <<source, histories, unspents, vouts, usedInDb, faultyOutputs, question,
                   seenAtStart, sourceErrors>>

LEMMA ReturnHolds ==
    ASSUME SourcesIInv, Replying, NEW list, Whole(Kept(list)), Return(list)
    PROVE  SourcesIInv'
<1>1. progress' = "answered" /\ returned' = Kept(list) /\ progress = "asking"
    BY DEF Return, Replying
<1>2. UNCHANGED <<source, histories, unspents, vouts, usedInDb, faultyOutputs, question,
                  seenAtStart, sourceErrors>>
    BY DEF Replying
<1>3. StatesOK /\ ChainOK /\ CalledOK /\ StrictOK
    BY DEF SourcesIInv
<1>4. PICK res : res = Kept(list)
    OBVIOUS
<1>5. /\ res \in Seq(Answers)
      /\ \A a \in Elements(question.addresses) : WholeFor(res, a)
      /\ \A r \in Elements(res) : ~TooManyTxs(r.ntx) /\ r.ntx = Len(r.txids)
      /\ \A a \in ScriptAddrs : FoundIn(res, a) \subseteq Elements(SeenNow(a))
    BY <1>4 DEF Whole
<1>6. returned' = res
    BY <1>1, <1>4
<1>7. StatesOK'
    BY <1>1, <1>2, <1>3 DEF StatesOK
<1>8. ChainOK'
    BY <1>2, <1>3 DEF ChainOK
<1>9. CalledOK'
    BY <1>1, <1>2, <1>3 DEF CalledOK
<1>10. ResultOK'
    BY <1>1, <1>5, <1>6 DEF ResultOK
<1>11. StrictOK'
    BY <1>1, <1>2, <1>3 DEF StrictOK, Reused
<1>12. IdleOK' /\ AskingOK' /\ StrictModeHolds'
    BY <1>1 DEF IdleOK, AskingOK, StrictModeHolds
<1>13. AnswersAreWhole'
    <2>1. \A a \in ScriptAddrs : SeenNow(a)' = SeenNow(a)
        BY <1>2 DEF SeenNow, SeenFrom
    <2>2. \A a : Found(a)' = FoundIn(res, a)
        BY <1>6 DEF Found, FoundIn
    <2>3. \A n : TooManyTxs(n)' = TooManyTxs(n)
        BY <1>2 DEF TooManyTxs
    <2>4. question.addresses \in Seq(ScriptAddrs)
        BY <1>1, <1>3 DEF CalledOK
    <2>5. ASSUME NEW a \in Elements(question.addresses)
          PROVE  \/ (Elements(seenAtStart'[a]) \cap Elements(SeenNow(a)')) \subseteq Found(a)'
                 \/ TooManyTxs(Len(SeenNow(a)))' /\ Found(a)' = {}
                 \/ source'.kind = "oxt" /\ Cardinality(Found(a)') = AddrFilterThreshold + 1
        <3>1. WholeFor(res, a) /\ a \in ScriptAddrs
            BY <1>5, <2>4, ElementsIn
        <3>2. SeenNow(a)' = SeenNow(a) /\ Found(a)' = FoundIn(res, a)
            BY <2>1, <2>2, <3>1
        <3>3. TooManyTxs(Len(SeenNow(a))) => TooManyTxs(Len(SeenNow(a)))'
            BY <1>2, <3>2 DEF TooManyTxs
        <3>4. seenAtStart' = seenAtStart /\ source' = source
            BY <1>2
        <3>5. QED
            BY <3>1, <3>2, <3>3, <3>4 DEF WholeFor, Lasting
    <2>6. Elements(question.addresses)' = Elements(question.addresses)
        BY <1>2 DEF Elements
    <2>7. ASSUME NEW r \in Elements(res) PROVE ~TooManyTxs(r.ntx)' /\ r.ntx = Len(r.txids)
        BY <1>2, <1>5, <2>7 DEF TooManyTxs
    <2>8. Elements(returned)' = Elements(res)
        BY <1>6 DEF Elements
    <2>9. ASSUME NEW a \in ScriptAddrs PROVE Found(a)' \subseteq Elements(SeenNow(a)')
        BY <1>5, <2>1, <2>2, <2>9
    <2>10. QED
        BY <2>5, <2>6, <2>7, <2>8, <2>9 DEF AnswersAreWhole, Elements
<1>14. QED
    BY <1>7, <1>8, <1>9, <1>10, <1>11, <1>12, <1>13 DEF SourcesIInv

LEMMA ReplyingFacts ==
    ASSUME SourcesIInv, Replying
    PROVE  ChainOK /\ CalledOK /\ progress = "asking" /\ question.addresses \in Seq(ScriptAddrs)
BY DEF SourcesIInv, Replying, CalledOK

\* A list that covers the addresses, less what a wrapper may leave out, is a whole answer.
LEMMA ReturnThinned ==
    ASSUME SourcesIInv, Replying, NEW infos, NEW list, Covers(infos), Thinned(list, infos),
           Return(list)
    PROVE  SourcesIInv'
<1>1. list \in Seq(Answers)
    BY DEF Thinned
<1>2. PICK res : res = Kept(list)
    OBVIOUS
<1>3. Thinned(res, list) /\ \A r \in Elements(res) : ~TooManyTxs(r.ntx)
    BY <1>1, <1>2, WithFewTxsThins DEF Kept
<1>4. Thinned(res, infos)
    BY <1>3, ThinnedTwice
<1>5. Whole(res)
    BY <1>3, <1>4, ThinnedIsWhole
<1>6. QED
    BY <1>2, <1>5, ReturnHolds

LEMMA RestReplyHolds ==
    ASSUME SourcesIInv, Replying, RestReply
    PROVE  SourcesIInv'
<1>1. source.kind = "rest"
    BY DEF RestReply
<1>2. ChainOK /\ CalledOK /\ progress = "asking" /\ question.addresses \in Seq(ScriptAddrs)
    BY ReplyingFacts
<1>3. PICK omitted \in BOOLEAN :
           Return(SplicedInfos(InfosOf(ScriptHashes, omitted, histories)))
    BY DEF RestReply
<1>4. ScriptHashes \in Seq(ScriptAddrs) /\ histories \in [ScriptAddrs -> Seq(Nat)]
    BY <1>2, ScriptHashesIs DEF ChainOK
<1>5. PICK infos : infos = AnswersOf(ScriptHashes, histories)
    OBVIOUS
<1>6. PICK left : left = InfosOf(ScriptHashes, omitted, histories)
    OBVIOUS
<1>7. Covers(infos)
    BY <1>1, <1>2, <1>5, HistoriesCover
<1>8. Thinned(left, infos)
    BY <1>4, <1>5, <1>6, InfosOfThins
<1>9. left \in Seq(Answers)
    BY <1>8 DEF Thinned
<1>10. PICK list : list = SplicedInfos(left)
    OBVIOUS
<1>11. Thinned(list, left)
    BY <1>9, <1>10, SplicedInfosThins
<1>12. Thinned(list, infos)
    BY <1>8, <1>11, ThinnedTwice
<1>13. Return(list)
    BY <1>3, <1>6, <1>10
<1>14. QED
    BY <1>7, <1>12, <1>13, ReturnThinned

LEMMA BitcoindReplyHolds ==
    ASSUME SourcesIInv, Replying, BitcoindReply
    PROVE  SourcesIInv'
<1>1. source.kind = "bitcoind"
    BY DEF BitcoindReply
<1>2. ChainOK /\ CalledOK /\ progress = "asking" /\ question.addresses \in Seq(ScriptAddrs)
    BY ReplyingFacts
<1>3. Return(SplicedInfos(InfosOf(ScriptHashes, TRUE, unspents)))
    BY DEF BitcoindReply
<1>4. ScriptHashes \in Seq(ScriptAddrs) /\ unspents \in [ScriptAddrs -> Seq(Nat)]
    BY <1>2, ScriptHashesIs DEF ChainOK
<1>5. PICK infos : infos = AnswersOf(ScriptHashes, unspents)
    OBVIOUS
<1>6. PICK left : left = InfosOf(ScriptHashes, TRUE, unspents)
    OBVIOUS
<1>7. Covers(infos)
    BY <1>1, <1>2, <1>5, UnspentsCover
<1>8. Thinned(left, infos)
    BY <1>4, <1>5, <1>6, InfosOfThins
<1>9. left \in Seq(Answers)
    BY <1>8 DEF Thinned
<1>10. PICK list : list = SplicedInfos(left)
    OBVIOUS
<1>11. Thinned(list, left)
    BY <1>9, <1>10, SplicedInfosThins
<1>12. Thinned(list, infos)
    BY <1>8, <1>11, ThinnedTwice
<1>13. Return(list)
    BY <1>3, <1>6, <1>10
<1>14. QED
    BY <1>7, <1>12, <1>13, ReturnThinned

LEMMA OxtReplyHolds ==
    ASSUME SourcesIInv, Replying, OxtReply
    PROVE  SourcesIInv'
<1>1. source.kind = "oxt"
    BY DEF OxtReply
<1>2. ChainOK /\ CalledOK /\ progress = "asking" /\ question.addresses \in Seq(ScriptAddrs)
    BY ReplyingFacts
<1>3. PICK omitted \in BOOLEAN : Return(Emptied(InfosOf(ScriptHashes, omitted, NewestOf)))
    BY DEF OxtReply, Emptied, NewestOf
<1>4. ScriptHashes \in Seq(ScriptAddrs) /\ NewestOf \in [ScriptAddrs -> Seq(Nat)]
    BY <1>2, ScriptHashesIs, NewestOfIs
<1>5. PICK infos : infos = AnswersOf(ScriptHashes, NewestOf)
    OBVIOUS
<1>6. PICK left : left = InfosOf(ScriptHashes, omitted, NewestOf)
    OBVIOUS
<1>7. Covers(infos)
    BY <1>1, <1>2, <1>5, NewestCover
<1>8. Thinned(left, infos)
    BY <1>4, <1>5, <1>6, InfosOfThins
<1>9. left \in Seq(Answers)
    BY <1>8 DEF Thinned
<1>10. PICK res : res = Kept(Emptied(left))
    OBVIOUS
<1>11. Thinned(res, left) /\ \A r \in Elements(res) : ~TooManyTxs(r.ntx)
    BY <1>9, <1>10, EmptiedThins
<1>12. Thinned(res, infos)
    BY <1>8, <1>11, ThinnedTwice
<1>13. Whole(res)
    BY <1>7, <1>11, <1>12, ThinnedIsWhole
<1>14. Whole(Kept(Emptied(left)))
    BY <1>10, <1>13
<1>15. PICK list : list = Emptied(left)
    OBVIOUS
<1>16. Return(list) /\ Whole(Kept(list))
    BY <1>3, <1>6, <1>14, <1>15
<1>17. QED
    BY <1>16, ReturnHolds

\* One answer of several
LEMMA ContinueHolds ==
    ASSUME SourcesIInv, Replying, AskingOK', UNCHANGED <<returned, progress>>
    PROVE  SourcesIInv'
<1>1. /\ progress = "asking" /\ progress' = progress /\ returned' = returned
      /\ UNCHANGED <<source, histories, unspents, vouts, usedInDb, faultyOutputs, question,
                     seenAtStart, sourceErrors>>
    BY DEF Replying
<1>2. StatesOK /\ ChainOK /\ CalledOK /\ StrictOK /\ ResultOK
    BY DEF SourcesIInv
<1>3. StatesOK'
    BY <1>1, <1>2 DEF StatesOK
<1>4. ChainOK'
    BY <1>1, <1>2 DEF ChainOK
<1>5. CalledOK'
    BY <1>1, <1>2 DEF CalledOK
<1>6. ResultOK'
    BY <1>1, <1>2 DEF ResultOK
<1>7. StrictOK'
    BY <1>1, <1>2 DEF StrictOK, Reused
<1>8. IdleOK' /\ AnswersAreWhole' /\ StrictModeHolds'
    BY <1>1 DEF IdleOK, AnswersAreWhole, StrictModeHolds
<1>9. QED
    BY <1>3, <1>4, <1>5, <1>6, <1>7, <1>8 DEF SourcesIInv

LEMMA ToldStill ==
    ASSUME Replying, NEW r, NEW b, Told(r, b)
    PROVE  Told(r, b)'
<1>1. UNCHANGED <<histories, seenAtStart, question>>
    BY DEF Replying
<1>2. QED
    BY <1>1 DEF Told, TooManyTxs

\* All the addresses were answered.
LEMMA CollectedCovers ==
    ASSUME ChainOK, CalledOK, progress = "asking", source.kind # "bitcoind",
           NEW g \in Seq(Answers), NEW as \in Seq(ScriptAddrs),
           Elements(as) = Elements(question.addresses), DOMAIN g = DOMAIN as,
           \A i \in DOMAIN g : Told(g[i], as[i])
    PROVE  Covers(g)
<1>1. ASSUME NEW i \in DOMAIN g PROVE g[i].address = as[i] /\ Told(g[i], g[i].address)
    <2>1. PICK r, b : r = g[i] /\ b = as[i]
        OBVIOUS
    <2>2. i \in DOMAIN as
        BY <1>1
    <2>3. b \in ScriptAddrs
        <3>1. b \in Elements(as)
            BY <2>1, <2>2 DEF Elements
        <3>2. Elements(as) \subseteq ScriptAddrs
            BY ElementsIn
        <3>3. QED
            BY <3>1, <3>2
    <2>4. Told(r, b)
        BY <1>1, <2>1
    <2>5. r.address = b
        BY <2>3, <2>4, ToldRight
    <2>6. QED
        BY <2>1, <2>4, <2>5
<1>2. \A r \in Elements(g) : Told(r, r.address)
    BY <1>1 DEF Elements
<1>3. ASSUME NEW a \in Elements(question.addresses) PROVE \E r \in Elements(g) : r.address = a
    <2>1. PICK i \in DOMAIN as : as[i] = a
        BY <1>3 DEF Elements
    <2>2. g[i] \in Elements(g) /\ g[i].address = a
        BY <1>1, <2>1 DEF Elements
    <2>3. QED
        BY <2>2
<1>4. QED
    BY <1>2, <1>3, AllToldCovers

-----------------------------------------------------------------------------
(* Esplora *)

\* A page of n transactions after k of the newest `top` ones: the next ones, and all that
\* are left unless the page is full
Followed(page, top, k, n, P) ==
    /\ k + n \in 0 .. top
    /\ Pages(top, k) \o page = Pages(top, k + n)
    /\ Len(page) # P => k + n = top
    /\ Len(page) = P => k + n >= 1

LEMMA PageFollows ==
    ASSUME NEW h \in Nat, NEW top \in 0 .. h, NEW k \in 0 .. top, NEW P \in Nat \ {0},
           NEW from, from = h - top + k, NEW to,
           to = IF from + P < h THEN from + P ELSE h,
           NEW page, page = SubSeq(NewestFirst(h), from + 1, to)
    PROVE  Followed(page, top, k, to - from, P)
<1> DEFINE s == NewestFirst(h)
           n == to - from
           p == Pages(top, k)
           q == Pages(top, k + n)
<1>1. h \in Nat /\ top \in Nat /\ top <= h /\ k \in Nat /\ k <= top /\ P \in Nat /\ P >= 1
    OBVIOUS
<1>2. from \in Nat /\ from <= h /\ h - from = top - k
    BY <1>1
<1>3. to \in Nat /\ from <= to /\ to <= h /\ (to = from + P \/ to = h)
    BY <1>1, <1>2
<1>4. n \in Nat /\ k + n <= top /\ (n = P \/ k + n = top) /\ k + n \in 0 .. top
    BY <1>1, <1>2, <1>3
<1>5. s \in Seq(Nat) /\ Len(s) = h /\ \A i \in 1 .. h : s[i] = h - i + 1
    BY <1>1, NewestFirstIs
<1> HIDE DEF s
<1>6. \A i \in from + 1 .. to : s[i] \in Nat
    <2>1. TAKE i \in from + 1 .. to
    <2>2. i \in 1 .. h /\ h - i + 1 \in Nat
        BY <1>1, <1>2, <1>3, <2>1
    <2>3. QED
        BY <1>5, <2>2
<1>7. /\ page \in Seq(Nat) /\ Len(page) = IF from + 1 <= to THEN to - (from + 1) + 1 ELSE 0
      /\ \A i \in 1 .. to - (from + 1) + 1 : page[i] = s[(from + 1) + i - 1]
    BY <1>2, <1>3, <1>6, SubSeqProperties DEF s
<1>8. Len(page) = n
    BY <1>2, <1>3, <1>7
<1>9. ASSUME NEW i \in 1 .. n PROVE page[i] = top - (k + i) + 1
    <2>1. i \in 1 .. to - (from + 1) + 1 /\ (from + 1) + i - 1 = from + i /\ from + i \in 1 .. h
        BY <1>2, <1>3, <1>9
    <2>2. page[i] = s[from + i]
        BY <1>7, <2>1
    <2>3. s[from + i] = h - (from + i) + 1
        BY <1>5, <2>1
    <2>4. h - (from + i) + 1 = top - (k + i) + 1
        BY <1>1, <1>2, <1>9
    <2>5. QED
        BY <2>2, <2>3, <2>4
<1>10. p \in Seq(Nat) /\ Len(p) = k /\ \A i \in 1 .. k : p[i] = top - i + 1
    BY <1>1, PagesIs
<1>11. q \in Seq(Nat) /\ Len(q) = k + n /\ \A i \in 1 .. k + n : q[i] = top - i + 1
    BY <1>1, <1>4, PagesIs
<1> HIDE DEF p, q, n
<1>12. page \in Seq(Nat) /\ p \in Seq(Nat)
    BY <1>7, <1>10
<1> DEFINE u == p \o page
<1>13. /\ u \in Seq(Nat) /\ Len(u) = Len(p) + Len(page)
       /\ \A i \in 1 .. Len(p) + Len(page) : u[i] = IF i <= Len(p) THEN p[i] ELSE page[i - Len(p)]
    BY <1>12, ConcatProperties
<1> HIDE DEF u
<1>14. Len(p) + Len(page) = k + n /\ Len(p) = k
    BY <1>8, <1>10
<1>15. u \in Seq(Nat) /\ Len(u) = k + n
    BY <1>13, <1>14
<1>16. ASSUME NEW i \in 1 .. k + n PROVE u[i] = q[i]
    <2>1. u[i] = IF i <= k THEN p[i] ELSE page[i - k]
        BY <1>13, <1>14, <1>16
    <2>2. q[i] = top - i + 1
        BY <1>11, <1>16
    <2>3. CASE i <= k
        <3>1. i \in 1 .. k
            BY <1>1, <1>4, <1>16, <2>3
        <3>2. QED
            BY <1>10, <2>1, <2>2, <2>3, <3>1
    <2>4. CASE ~(i <= k)
        <3>1. i - k \in 1 .. n /\ k + (i - k) = i
            BY <1>1, <1>4, <1>16, <2>4
        <3>2. page[i - k] = top - i + 1
            BY <1>9, <3>1
        <3>3. QED
            BY <2>1, <2>2, <2>4, <3>2
    <2>5. QED
        BY <2>3, <2>4
<1>17. u = q
    BY <1>11, <1>15, <1>16, SeqEqual
<1>18. Len(page) = P => k + n >= 1
    BY <1>1, <1>4, <1>8
<1>19. QED
    BY <1>4, <1>8, <1>17, <1>18 DEF u, p, q, n, Followed

LEMMA PageIs ==
    ASSUME ChainOK, CalledOK, progress = "asking", source.kind # "bitcoind",
           NEW a \in ScriptAddrs, ReadOK(reading, a)
    PROVE  \E top \in 0 .. Len(histories[a]) : \E k \in 0 .. top :
              /\ reading \o NextPage(a) = Pages(top, k) /\ Len(seenAtStart[a]) <= top
              /\ Len(NextPage(a)) # NbTxsPerPage => k = top
              /\ Len(NextPage(a)) = NbTxsPerPage => k >= 1
<1>1. PICK h \in Nat : h = Len(histories[a]) /\ histories[a] = NewestFirst(h)
    BY HistoryIs
<1>2. PICK P \in Nat \ {0} : P = NbTxsPerPage
    BY SourcesAssumption
<1>3. \E top \in 0 .. h : \E k \in 0 .. top :
          /\ reading = Pages(top, k) /\ Len(seenAtStart[a]) <= top
          /\ (reading = <<>> => k = 0 /\ top = h) /\ (reading # <<>> => k > 0)
    <2>1. CASE reading = <<>>
        <3>1. PICK m \in 0 .. h : seenAtStart[a] = NewestFirst(m)
            BY <1>1 DEF CalledOK
        <3>2. m \in Nat /\ m <= h
            OBVIOUS
        <3>3. Len(seenAtStart[a]) = m
            BY <3>1, <3>2, NewestFirstIs
        <3>4. Pages(h, 0) \in Seq(Nat) /\ Len(Pages(h, 0)) = 0
            BY PagesIs
        <3>5. reading = Pages(h, 0)
            BY <2>1, <3>4
        <3>6. h \in 0 .. h /\ 0 \in 0 .. h /\ Len(seenAtStart[a]) <= h
            BY <3>2, <3>3
        <3>7. QED
            BY <2>1, <3>5, <3>6
    <2>2. CASE reading # <<>>
        <3>1. PICK top \in 1 .. h : \E k \in 1 .. top :
                   reading = Pages(top, k) /\ Len(seenAtStart[a]) <= top
            BY <1>1, <2>2 DEF ReadOK
        <3>2. PICK k \in 1 .. top : reading = Pages(top, k) /\ Len(seenAtStart[a]) <= top
            BY <3>1
        <3>3. top \in 0 .. h /\ k \in 0 .. top /\ k > 0
            OBVIOUS
        <3>4. QED
            BY <2>2, <3>2, <3>3
    <2>3. QED
        BY <2>1, <2>2
<1>4. PICK top \in 0 .. h : \E k \in 0 .. top :
          /\ reading = Pages(top, k) /\ Len(seenAtStart[a]) <= top
          /\ (reading = <<>> => k = 0 /\ top = h) /\ (reading # <<>> => k > 0)
    BY <1>3
<1>5. PICK k \in 0 .. top :
          /\ reading = Pages(top, k) /\ Len(seenAtStart[a]) <= top
          /\ (reading = <<>> => k = 0 /\ top = h) /\ (reading # <<>> => k > 0)
    BY <1>4
<1>6. PICK s : s = NewestFirst(h)
    OBVIOUS
<1>7. Len(s) = h /\ \A i \in 1 .. h : s[i] = h - i + 1
    BY <1>6, NewestFirstIs
<1> DEFINE from == CHOOSE i \in 0 .. h : IF reading = <<>> THEN i = 0 ELSE i > 0 /\ s[i] = reading[Len(reading)]
<1>8. from = h - top + k
    <2>1. CASE reading = <<>>
        <3>1. from = 0
            BY <2>1
        <3>2. k = 0 /\ top = h
            BY <1>5, <2>1
        <3>3. QED
            BY <3>1, <3>2
    <2>2. CASE reading # <<>>
        <3>1. k > 0 /\ k \in Nat /\ top \in Nat /\ top <= h /\ k <= top
            BY <1>5, <2>2
        <3>2. Len(reading) = k /\ reading[k] = top - k + 1
            <4>1. top \in Nat /\ k \in 0 .. top /\ k \in 1 .. k
                BY <3>1
            <4>2. Len(Pages(top, k)) = k /\ \A i \in 1 .. k : Pages(top, k)[i] = top - i + 1
                BY <4>1, PagesIs
            <4>3. reading = Pages(top, k)
                BY <1>5
            <4>4. QED
                BY <4>1, <4>2, <4>3
        <3>3. PICK x : x = h - top + k
            OBVIOUS
        <3>4. x \in 0 .. h /\ x > 0 /\ x \in 1 .. h /\ h - x + 1 = top - k + 1
            BY <3>1, <3>3
        <3>5. s[x] = top - k + 1
            BY <1>7, <3>4
        <3>6. \A i \in 0 .. h : i > 0 /\ s[i] = top - k + 1 => i = x
            <4>1. TAKE i \in 0 .. h
            <4>2. HAVE i > 0 /\ s[i] = top - k + 1
            <4>3. i \in 1 .. h
                BY <4>2
            <4>4. h - i + 1 = top - k + 1
                BY <1>7, <4>2, <4>3
            <4>5. QED
                BY <3>1, <3>3, <4>3, <4>4
        <3>7. from = CHOOSE i \in 0 .. h : i > 0 /\ s[i] = top - k + 1
            BY <2>2, <3>2
        <3> HIDE DEF from
        <3>8. from = x
            BY <3>4, <3>5, <3>6, <3>7
        <3>9. QED
            BY <3>3, <3>8
    <2>3. QED
        BY <2>1, <2>2
<1> DEFINE to == IF from + P < h THEN from + P ELSE h
<1>9. NextPage(a) = SubSeq(s, from + 1, to)
    BY <1>1, <1>2, <1>6, <1>7 DEF NextPage
<1> HIDE DEF from
<1>10. PICK t : t = IF from + P < h THEN from + P ELSE h
    OBVIOUS
<1>11. PICK page : page = SubSeq(NewestFirst(h), from + 1, t)
    OBVIOUS
<1>12. NextPage(a) = page
    BY <1>6, <1>9, <1>10, <1>11
<1>13. PICK f : f = from
    OBVIOUS
<1>19. f = h - top + k
    BY <1>8, <1>13
<1>21. t = IF f + P < h THEN f + P ELSE h
    BY <1>10, <1>13
<1>20. page = SubSeq(NewestFirst(h), f + 1, t)
    BY <1>11, <1>13
<1>14. Followed(page, top, k, t - f, P)
    BY <1>19, <1>20, <1>21, PageFollows
<1>15. PICK n : n = k + (t - f)
    OBVIOUS
<1>16. /\ n \in 0 .. top /\ reading \o NextPage(a) = Pages(top, n)
       /\ Len(NextPage(a)) # NbTxsPerPage => n = top
       /\ Len(NextPage(a)) = NbTxsPerPage => n >= 1
    BY <1>2, <1>5, <1>12, <1>14, <1>15 DEF Followed
<1>17. top \in 0 .. Len(histories[a])
    BY <1>1
<1>18. QED
    BY <1>5, <1>16, <1>17

\* What Esplora told of an address: all its pages, or that it has too many transactions
LEMMA EsploraTold ==
    ASSUME ChainOK, CalledOK, progress = "asking", source.kind # "bitcoind",
           NEW a \in ScriptAddrs, ReadOK(reading, a), NEW txids, txids = reading \o NextPage(a),
           NEW full \in BOOLEAN, full = (Len(NextPage(a)) = NbTxsPerPage),
           full => TooManyTxs(Len(txids))
    PROVE  Told(Info(a, IF full THEN <<>> ELSE txids), a)
<1>1. PICK h \in Nat : h = Len(histories[a])
    BY HistoryIs
<1>2. PICK top \in 0 .. h : \E k \in 0 .. top :
          /\ txids = Pages(top, k) /\ Len(seenAtStart[a]) <= top
          /\ (~full => k = top)
    BY <1>1, PageIs
<1>3. PICK k \in 0 .. top : /\ txids = Pages(top, k) /\ Len(seenAtStart[a]) <= top
                            /\ (~full => k = top)
    BY <1>2
<1>4. top \in Nat /\ k \in Nat /\ k <= top /\ top <= h
    OBVIOUS
<1>5. Len(txids) = k
    BY <1>3, <1>4, PagesIs
<1>6. CASE full
    <2>1. TooManyTxs(h)
        BY <1>4, <1>5, <1>6, TooManyIfMore
    <2>2. Info(a, IF full THEN <<>> ELSE txids) = Info(a, NewestFirst(0))
        BY <1>6, NewestFirstZero
    <2>3. 0 \in 0 .. Len(histories[a]) /\ TooManyTxs(Len(histories[a]))
        BY <1>1, <2>1
    <2>4. QED
        BY <2>2, <2>3 DEF Told
<1>7. CASE ~full
    <2>1. txids = NewestFirst(top)
        BY <1>3, <1>4, <1>7, NewestFirstIs
    <2>2. Info(a, IF full THEN <<>> ELSE txids) = Info(a, NewestFirst(top))
        BY <1>7, <2>1
    <2>3. top \in 0 .. Len(histories[a])
        BY <1>1, <1>4
    <2>4. QED
        BY <1>3, <2>2, <2>3 DEF Told
<1>8. QED
    BY <1>6, <1>7

\* A page is read, and one more is to come.
LEMMA EsploraReads ==
    ASSUME ChainOK, CalledOK, progress = "asking", source.kind # "bitcoind",
           NEW a \in ScriptAddrs, ReadOK(reading, a), Len(NextPage(a)) = NbTxsPerPage
    PROVE  ReadOK(reading \o NextPage(a), a)
<1>1. PICK h \in Nat : h = Len(histories[a])
    BY HistoryIs
<1>2. PICK txids : txids = reading \o NextPage(a)
    OBVIOUS
<1>3. PICK top \in 0 .. h : \E k \in 0 .. top :
          txids = Pages(top, k) /\ Len(seenAtStart[a]) <= top /\ k >= 1
    BY <1>1, <1>2, PageIs
<1>4. PICK k \in 0 .. top : txids = Pages(top, k) /\ Len(seenAtStart[a]) <= top /\ k >= 1
    BY <1>3
<1>5. top \in 1 .. Len(histories[a]) /\ k \in 1 .. top
    BY <1>1, <1>4
<1>6. ReadOK(txids, a)
    BY <1>4, <1>5 DEF ReadOK
<1>7. QED
    BY <1>2, <1>6

LEMMA EsploraPageHolds ==
    ASSUME SourcesIInv, Replying, EsploraPage
    PROVE  SourcesIInv'
<1>1. source.kind = "esplora" /\ source.kind # "bitcoind"
    BY DEF EsploraPage
<1>2. ChainOK /\ CalledOK /\ progress = "asking" /\ question.addresses \in Seq(ScriptAddrs)
    BY ReplyingFacts
<1>3. PICK as : as = question.addresses
    OBVIOUS
<1>4. as \in Seq(ScriptAddrs) /\ Len(as) \in Nat /\ DOMAIN as = 1 .. Len(as)
    BY <1>2, <1>3
<1>5. /\ got \in Seq(Answers) /\ Len(got) < Len(as)
      /\ \A i \in DOMAIN got : Told(got[i], as[i])
    BY <1>1, <1>2, <1>3 DEF SourcesIInv, AskingOK, GotFromEsplora
<1>6. PICK l \in Nat : l = Len(got) /\ DOMAIN got = 1 .. l
    BY <1>5
<1>18. PICK n \in Nat : n = Len(as) /\ DOMAIN as = 1 .. n
    BY <1>4
<1>19. l < n
    BY <1>5, <1>6, <1>18
<1>7. l + 1 \in 1 .. n
    BY <1>19
<1>8. PICK a \in ScriptAddrs : a = as[l + 1]
    <2>1. as[l + 1] \in Elements(as)
        BY <1>7, <1>18 DEF Elements
    <2>2. Elements(as) \subseteq ScriptAddrs
        BY <1>4, ElementsIn
    <2>3. QED
        BY <2>1, <2>2
<1>9. ReadOK(reading, a)
    BY <1>1, <1>2, <1>3, <1>6, <1>8 DEF SourcesIInv, AskingOK
<1>10. PICK page, txids : page = NextPage(a) /\ txids = reading \o page
    OBVIOUS
<1>11. PICK full \in BOOLEAN : full = (Len(page) = NbTxsPerPage)
    OBVIOUS
<1>12. PICK r : r = Info(a, IF full THEN <<>> ELSE txids)
    OBVIOUS
<1>13. IF full /\ ~TooManyTxs(Len(txids))
       THEN reading' = txids /\ UNCHANGED <<got, returned, progress>>
       ELSE reading' = <<>> /\ Collect(Append(got, r), Len(as), Append(got, r))
    BY <1>3, <1>6, <1>8, <1>10, <1>11, <1>12 DEF EsploraPage
<1>14. source' = source /\ question' = question /\ histories' = histories
       /\ seenAtStart' = seenAtStart
    BY DEF Replying
<1>15. CASE full /\ ~TooManyTxs(Len(txids))
    <2>1. reading' = txids /\ UNCHANGED <<got, returned, progress>>
        BY <1>13, <1>15
    <2>2. \A i \in DOMAIN got : Told(got[i], question.addresses[i])'
        <3>1. TAKE i \in DOMAIN got
        <3>2. PICK q, b : q = got[i] /\ b = as[i]
            OBVIOUS
        <3>3. Told(q, b)
            BY <1>5, <3>2
        <3>4. Told(q, b)'
            BY <3>3, ToldStill
        <3>5. q = got'[i] /\ b = question'.addresses[i]
            BY <1>3, <1>14, <2>1, <3>2
        <3>6. QED
            BY <3>4, <3>5 DEF Told, TooManyTxs
    <2>3. GotFromEsplora'
        BY <1>3, <1>5, <1>14, <2>1, <2>2 DEF GotFromEsplora
    <2>4. ReadOK(txids, a)
        BY <1>1, <1>2, <1>9, <1>10, <1>11, <1>15, EsploraReads
    <2>5. a = question'.addresses[Len(got') + 1]
        BY <1>3, <1>6, <1>8, <1>14, <2>1
    <2>6. ReadOK(reading, question.addresses[Len(got) + 1])'
        BY <1>14, <2>1, <2>4, <2>5 DEF ReadOK
    <2>7. AskingOK'
        BY <1>1, <1>14, <2>3, <2>6 DEF AskingOK
    <2>8. QED
        BY <2>1, <2>7, ContinueHolds
<1>16. CASE ~(full /\ ~TooManyTxs(Len(txids)))
    <2>1. reading' = <<>> /\ Collect(Append(got, r), Len(as), Append(got, r))
        BY <1>13, <1>16
    <2>2. Told(r, a)
        BY <1>1, <1>2, <1>9, <1>10, <1>11, <1>12, <1>16, EsploraTold
    <2>3. r \in Answers
        BY <1>1, <1>2, <2>2, ToldRight
    <2>4. PICK g : g = Append(got, r)
        OBVIOUS
    <2>5. /\ g \in Seq(Answers) /\ Len(g) = l + 1 /\ g[l + 1] = r
          /\ \A i \in 1 .. l : g[i] = got[i]
        BY <1>5, <1>6, <2>3, <2>4, AppendProperties
    <2>6. DOMAIN g = 1 .. l + 1
        BY <2>5
    <2>7. \A i \in DOMAIN g : Told(g[i], as[i])
        <3>1. TAKE i \in DOMAIN g
        <3>2. i \in 1 .. l \/ i = l + 1
            BY <2>6
        <3>3. CASE i \in 1 .. l
            BY <1>5, <1>6, <2>5, <3>3
        <3>4. CASE i = l + 1
            BY <1>8, <2>2, <2>5, <3>4
        <3>5. QED
            BY <3>2, <3>3, <3>4
    <2>8. Cardinality(DOMAIN g) = l + 1
        <3>1. 1 \in Int /\ l + 1 \in Int /\ ~(1 > l + 1) /\ (l + 1) - 1 + 1 = l + 1
            OBVIOUS
        <3>2. QED
            BY <2>6, <3>1, FS_Interval
    <2>9. /\ got' = g
          /\ IF l + 1 = Len(as) THEN Return(g) ELSE UNCHANGED <<returned, progress>>
        BY <2>1, <2>4, <2>8 DEF Collect
    <2>10. CASE l + 1 = Len(as)
        <3>1. DOMAIN g = DOMAIN as
            BY <1>18, <2>6, <2>10
        <3>2. Elements(as) = Elements(question.addresses)
            BY <1>3
        <3>3. Covers(g)
            BY <1>1, <1>2, <1>4, <2>5, <2>7, <3>1, <3>2, CollectedCovers
        <3>4. Thinned(g, g) /\ Return(g)
            BY <2>5, <2>9, <2>10, ThinnedItself
        <3>5. QED
            BY <3>3, <3>4, ReturnThinned
    <2>11. CASE l + 1 # Len(as)
        <3>1. UNCHANGED <<returned, progress>> /\ got' = g
            BY <2>9, <2>11
        <3>2. l + 1 < Len(as)
            <4>1. n = Len(as)
                BY <1>18
            <4>2. l + 1 # n
                BY <2>11, <4>1
            <4>3. l + 1 < n
                BY <1>19, <4>2
            <4>4. QED
                BY <4>1, <4>3
        <3>3. \A i \in DOMAIN g : Told(got[i], question.addresses[i])'
            <4>1. TAKE i \in DOMAIN g
            <4>2. PICK q, b : q = g[i] /\ b = as[i]
                OBVIOUS
            <4>3. Told(q, b)
                BY <2>7, <4>2
            <4>4. Told(q, b)'
                BY <4>3, ToldStill
            <4>5. q = got'[i] /\ b = question'.addresses[i]
                BY <1>3, <1>14, <3>1, <4>2
            <4>6. QED
                BY <4>4, <4>5 DEF Told, TooManyTxs
        <3>4. GotFromEsplora'
            BY <1>3, <1>14, <2>5, <3>1, <3>2, <3>3 DEF GotFromEsplora
        <3>5. ReadOK(reading, question.addresses[Len(got) + 1])'
            BY <2>1 DEF ReadOK
        <3>6. AskingOK'
            BY <1>1, <1>14, <3>4, <3>5 DEF AskingOK
        <3>7. QED
            BY <3>1, <3>6, ContinueHolds
    <2>12. QED
        BY <2>10, <2>11
<1>17. QED
    BY <1>15, <1>16

-----------------------------------------------------------------------------
(* A local indexer, by batches or by a pool of requests *)

\* Some more of the script hashes are answered.
LEMMA CollectHolds ==
    ASSUME SourcesIInv, Replying, source.kind = "indexer", UNCHANGED reading,
           NEW g, DOMAIN g \subseteq DOMAIN ScriptHashes,
           \A i \in DOMAIN g : Told(g[i], ScriptHashes[i]),
           (DOMAIN g = DOMAIN ScriptHashes \/ source.batch) => g \in Seq(Answers),
           Collect(g, Len(ScriptHashes), WithFewTxs(g))
    PROVE  SourcesIInv'
<1>1. source.kind # "bitcoind" /\ ChainOK /\ CalledOK /\ progress = "asking"
      /\ question.addresses \in Seq(ScriptAddrs)
    BY ReplyingFacts
<1>2. PICK hashes : hashes = ScriptHashes
    OBVIOUS
<1>3. hashes \in Seq(ScriptAddrs) /\ Elements(hashes) = Elements(question.addresses)
    BY <1>1, <1>2, ScriptHashesIs
<1>4. PICK n \in Nat : n = Len(hashes) /\ DOMAIN hashes = 1 .. n
    BY <1>3
<1>5. source' = source /\ question' = question /\ progress = "asking"
    BY DEF Replying
<1>6. /\ got' = g
      /\ IF Cardinality(DOMAIN g) = n THEN Return(WithFewTxs(g))
         ELSE UNCHANGED <<returned, progress>>
    BY <1>2, <1>4 DEF Collect
<1>7. CASE Cardinality(DOMAIN g) = n
    <2>1. IsFiniteSet(1 .. n) /\ Cardinality(1 .. n) = n
        <3>1. 1 \in Int /\ n \in Int /\ (IF 1 > n THEN 0 ELSE n - 1 + 1) = n
            OBVIOUS
        <3>2. QED
            BY <3>1, FS_Interval
    <2>2. DOMAIN g \in SUBSET (1 .. n)
        BY <1>2, <1>4
    <2>3. DOMAIN g = 1 .. n
        BY <1>7, <2>1, <2>2, FS_Subset
    <2>4. DOMAIN g = DOMAIN hashes /\ g \in Seq(Answers)
        BY <1>2, <1>4, <2>3
    <2>5. \A i \in DOMAIN g : Told(g[i], hashes[i])
        BY <1>2
    <2>6. Covers(g)
        BY <1>1, <1>3, <2>4, <2>5, CollectedCovers
    <2>7. PICK list : list = WithFewTxs(g)
        OBVIOUS
    <2>8. Thinned(list, g) /\ Return(list)
        BY <1>6, <1>7, <2>4, <2>7, WithFewTxsThins
    <2>9. QED
        BY <2>6, <2>8, ReturnThinned
<1>8. CASE Cardinality(DOMAIN g) # n
    <2>1. UNCHANGED <<returned, progress>>
        BY <1>6, <1>8
    <2>2. ScriptHashes' = ScriptHashes
        BY <1>5 DEF ScriptHashes
    <2>3. \A i \in DOMAIN g : Told(got[i], ScriptHashes[i])'
        <3>1. TAKE i \in DOMAIN g
        <3>2. PICK q, b : q = g[i] /\ b = ScriptHashes[i]
            OBVIOUS
        <3>3. Told(q, b)
            BY <3>2
        <3>4. Told(q, b)'
            BY <3>3, ToldStill
        <3>5. q = got'[i] /\ b = ScriptHashes'[i]
            BY <1>6, <2>2, <3>2
        <3>6. QED
            BY <3>4, <3>5 DEF Told, TooManyTxs
    <2>4. GotFromIndexer'
        BY <1>5, <1>6, <2>2, <2>3 DEF GotFromIndexer
    <2>5. source'.kind # "esplora"
        BY <1>5
    <2>6. AskingOK'
        BY <2>4, <2>5 DEF AskingOK
    <2>7. QED
        BY <2>1, <2>6, ContinueHolds
<1>9. QED
    BY <1>7, <1>8

LEMMA IndexerBatchHolds ==
    ASSUME SourcesIInv, Replying, IndexerBatch
    PROVE  SourcesIInv'
<1> DEFINE hashes == ScriptHashes
           to == IF Len(got) + ScriptHashChunk < Len(hashes) THEN Len(got) + ScriptHashChunk
                 ELSE Len(hashes)
           g == [i \in 1 .. to |-> IF i <= Len(got) THEN got[i]
                                   ELSE Info(hashes[i], histories[hashes[i]])]
<1>1. /\ source.kind = "indexer" /\ source.batch /\ UNCHANGED reading
      /\ Collect(g, Len(hashes), WithFewTxs(g))
    BY DEF IndexerBatch
<1>2. source.kind # "bitcoind" /\ ChainOK /\ CalledOK /\ progress = "asking"
      /\ question.addresses \in Seq(ScriptAddrs)
    BY <1>1, ReplyingFacts
<1> HIDE DEF hashes
<1>3. hashes \in Seq(ScriptAddrs)
    BY <1>2, ScriptHashesIs DEF hashes
<1>4. PICK n \in Nat : n = Len(hashes) /\ DOMAIN hashes = 1 .. n
    BY <1>3
<1>5. /\ DOMAIN got \subseteq DOMAIN hashes /\ got \in Seq(Answers)
      /\ \A i \in DOMAIN got : Told(got[i], hashes[i])
    BY <1>1, <1>2 DEF SourcesIInv, AskingOK, GotFromIndexer, hashes
<1>6. PICK l \in Nat : l = Len(got) /\ DOMAIN got = 1 .. l
    BY <1>5
<1>7. l <= n
    <2>1. CASE l = 0
        BY <2>1
    <2>2. CASE l # 0
        <3>1. l \in DOMAIN got
            BY <1>6, <2>2
        <3>2. l \in 1 .. n
            BY <1>4, <1>5, <3>1
        <3>3. QED
            BY <3>2
    <2>3. QED
        BY <2>1, <2>2
<1>8. PICK k \in Nat : k = ScriptHashChunk
    BY SourcesAssumption
<1>9. PICK t : t = to
    OBVIOUS
<1>10. t \in Nat /\ l <= t /\ t <= n
    <2>1. t = IF l + k < n THEN l + k ELSE n
        BY <1>4, <1>6, <1>8, <1>9
    <2>2. QED
        BY <1>7, <2>1
<1>11. g = [i \in 1 .. t |-> IF i <= l THEN got[i] ELSE Info(hashes[i], histories[hashes[i]])]
    BY <1>6, <1>9
<1> HIDE DEF g, to
<1>12. DOMAIN g = 1 .. t
    BY <1>11
<1>13. ASSUME NEW i \in 1 .. t PROVE Told(g[i], hashes[i]) /\ g[i] \in Answers
    <2>1. i \in DOMAIN hashes
        BY <1>4, <1>10, <1>13
    <2>2. PICK b \in ScriptAddrs : b = hashes[i]
        <3>1. hashes[i] \in Elements(hashes)
            BY <2>1 DEF Elements
        <3>2. Elements(hashes) \subseteq ScriptAddrs
            BY <1>3, ElementsIn
        <3>3. QED
            BY <3>1, <3>2
    <2>3. PICK r : r = g[i]
        OBVIOUS
    <2>4. CASE i <= l
        <3>1. i \in DOMAIN got
            BY <1>6, <1>13, <2>4
        <3>2. r = got[i]
            BY <1>11, <1>13, <2>3, <2>4
        <3>3. Told(r, b)
            BY <1>5, <2>2, <3>1, <3>2
        <3>4. QED
            BY <1>2, <2>2, <2>3, <3>3, ToldRight
    <2>5. CASE ~(i <= l)
        <3>1. r = Info(b, histories[b])
            BY <1>11, <1>13, <2>2, <2>3, <2>5
        <3>2. Told(r, b)
            BY <1>2, <3>1, HistoryTold
        <3>3. QED
            BY <1>2, <2>2, <2>3, <3>2, ToldRight
    <2>6. QED
        BY <2>4, <2>5
<1>14. g \in Seq(Answers)
    <2>1. g = [i \in 1 .. t |-> g[i]]
        BY <1>11
    <2>2. \A i \in 1 .. t : g[i] \in Answers
        BY <1>13
    <2>3. QED
        BY <1>10, <2>1, <2>2
<1>15. DOMAIN g \subseteq DOMAIN hashes
    BY <1>4, <1>10, <1>12
<1>16. \A i \in DOMAIN g : Told(g[i], hashes[i])
    BY <1>12, <1>13
<1>17. PICK gg : gg = g
    OBVIOUS
<1>18. /\ DOMAIN gg \subseteq DOMAIN ScriptHashes
       /\ \A i \in DOMAIN gg : Told(gg[i], ScriptHashes[i])
       /\ gg \in Seq(Answers)
       /\ Collect(gg, Len(ScriptHashes), WithFewTxs(gg))
    BY <1>1, <1>14, <1>15, <1>16, <1>17 DEF hashes
<1>19. QED
    BY <1>1, <1>18, CollectHolds

LEMMA IndexerReplyHolds ==
    ASSUME SourcesIInv, Replying, NEW i, IndexerReply(i)
    PROVE  SourcesIInv'
<1> DEFINE hashes == ScriptHashes
           g == [j \in DOMAIN got \cup {i} |->
                   IF j = i THEN Info(hashes[i], histories[hashes[i]]) ELSE got[j]]
<1>1. /\ source.kind = "indexer" /\ ~source.batch /\ UNCHANGED reading
      /\ i \in DOMAIN hashes \ DOMAIN got
      /\ Collect(g, Len(hashes), WithFewTxs(g))
    BY DEF IndexerReply
<1>2. source.kind # "bitcoind" /\ ChainOK /\ CalledOK /\ progress = "asking"
      /\ question.addresses \in Seq(ScriptAddrs)
    BY <1>1, ReplyingFacts
<1> HIDE DEF hashes
<1>3. hashes \in Seq(ScriptAddrs)
    BY <1>2, ScriptHashesIs DEF hashes
<1>4. PICK n \in Nat : n = Len(hashes) /\ DOMAIN hashes = 1 .. n
    BY <1>3
<1>5. /\ DOMAIN got \subseteq DOMAIN hashes
      /\ \A j \in DOMAIN got : Told(got[j], hashes[j])
    BY <1>1, <1>2 DEF SourcesIInv, AskingOK, GotFromIndexer, hashes
<1>6. PICK r : r = Info(hashes[i], histories[hashes[i]])
    OBVIOUS
<1>7. g = [j \in DOMAIN got \cup {i} |-> IF j = i THEN r ELSE got[j]]
    BY <1>6
<1> HIDE DEF g
<1>8. /\ DOMAIN g = DOMAIN got \cup {i} /\ g[i] = r
      /\ \A j \in DOMAIN got : g[j] = got[j]
    BY <1>1, <1>7
<1>9. DOMAIN g \subseteq DOMAIN hashes
    BY <1>1, <1>5, <1>8
<1>10. ASSUME NEW j \in DOMAIN g PROVE Told(g[j], hashes[j]) /\ g[j] \in Answers
    <2>1. PICK b \in ScriptAddrs : b = hashes[j]
        <3>1. hashes[j] \in Elements(hashes)
            BY <1>9, <1>10 DEF Elements
        <3>2. Elements(hashes) \subseteq ScriptAddrs
            BY <1>3, ElementsIn
        <3>3. QED
            BY <3>1, <3>2
    <2>2. PICK q : q = g[j]
        OBVIOUS
    <2>3. CASE j \in DOMAIN got
        <3>1. Told(q, b)
            BY <1>5, <1>8, <2>1, <2>2, <2>3
        <3>2. QED
            BY <1>2, <2>1, <2>2, <3>1, ToldRight
    <2>4. CASE j = i
        <3>1. q = Info(b, histories[b])
            BY <1>6, <1>8, <2>1, <2>2, <2>4
        <3>2. Told(q, b)
            BY <1>2, <3>1, HistoryTold
        <3>3. QED
            BY <1>2, <2>1, <2>2, <3>2, ToldRight
    <2>5. QED
        BY <1>8, <1>10, <2>3, <2>4
<1>11. ASSUME DOMAIN g = DOMAIN hashes PROVE g \in Seq(Answers)
    <2>1. DOMAIN g = 1 .. n
        BY <1>4, <1>11
    <2>2. g = [j \in 1 .. n |-> g[j]]
        BY <1>7, <1>8, <2>1
    <2>3. \A j \in 1 .. n : g[j] \in Answers
        BY <1>10, <2>1
    <2>4. QED
        BY <2>2, <2>3
<1>12. PICK gg : gg = g
    OBVIOUS
<1>13. /\ DOMAIN gg \subseteq DOMAIN ScriptHashes
       /\ \A j \in DOMAIN gg : Told(gg[j], ScriptHashes[j])
       /\ (DOMAIN gg = DOMAIN ScriptHashes \/ source.batch) => gg \in Seq(Answers)
       /\ Collect(gg, Len(ScriptHashes), WithFewTxs(gg))
    BY <1>1, <1>9, <1>10, <1>11, <1>12 DEF hashes
<1>14. QED
    BY <1>1, <1>13, CollectHolds

-----------------------------------------------------------------------------
(* The steps together *)

LEMMA SourceRepliesHolds ==
    ASSUME SourcesIInv, SourceReplies
    PROVE  SourcesIInv'
<1>1. Replying
    BY DEF SourceReplies, Replying, chainVars, strictVars
<1>2. CASE EsploraPage
    BY <1>1, <1>2, EsploraPageHolds
<1>3. CASE IndexerBatch
    BY <1>1, <1>3, IndexerBatchHolds
<1>4. CASE RestReply
    BY <1>1, <1>4, RestReplyHolds
<1>5. CASE BitcoindReply
    BY <1>1, <1>5, BitcoindReplyHolds
<1>6. CASE OxtReply
    BY <1>1, <1>6, OxtReplyHolds
<1>7. ASSUME NEW i \in 1 .. Len(question.addresses), IndexerReply(i) PROVE SourcesIInv'
    BY <1>1, <1>7, IndexerReplyHolds
<1>8. QED
    BY <1>2, <1>3, <1>4, <1>5, <1>6, <1>7 DEF SourceReplies

LEMMA SourcesStutterHolds ==
    ASSUME SourcesIInv, UNCHANGED sourceVars
    PROVE  SourcesIInv'
<1>1. /\ UNCHANGED source /\ UNCHANGED histories /\ UNCHANGED unspents
      /\ UNCHANGED question /\ UNCHANGED seenAtStart /\ UNCHANGED got /\ UNCHANGED reading
      /\ UNCHANGED returned /\ UNCHANGED progress /\ UNCHANGED sourceErrors
      /\ UNCHANGED vouts /\ UNCHANGED usedInDb /\ UNCHANGED faultyOutputs
    BY DEF sourceVars, chainVars, callVars, strictVars
<1>2. StatesOK'
    BY <1>1 DEF SourcesIInv, StatesOK
<1>3. ChainOK'
    <2>1. ChainOK
        BY DEF SourcesIInv
    <2>2. UNCHANGED histories /\ UNCHANGED unspents
        BY <1>1
    <2>3. \A a \in ScriptAddrs : Elements(unspents'[a]) \subseteq Elements(histories'[a])
        BY <2>1, <2>2 DEF ChainOK
    <2>4. /\ histories' \in [ScriptAddrs -> Seq(Nat)] /\ unspents' \in [ScriptAddrs -> Seq(Nat)]
          /\ \A a \in ScriptAddrs : histories'[a] = NewestFirst(Len(histories'[a]))
        BY <2>1, <2>2 DEF ChainOK
    <2>5. QED
        BY <2>3, <2>4 DEF ChainOK
<1>4. IdleOK'
    BY <1>1 DEF SourcesIInv, IdleOK
<1>5. ResultOK'
    BY <1>1 DEF SourcesIInv, ResultOK
<1>6. CalledOK'
    BY <1>1 DEF SourcesIInv, CalledOK
<1>7. \A r, a : Told(r, a)' <=> Told(r, a)
    BY <1>1 DEF Told, TooManyTxs
<1>8. GotFromEsplora => GotFromEsplora'
    <2> SUFFICES ASSUME GotFromEsplora PROVE GotFromEsplora'
        OBVIOUS
    <2>1. /\ got \in Seq(Answers) /\ Len(got) < Len(question.addresses)
          /\ \A i \in DOMAIN got : Told(got[i], question.addresses[i])
        BY DEF GotFromEsplora
    <2>2. ASSUME NEW i \in DOMAIN got PROVE Told(got[i], question.addresses[i])'
        <3>1. PICK r, a : r = got[i] /\ a = question.addresses[i]
            OBVIOUS
        <3>2. Told(r, a)'
            BY <1>7, <2>1, <3>1
        <3>3. r = got'[i] /\ a = question'.addresses[i]
            BY <1>1, <3>1
        <3>4. QED
            BY <3>2, <3>3 DEF Told
    <2>3. QED
        BY <1>1, <2>1, <2>2 DEF GotFromEsplora
<1>9. ScriptHashes' = ScriptHashes
    BY <1>1 DEF ScriptHashes
<1>10. GotFromIndexer => GotFromIndexer'
    <2> SUFFICES ASSUME GotFromIndexer PROVE GotFromIndexer'
        OBVIOUS
    <2>1. /\ DOMAIN got \subseteq DOMAIN ScriptHashes /\ source.batch => got \in Seq(Answers)
          /\ \A i \in DOMAIN got : Told(got[i], ScriptHashes[i])
        BY DEF GotFromIndexer
    <2>2. ASSUME NEW i \in DOMAIN got PROVE Told(got[i], ScriptHashes[i])'
        <3>1. PICK r, a : r = got[i] /\ a = ScriptHashes[i]
            OBVIOUS
        <3>2. Told(r, a)'
            BY <1>7, <2>1, <3>1
        <3>3. r = got'[i] /\ a = (ScriptHashes')[i]
            BY <1>1, <1>9, <3>1
        <3>4. QED
            BY <3>2, <3>3 DEF Told
    <2>3. QED
        BY <1>1, <1>9, <2>1, <2>2 DEF GotFromIndexer
<1>11. ReadOK(reading, question.addresses[Len(got) + 1])
           => ReadOK(reading, question.addresses[Len(got) + 1])'
    BY <1>1 DEF ReadOK
<1>12. AskingOK'
    BY <1>1, <1>8, <1>10, <1>11 DEF SourcesIInv, AskingOK
<1>13. StrictOK'
    BY <1>1 DEF SourcesIInv, StrictOK, Reused, Elements
<1>14. AnswersAreWhole'
    <2>1. AnswersAreWhole
        BY DEF SourcesIInv
    <2>2. UNCHANGED <<source, histories, unspents, question, seenAtStart, returned, progress>>
        BY <1>1
    <2>3. \A a : SeenNow(a)' = SeenNow(a)
        BY <2>2 DEF SeenNow, SeenFrom
    <2>4. \A a : Found(a)' = Found(a)
        BY <2>2 DEF Found, Elements
    <2>5. \A n : TooManyTxs(n)' <=> TooManyTxs(n)
        BY <2>2 DEF TooManyTxs
    <2>6. /\ Elements(question.addresses)' = Elements(question.addresses)
          /\ Elements(returned)' = Elements(returned)
        BY <2>2 DEF Elements
    <2>7. \A a : /\ Elements(seenAtStart[a])' = Elements(seenAtStart[a])
                 /\ Elements(SeenNow(a))' = Elements(SeenNow(a))
        BY <2>2, <2>3 DEF Elements
    <2>8. SUFFICES ASSUME progress = "answered"
          PROVE  AnswersAreWhole'
        BY <2>2 DEF AnswersAreWhole
    <2>9. ASSUME NEW a \in Elements(question.addresses)
          PROVE  \/ (Elements(seenAtStart'[a]) \cap Elements(SeenNow(a)')) \subseteq Found(a)'
                 \/ TooManyTxs(Len(SeenNow(a)))' /\ Found(a)' = {}
                 \/ source'.kind = "oxt" /\ Cardinality(Found(a)') = AddrFilterThreshold + 1
        <3>1. PICK now, found : now = SeenNow(a) /\ found = Found(a)
            OBVIOUS
        <3>2. \/ (Elements(seenAtStart[a]) \cap Elements(now)) \subseteq found
              \/ TooManyTxs(Len(now)) /\ found = {}
              \/ source.kind = "oxt" /\ Cardinality(found) = AddrFilterThreshold + 1
            BY <2>1, <2>8, <2>9, <3>1 DEF AnswersAreWhole
        <3>3. now = SeenNow(a)' /\ found = Found(a)' /\ seenAtStart'[a] = seenAtStart[a]
            BY <2>2, <2>3, <2>4, <3>1
        <3>4. TooManyTxs(Len(now)) => TooManyTxs(Len(SeenNow(a)))'
            BY <2>2, <3>3 DEF TooManyTxs
        <3>5. QED
            BY <2>2, <3>2, <3>3, <3>4
    <2>10. \A r \in Elements(returned) : ~TooManyTxs(r.ntx)' /\ r.ntx = Len(r.txids)
        BY <2>1, <2>2, <2>8 DEF AnswersAreWhole, TooManyTxs
    <2>11. ASSUME NEW a \in ScriptAddrs PROVE Found(a)' \subseteq Elements(SeenNow(a)')
        BY <2>1, <2>3, <2>4, <2>8 DEF AnswersAreWhole
    <2>12. QED
        BY <2>2, <2>6, <2>9, <2>10, <2>11 DEF AnswersAreWhole, Elements
<1>15. StrictModeHolds'
    BY <1>1 DEF SourcesIInv, StrictModeHolds
<1>16. QED
    BY <1>2, <1>3, <1>4, <1>5, <1>6, <1>12, <1>13, <1>14, <1>15 DEF SourcesIInv

LEMMA SourcesNextHolds == SourcesIInv /\ [SourcesNext]_sourceVars => SourcesIInv'
<1> SUFFICES ASSUME SourcesIInv, [SourcesNext]_sourceVars PROVE SourcesIInv'
    OBVIOUS
<1>1. ASSUME NEW a \in ScriptAddrs, Receive(a) PROVE SourcesIInv'
    BY <1>1, ReceiveHolds
<1>2. ASSUME NEW a \in ScriptAddrs, Spend(a) PROVE SourcesIInv'
    BY <1>2, SpendHolds
<1>3. ASSUME NEW as \in AddressLists, NEW filterAddr \in BOOLEAN, GetAddresses(as, filterAddr)
      PROVE  SourcesIInv'
    BY <1>3, GetAddressesHolds
<1>4. CASE SourceReplies
    BY <1>4, SourceRepliesHolds
<1>5. CASE SourceFails
    BY <1>5, SourceFailsHolds
<1>6. ASSUME NEW outs \in AddressLists,
             NEW used \in SUBSET {a \in ScriptAddrs : histories[a] # <<>>},
             EnforceStrictModeVouts(outs, used)
      PROVE  SourcesIInv'
    BY <1>6, EnforceStrictModeHolds
<1>7. CASE PostPushTx
    BY <1>7, PostPushTxHolds
<1>8. CASE UNCHANGED sourceVars
    BY <1>8, SourcesStutterHolds
<1>9. QED
    BY <1>1, <1>2, <1>3, <1>4, <1>5, <1>6, <1>7, <1>8 DEF SourcesNext

\* What every call of Sources.getAddresses keeps from its first request to its answer: the
\* addresses asked for are those of the question, what a wrapper has so far was right when
\* the source told it (Esplora: pages without a gap), nothing of a call is left for the
\* next one, and the strict mode still asks about all the outputs it found no fault with.
THEOREM SourcesInductive == SourcesSpec => []SourcesIInv
<1>1. SourcesInit => SourcesIInv
    BY SourcesInitHolds
<1>2. SourcesIInv /\ [SourcesNext]_sourceVars => SourcesIInv'
    BY SourcesNextHolds
<1>3. QED
    BY <1>1, <1>2, PTL DEF SourcesSpec

\* The variables of a call have their types; a history is numbered without a gap, and no
\* output at fault is outside the transaction (remote-importer/sources.js, pushtx-processor).
THEOREM SourcesTypes == SourcesSpec => []SourcesTypeOK
<1>1. SourcesIInv => SourcesTypeOK
    <2> SUFFICES ASSUME SourcesIInv PROVE SourcesTypeOK
        OBVIOUS
    <2>1. StatesOK /\ ChainOK /\ ResultOK
        BY DEF SourcesIInv
    <2>2. \A a \in ScriptAddrs : Elements(histories[a]) = 1 .. Len(histories[a])
        BY <2>1, HistoryIs
    <2>3. \A a \in ScriptAddrs : Elements(unspents[a]) \subseteq Elements(histories[a])
        BY <2>1 DEF ChainOK
    <2>4. ASSUME NEW r \in Elements(returned)
          PROVE  r.address \in ScriptAddrs /\ Elements(r.txids) \subseteq Nat
        <3>1. returned \in Seq(Answers)
            BY <2>1 DEF ResultOK
        <3>2. r \in Answers
            BY <3>1, ElementsIn
        <3>3. r.address \in ScriptAddrs /\ r.txids \in Seq(Nat)
            BY <3>2 DEF Answers
        <3>4. QED
            BY <3>3, ElementsIn
    <2>5. QED
        BY <2>1, <2>2, <2>3, <2>4 DEF SourcesTypeOK, StatesOK
<1>2. QED
    BY <1>1, SourcesInductive, PTL

\* Whatever the source of data, what Sources.getAddresses returns has all the transactions
\* that an address had from the start of the call to its end, or, of an address with too
\* many of them, none (OXT without the filter: the newest ones up to the limit of its
\* request); and the strict mode of pushtx pushes no transaction with an output to an
\* address that was used, as far as its tables and the source it asked could tell.
THEOREM SourcesTell == SourcesSpec => []SourcesTellAll
<1>1. SourcesIInv => SourcesTellAll
    BY DEF SourcesIInv, SourcesTellAll
<1>2. QED
    BY <1>1, SourcesInductive, PTL

=============================================================================
