---------------------------- MODULE DbWrapperProofs ----------------------------
(***************************************************************************)
(* Proofs about DbWrapper, for any number of calls, connections, retries,  *)
(* lock errors and removals, and inserts and lookups of any length: cut in *)
(* chunks, an insert does what one statement does, and a lookup tells what *)
(* the table was at one moment.                                            *)
(***************************************************************************)
EXTENDS DbWrapper, FiniteSetTheorems, SequenceTheorems, WellFoundedInduction, TLAPS

Entries == [key : RowKeys, val : RowVals, bytes : Nat]

-----------------------------------------------------------------------------
(* Induction on naturals, for sets *)

LEMMA NatSet ==
    ASSUME NEW S \in SUBSET Nat, 0 \in S, \A n \in S : n + 1 \in S
    PROVE  S = Nat
<1>1. SUFFICES ASSUME Nat \ S # {} PROVE FALSE
    OBVIOUS
<1>2. IsWellFoundedOn(OpToRel(<, Nat), Nat)
    BY NatLessThanWellFounded
<1>3. PICK x \in Nat \ S : \A y \in Nat \ S : ~(<<y, x>> \in OpToRel(<, Nat))
    BY <1>1, <1>2, WFMin
<1>4. \A y \in Nat \ S : ~(y < x)
    BY <1>3 DEF OpToRel
<1>5. x \in Nat /\ x \notin S
    BY <1>3
<1>6. x # 0
    BY <1>5
<1>7. x - 1 \in Nat /\ x - 1 < x /\ (x - 1) + 1 = x
    BY <1>5, <1>6
<1>8. x - 1 \in S
    BY <1>4, <1>7
<1>9. QED
    BY <1>5, <1>7, <1>8

-----------------------------------------------------------------------------
(* Rows and keys *)

UniqueKeys(R) == \A r, q \in R : r.key = q.key => r = q
UniqueIds(R) == \A r, q \in R : r.id = q.id => r = q

LEMMA RowOfIs ==
    ASSUME NEW R, NEW k, HasKey(R, k)
    PROVE  RowOf(R, k) \in R /\ RowOf(R, k).key = k
BY DEF HasKey, RowOf

LEMMA RowOfRow ==
    ASSUME NEW R, UniqueKeys(R), NEW r \in R
    PROVE  HasKey(R, r.key) /\ RowOf(R, r.key) = r
BY DEF HasKey, RowOf, UniqueKeys

\* Rows of the same keys are found in both sets if they are the same rows.
LEMMA SameRowOf ==
    ASSUME NEW R, NEW S, NEW k, UniqueKeys(R), UniqueKeys(S),
           \A r : r.key = k => (r \in R <=> r \in S)
    PROVE  (HasKey(R, k) <=> HasKey(S, k)) /\ (HasKey(R, k) => RowOf(R, k) = RowOf(S, k))
<1>1. HasKey(R, k) <=> HasKey(S, k)
    BY DEF HasKey
<1>2. ASSUME HasKey(R, k) PROVE RowOf(R, k) = RowOf(S, k)
    <2>1. RowOf(R, k) \in R /\ RowOf(R, k).key = k
        BY <1>2, RowOfIs
    <2>2. QED
        BY <2>1, RowOfRow
<1>3. QED
    BY <1>1, <1>2

-----------------------------------------------------------------------------
(* One INSERT, row after row *)

\* The state before the first row, and the states after each: the function of Insert
Before(rows, next) ==
    [rows |-> rows, next |-> next, affected |-> 0, first |-> 0, last |-> 0, changed |-> FALSE]

IsRun(f, rows, next, rs, upsert) ==
    f = [i \in 0 .. Len(rs) |-> IF i = 0 THEN Before(rows, next) ELSE InsertRow(upsert, f[i - 1], rs[i])]

Run(rows, next, rs, upsert) == CHOOSE f : IsRun(f, rows, next, rs, upsert)

LEMMA RunExists ==
    ASSUME NEW rows, NEW next, NEW rs, Len(rs) \in Nat, NEW upsert
    PROVE  IsRun(Run(rows, next, rs, upsert), rows, next, rs, upsert)
<1> DEFINE Row(f, i) == IF i = 0 THEN Before(rows, next) ELSE InsertRow(upsert, f[i - 1], rs[i])
           Upto(f, n) == f = [i \in 0 .. n |-> Row(f, i)]
           S == {n \in Nat : \E f : Upto(f, n)}
<1>1. 0 \in S
    <2> DEFINE f == [i \in 0 .. 0 |-> Before(rows, next)]
    <2>1. Upto(f, 0)
        OBVIOUS
    <2>2. QED
        BY <2>1
<1>2. ASSUME NEW n \in Nat, NEW f, Upto(f, n) PROVE \E g : Upto(g, n + 1)
    <2> DEFINE g == [i \in 0 .. n + 1 |-> IF i = n + 1 THEN InsertRow(upsert, f[n], rs[n + 1]) ELSE f[i]]
    <2>1. \A i \in 0 .. n : f[i] = Row(f, i)
        BY <1>2
    <2>2. ASSUME NEW i \in 0 .. n + 1 PROVE g[i] = Row(g, i)
        <3>1. CASE i = n + 1
            BY <3>1
        <3>2. CASE i = 0
            BY <2>1, <3>2
        <3>3. CASE i # 0 /\ i # n + 1
            <4>1. i \in 0 .. n /\ i - 1 \in 0 .. n /\ i - 1 \in 0 .. n + 1 /\ i - 1 # n + 1
                BY <3>3
            <4>2. g[i] = f[i] /\ g[i - 1] = f[i - 1]
                BY <3>3, <4>1
            <4> HIDE DEF g
            <4>3. QED
                BY <2>1, <3>3, <4>1, <4>2
        <3>4. QED
            BY <3>1, <3>2, <3>3
    <2>3. g = [i \in 0 .. n + 1 |-> g[i]]
        OBVIOUS
    <2> HIDE DEF g
    <2>4. g = [i \in 0 .. n + 1 |-> Row(g, i)]
        BY <2>2, <2>3
    <2>5. QED
        BY <2>4
<1>3. S = Nat
    <2> HIDE DEF Upto
    <2>1. \A n \in S : n + 1 \in S
        BY <1>2
    <2>2. QED
        BY <1>1, <2>1, NatSet
<1>4. \E f : Upto(f, Len(rs))
    BY <1>3
<1>5. \E f : IsRun(f, rows, next, rs, upsert)
    BY <1>4 DEF IsRun
<1>6. QED
    BY <1>5 DEF Run

LEMMA RunIs ==
    ASSUME NEW rows, NEW next, NEW rs, Len(rs) \in Nat, NEW upsert
    PROVE  LET f == Run(rows, next, rs, upsert)
           IN  /\ f[0] = Before(rows, next)
               /\ \A i \in 1 .. Len(rs) : f[i] = InsertRow(upsert, f[i - 1], rs[i])
               /\ Insert(rows, next, rs, upsert) = f[Len(rs)]
<1> DEFINE f == Run(rows, next, rs, upsert)
<1>1. IsRun(f, rows, next, rs, upsert)
    BY RunExists
<1>2. Insert(rows, next, rs, upsert) = f[Len(rs)]
    BY DEF Insert, Run, IsRun, Before
<1> HIDE DEF f
<1>3. f[0] = Before(rows, next) /\ \A i \in 1 .. Len(rs) : f[i] = InsertRow(upsert, f[i - 1], rs[i])
    BY <1>1 DEF IsRun
<1>4. QED
    BY <1>2, <1>3 DEF f

RunOf(f, rows, next, rs, upsert) ==
    /\ f[0] = Before(rows, next)
    /\ \A i \in 1 .. Len(rs) : f[i] = InsertRow(upsert, f[i - 1], rs[i])
    /\ Insert(rows, next, rs, upsert) = f[Len(rs)]

LEMMA RunIsOf ==
    ASSUME NEW rows, NEW next, NEW rs, Len(rs) \in Nat, NEW upsert
    PROVE  RunOf(Run(rows, next, rs, upsert), rows, next, rs, upsert)
BY RunIs DEF RunOf

\* What an entry adds to the number of affected rows, if its key has a row
Gain(upsert, old, val) == IF upsert /\ old # val THEN 2 ELSE IF upsert /\ foundRows THEN 1 ELSE 0

\* What a row does: a new row, or the row of that key, which keeps its id
RowEffect(upsert, st, row, after) ==
    LET old == RowOf(st.rows, row.key)
    IN  /\ after.rows \subseteq Rows /\ UniqueKeys(after.rows)
        /\ HasKey(after.rows, row.key)
        /\ \A r : r.key # row.key => (r \in after.rows <=> r \in st.rows)
        /\ after.last = RowOf(after.rows, row.key).id
        /\ ~HasKey(st.rows, row.key) =>
             /\ RowOf(after.rows, row.key) = [key |-> row.key, id |-> st.next, val |-> row.val]
             /\ after.next = st.next + 1 /\ after.affected = st.affected + 1
             /\ after.first = IF st.first = 0 THEN st.next ELSE st.first
             /\ after.changed = st.changed
        /\ HasKey(st.rows, row.key) =>
             /\ RowOf(after.rows, row.key).id = old.id
             /\ RowOf(after.rows, row.key).val = IF upsert THEN row.val ELSE old.val
             /\ after.next = st.next /\ after.first = st.first
             /\ after.affected = st.affected + Gain(upsert, old.val, row.val)
             /\ after.changed = (st.changed \/ (upsert /\ old.val # row.val))

LEMMA RowStep ==
    ASSUME NEW upsert \in BOOLEAN, NEW st, NEW row \in Entries,
           st.rows \subseteq Rows, UniqueKeys(st.rows), st.next \in Nat \ {0}
    PROVE  RowEffect(upsert, st, row, InsertRow(upsert, st, row))
<1> DEFINE after == InsertRow(upsert, st, row)
           old == RowOf(st.rows, row.key)
           new == [key |-> row.key, id |-> st.next, val |-> row.val]
           updated == upsert /\ old.val # row.val
           changedRow == [old EXCEPT !.val = row.val]
<1>1. CASE ~HasKey(st.rows, row.key)
    <2>1. /\ after.rows = st.rows \cup {new} /\ after.next = st.next + 1
          /\ after.affected = st.affected + 1 /\ after.last = st.next
          /\ after.first = IF st.first = 0 THEN st.next ELSE st.first
          /\ after.changed = st.changed
        BY <1>1 DEF InsertRow
    <2>2. new \in Rows /\ new.key = row.key
        BY DEF Rows, Entries
    <2>3. \A r \in st.rows : r.key # row.key
        BY <1>1 DEF HasKey
    <2> HIDE DEF after, new
    <2>4. UniqueKeys(after.rows) /\ after.rows \subseteq Rows
        BY <2>1, <2>2, <2>3 DEF UniqueKeys
    <2>5. \A r : r.key # row.key => (r \in after.rows <=> r \in st.rows)
        BY <2>1, <2>2
    <2>6. HasKey(after.rows, row.key) /\ RowOf(after.rows, row.key) = new
        BY <2>1, <2>2, <2>4, RowOfRow
    <2>7. new.id = st.next
        BY DEF new
    <2>8. QED
        BY <1>1, <2>1, <2>4, <2>5, <2>6, <2>7 DEF after, new, RowEffect
<1>2. CASE HasKey(st.rows, row.key)
    <2>1. old \in st.rows /\ old.key = row.key /\ old \in Rows
        BY <1>2, RowOfIs
    <2>2. /\ after.rows = IF updated THEN (st.rows \ {old}) \cup {changedRow} ELSE st.rows
          /\ after.next = st.next /\ after.first = st.first /\ after.last = old.id
          /\ after.changed = (st.changed \/ updated)
          /\ after.affected = st.affected + (CASE updated -> 2
                                           [] upsert /\ ~updated /\ foundRows -> 1
                                           [] OTHER -> 0)
        BY <1>2 DEF InsertRow
    <2>3. after.affected = st.affected + Gain(upsert, old.val, row.val)
        BY <2>2 DEF Gain
    <2>4. /\ changedRow \in Rows /\ changedRow.key = row.key /\ changedRow.id = old.id
          /\ changedRow.val = row.val
        BY <2>1 DEF Rows, Entries
    <2> DEFINE now == IF updated THEN changedRow ELSE old
    <2>5. /\ now \in Rows /\ now.key = row.key /\ now.id = old.id
          /\ now.val = IF upsert THEN row.val ELSE old.val
        <3>1. CASE updated
            BY <2>4, <3>1
        <3>2. CASE ~updated
            BY <2>1, <3>2
        <3>3. QED
            BY <3>1, <3>2
    <2>6. after.rows = (st.rows \ {old}) \cup {now}
        BY <2>1, <2>2
    <2> HIDE DEF after, old, now, changedRow
    <2>7. after.rows \subseteq Rows /\ UniqueKeys(after.rows)
        BY <2>1, <2>5, <2>6 DEF UniqueKeys
    <2>8. \A r : r.key # row.key => (r \in after.rows <=> r \in st.rows)
        BY <2>1, <2>5, <2>6
    <2>9. HasKey(after.rows, row.key) /\ RowOf(after.rows, row.key) = now
        BY <2>5, <2>6, <2>7, RowOfRow
    <2>10. QED
        BY <1>2, <2>2, <2>3, <2>5, <2>7, <2>8, <2>9 DEF after, old, RowEffect
<1>3. QED
    BY <1>1, <1>2

\* The ids stay unique, below the next one, and finite in number.
LEMMA IdStep ==
    ASSUME NEW upsert \in BOOLEAN, NEW st, NEW row \in Entries,
           st.rows \subseteq Rows, UniqueKeys(st.rows), st.next \in Nat \ {0},
           UniqueIds(st.rows), \A r \in st.rows : r.id < st.next, IsFiniteSet(st.rows)
    PROVE  LET after == InsertRow(upsert, st, row)
           IN  /\ UniqueIds(after.rows) /\ IsFiniteSet(after.rows)
               /\ after.next \in Nat \ {0} /\ after.next >= st.next
               /\ \A r \in after.rows :
                    /\ r.id < after.next
                    /\ r.id = st.next \/ \E q \in st.rows : q.id = r.id /\ q.key = r.key
<1> DEFINE after == InsertRow(upsert, st, row)
           old == RowOf(st.rows, row.key)
<1>1. /\ after.rows \subseteq Rows /\ UniqueKeys(after.rows) /\ HasKey(after.rows, row.key)
      /\ \A r : r.key # row.key => (r \in after.rows <=> r \in st.rows)
      /\ ~HasKey(st.rows, row.key) => /\ RowOf(after.rows, row.key).id = st.next
                                      /\ after.next = st.next + 1
      /\ HasKey(st.rows, row.key) => /\ RowOf(after.rows, row.key).id = old.id
                                     /\ after.next = st.next
    <2>1. RowEffect(upsert, st, row, after)
        BY RowStep
    <2> HIDE DEF after
    <2>2. QED
        BY <2>1 DEF RowEffect
<1>2. HasKey(st.rows, row.key) => old \in st.rows /\ old.key = row.key
    BY RowOfIs
<1> DEFINE now == RowOf(after.rows, row.key)
<1> HIDE DEF after, old
<1>3. now \in after.rows /\ now.key = row.key
    BY <1>1, RowOfIs
<1>4. \A r \in after.rows : r = now \/ (r \in st.rows /\ r.key # row.key)
    BY <1>1, <1>3 DEF UniqueKeys
<1>5. \A r \in st.rows : r \in Rows /\ r.id \in Nat /\ r.id < st.next
    BY DEF Rows
<1> HIDE DEF now
<1>6. after.next \in Nat \ {0} /\ after.next >= st.next
    BY <1>1
<1>7. /\ now.id < after.next
      /\ now.id = st.next \/ \E q \in st.rows : q.id = now.id /\ q.key = now.key
      /\ \A r \in st.rows : r.key # row.key => r.id # now.id
    <2>1. CASE ~HasKey(st.rows, row.key)
        BY <1>1, <1>5, <2>1 DEF now
    <2>2. CASE HasKey(st.rows, row.key)
        <3>1. now.id = old.id
            BY <1>1, <2>2 DEF now
        <3>2. QED
            BY <1>1, <1>2, <1>3, <1>5, <2>2, <3>1 DEF UniqueIds
    <2>3. QED
        BY <2>1, <2>2
<1>8. UniqueIds(after.rows)
    BY <1>4, <1>7 DEF UniqueIds
<1>9. \A r \in after.rows :
        /\ r.id < after.next
        /\ r.id = st.next \/ \E q \in st.rows : q.id = r.id /\ q.key = r.key
    BY <1>4, <1>5, <1>6, <1>7
<1>10. IsFiniteSet(after.rows)
    <2>1. IsFiniteSet(st.rows \cup {now})
        BY FS_AddElement
    <2>2. after.rows \subseteq st.rows \cup {now}
        BY <1>4
    <2>3. QED
        BY <2>1, <2>2, FS_Subset
<1>11. QED
    BY <1>6, <1>8, <1>9, <1>10 DEF after

KeysUpTo(rs, i) == {rs[j].key : j \in 1 .. i}

\* Without a new row, the number of affected rows tells whether some row changed.
Counted(upsert, st, i) ==
    st.first = 0 =>
        /\ ~upsert => st.affected = 0 /\ st.changed = FALSE
        /\ upsert /\ foundRows => st.affected >= i /\ (st.changed = TRUE <=> st.affected > i)
        /\ upsert /\ ~foundRows => (st.changed = TRUE <=> st.affected > 0)

\* The table after i entries: the other rows as they were, ids kept, a row for each key
RunRight(T, n, rs, upsert, st, i) ==
    /\ st.rows \subseteq Rows /\ UniqueKeys(st.rows)
    /\ st.next \in Nat \ {0} /\ st.next >= n
    /\ st.affected \in Nat /\ st.first \in Nat /\ st.changed \in BOOLEAN
    /\ \A k : HasKey(T, k) => HasKey(st.rows, k) /\ RowOf(st.rows, k).id = RowOf(T, k).id
    /\ \A r : r.key \notin KeysUpTo(rs, i) => (r \in st.rows <=> r \in T)
    /\ \A k \in KeysUpTo(rs, i) : HasKey(st.rows, k)
    /\ st.first # 0 =>
         \E k \in KeysUpTo(rs, i) : HasKey(st.rows, k) /\ RowOf(st.rows, k).id = st.first
    /\ i > 0 => st.last = RowOf(st.rows, rs[i].key).id
    /\ Counted(upsert, st, i)

\* Ids that are unique stay so.
RunIds(T, n, st) ==
    /\ UniqueIds(st.rows) /\ IsFiniteSet(st.rows)
    /\ \A r \in st.rows :
        /\ r.id < st.next
        /\ r.id >= n \/ \E q \in T : q.id = r.id /\ q.key = r.key

LEMMA KeysStep ==
    ASSUME NEW rs, NEW i \in Nat \ {0}
    PROVE  KeysUpTo(rs, i) = KeysUpTo(rs, i - 1) \cup {rs[i].key} /\ KeysUpTo(rs, 0) = {}
<1>1. 1 .. i = (1 .. i - 1) \cup {i} /\ 1 .. 0 = {}
    OBVIOUS
<1>2. QED
    BY <1>1 DEF KeysUpTo

\* Rows of other keys are found as before.
LEMMA OthersKept ==
    ASSUME NEW R, NEW S, NEW key, UniqueKeys(R), UniqueKeys(S),
           \A r : r.key # key => (r \in S <=> r \in R)
    PROVE  \A k : k # key => /\ HasKey(S, k) <=> HasKey(R, k)
                             /\ HasKey(R, k) => RowOf(S, k) = RowOf(R, k)
<1>1. SUFFICES ASSUME NEW k, k # key
               PROVE  /\ HasKey(S, k) <=> HasKey(R, k)
                      /\ HasKey(R, k) => RowOf(S, k) = RowOf(R, k)
    OBVIOUS
<1>2. \A r : r.key = k => (r \in R <=> r \in S)
    BY <1>1
<1>3. QED
    BY <1>2, SameRowOf

LEMMA EntryStep ==
    ASSUME NEW T, NEW n \in Nat \ {0}, NEW rs \in Seq(Entries), NEW upsert \in BOOLEAN,
           NEW st, NEW j \in Nat, j < Len(rs), RunRight(T, n, rs, upsert, st, j)
    PROVE  RunRight(T, n, rs, upsert, InsertRow(upsert, st, rs[j + 1]), j + 1)
<1>0. PICK i \in 1 .. Len(rs) : i = j + 1 /\ i - 1 = j
    OBVIOUS
<1>00. RunRight(T, n, rs, upsert, st, i - 1)
    BY <1>0
<1> DEFINE row == rs[i]
           after == InsertRow(upsert, st, row)
           old == RowOf(st.rows, row.key)
<1>1. /\ row \in Entries /\ i \in Nat \ {0} /\ i - 1 \in Nat
      /\ st.rows \subseteq Rows /\ UniqueKeys(st.rows) /\ st.next \in Nat \ {0} /\ st.next >= n
      /\ st.affected \in Nat /\ st.first \in Nat /\ st.changed \in BOOLEAN
    BY <1>00 DEF RunRight
<1>2. RowEffect(upsert, st, row, after)
    BY <1>1, RowStep
<1>3. KeysUpTo(rs, i) = KeysUpTo(rs, i - 1) \cup {row.key}
    BY <1>1, KeysStep
<1> HIDE DEF after, row, old
<1>4. /\ after.rows \subseteq Rows /\ UniqueKeys(after.rows) /\ HasKey(after.rows, row.key)
      /\ \A r : r.key # row.key => (r \in after.rows <=> r \in st.rows)
      /\ after.last = RowOf(after.rows, row.key).id
    BY <1>2 DEF RowEffect
<1>5. \A k : k # row.key =>
        /\ HasKey(after.rows, k) <=> HasKey(st.rows, k)
        /\ HasKey(st.rows, k) => RowOf(after.rows, k) = RowOf(st.rows, k)
    <2>1. PICK R, S, key : R = st.rows /\ S = after.rows /\ key = row.key
        OBVIOUS
    <2>2. UniqueKeys(R) /\ UniqueKeys(S) /\ \A r : r.key # key => (r \in S <=> r \in R)
        BY <1>1, <1>4, <2>1
    <2>3. \A k : k # key => /\ HasKey(S, k) <=> HasKey(R, k)
                            /\ HasKey(R, k) => RowOf(S, k) = RowOf(R, k)
        BY <2>2, OthersKept
    <2>4. QED
        BY <2>1, <2>3
<1>6. ASSUME NEW k, HasKey(T, k)
      PROVE  HasKey(after.rows, k) /\ RowOf(after.rows, k).id = RowOf(T, k).id
    <2>1. HasKey(st.rows, k) /\ RowOf(st.rows, k).id = RowOf(T, k).id
        BY <1>00, <1>6 DEF RunRight
    <2>2. CASE k = row.key
        BY <1>2, <1>4, <2>1, <2>2 DEF RowEffect
    <2>3. CASE k # row.key
        BY <1>5, <2>1, <2>3
    <2>4. QED
        BY <2>2, <2>3
<1>7. \A r : r.key \notin KeysUpTo(rs, i) => (r \in after.rows <=> r \in T)
    BY <1>00, <1>3, <1>4 DEF RunRight
<1>8. \A k \in KeysUpTo(rs, i) : HasKey(after.rows, k)
    BY <1>00, <1>3, <1>4, <1>5 DEF RunRight
<1>9. /\ after.next \in Nat \ {0} /\ after.next >= n /\ after.affected \in Nat /\ after.first \in Nat
      /\ Counted(upsert, after, i) /\ after.changed \in BOOLEAN
      /\ after.first # 0 =>
           \E k \in KeysUpTo(rs, i) : HasKey(after.rows, k) /\ RowOf(after.rows, k).id = after.first
    <2>1. CASE ~HasKey(st.rows, row.key)
        <3>1. /\ RowOf(after.rows, row.key).id = st.next /\ after.next = st.next + 1
              /\ after.affected = st.affected + 1 /\ after.changed = st.changed
              /\ after.first = IF st.first = 0 THEN st.next ELSE st.first
            BY <1>2, <2>1 DEF RowEffect
        <3>2. after.first # 0
            BY <1>1, <3>1
        <3>6. Counted(upsert, after, i) /\ after.changed \in BOOLEAN
            BY <1>1, <3>1, <3>2 DEF Counted
        <3>3. CASE st.first = 0
            <4>1. after.first = st.next
                BY <3>1, <3>3
            <4>2. row.key \in KeysUpTo(rs, i) /\ HasKey(after.rows, row.key)
                BY <1>3, <1>4
            <4>3. \E k \in KeysUpTo(rs, i) :
                    HasKey(after.rows, k) /\ RowOf(after.rows, k).id = after.first
                BY <3>1, <4>1, <4>2
            <4>4. after.next \in Nat \ {0} /\ after.next >= n /\ after.affected \in Nat
                  /\ after.first \in Nat
                BY <1>1, <3>1, <4>1
            <4>5. QED
                BY <3>6, <4>3, <4>4
        <3>4. CASE st.first # 0
            <4>1. PICK k \in KeysUpTo(rs, i - 1) : HasKey(st.rows, k) /\ RowOf(st.rows, k).id = st.first
                BY <1>00, <3>4 DEF RunRight
            <4>2. k # row.key
                BY <2>1, <4>1
            <4>3. HasKey(after.rows, k) /\ RowOf(after.rows, k).id = after.first
                BY <1>5, <3>1, <3>4, <4>1, <4>2
            <4>4. k \in KeysUpTo(rs, i)
                BY <1>3, <4>1
            <4>5. QED
                BY <1>1, <3>1, <3>6, <3>4, <4>3, <4>4
        <3>5. QED
            BY <3>3, <3>4
    <2>2. CASE HasKey(st.rows, row.key)
        <3>1. /\ RowOf(after.rows, row.key).id = old.id /\ after.next = st.next
              /\ after.first = st.first
              /\ after.affected = st.affected + Gain(upsert, old.val, row.val)
              /\ after.changed = (st.changed \/ (upsert /\ old.val # row.val))
            BY <1>2, <2>2 DEF RowEffect, old
        <3>2. after.changed \in BOOLEAN
            BY <1>1, <3>1, Zenon
        <3>3. after.changed = TRUE <=> (st.changed = TRUE \/ (upsert = TRUE /\ old.val # row.val))
            BY <1>1, <3>1
        <3>4. Gain(upsert, old.val, row.val) \in {0, 1, 2}
            BY DEF Gain
        <3>5. Counted(upsert, after, i)
            <4>1. SUFFICES ASSUME st.first = 0 PROVE Counted(upsert, after, i)
                BY <3>1 DEF Counted
            <4>2. Counted(upsert, st, i - 1) /\ foundRows \in BOOLEAN
                BY <1>00, DbAssumption DEF RunRight, DbAssumption
            <4>3. CASE ~upsert
                <5>1. st.affected = 0 /\ st.changed = FALSE /\ Gain(upsert, old.val, row.val) = 0
                    BY <4>1, <4>2, <4>3 DEF Counted, Gain
                <5>2. after.affected = 0
                    BY <3>1, <5>1
                <5>3. after.changed = FALSE
                    BY <3>1, <4>3, <5>1, Zenon
                <5>4. QED
                    BY <4>3, <5>2, <5>3 DEF Counted
            <4>4. CASE upsert /\ foundRows
                <5>1. /\ st.affected >= i - 1 /\ (st.changed = TRUE <=> st.affected > i - 1)
                      /\ Gain(upsert, old.val, row.val) = IF old.val # row.val THEN 2 ELSE 1
                    BY <4>1, <4>2, <4>4 DEF Counted, Gain
                <5>2. after.affected = st.affected + (IF old.val # row.val THEN 2 ELSE 1)
                    BY <3>1, <5>1
                <5>3. after.affected >= i /\ (after.affected > i <=> old.val # row.val \/ st.affected > i - 1)
                    BY <1>1, <5>1, <5>2
                <5>4. after.changed = TRUE <=> after.affected > i
                    BY <3>3, <4>4, <5>1, <5>3, Zenon
                <5>5. QED
                    BY <3>1, <4>1, <4>4, <5>3, <5>4 DEF Counted
            <4>5. CASE upsert /\ ~foundRows
                <5>1. /\ (st.changed = TRUE <=> st.affected > 0)
                      /\ Gain(upsert, old.val, row.val) = IF old.val # row.val THEN 2 ELSE 0
                    BY <4>1, <4>2, <4>5 DEF Counted, Gain
                <5>2. after.affected = st.affected + (IF old.val # row.val THEN 2 ELSE 0)
                    BY <3>1, <5>1
                <5>3. after.affected > 0 <=> old.val # row.val \/ st.affected > 0
                    BY <1>1, <5>2
                <5>4. after.changed = TRUE <=> after.affected > 0
                    BY <3>3, <4>5, <5>1, <5>3, Zenon
                <5>5. QED
                    BY <3>1, <4>1, <4>5, <5>4 DEF Counted
            <4>6. QED
                BY <4>3, <4>4, <4>5
        <3>6. ASSUME after.first # 0
              PROVE  \E k \in KeysUpTo(rs, i) : HasKey(after.rows, k) /\ RowOf(after.rows, k).id = after.first
            <4>1. PICK k \in KeysUpTo(rs, i - 1) : HasKey(st.rows, k) /\ RowOf(st.rows, k).id = st.first
                BY <1>00, <3>1, <3>6 DEF RunRight
            <4>2. HasKey(after.rows, k) /\ RowOf(after.rows, k).id = st.first
                BY <1>4, <1>5, <3>1, <4>1 DEF old
            <4>3. QED
                BY <1>3, <3>1, <4>2
        <3>7. QED
            BY <1>1, <3>1, <3>2, <3>4, <3>5, <3>6
    <2>3. QED
        BY <2>1, <2>2
<1>10. RunRight(T, n, rs, upsert, after, i)
    BY <1>1, <1>4, <1>6, <1>7, <1>8, <1>9 DEF RunRight, row
<1>11. QED
    BY <1>0, <1>10 DEF after, row

LEMMA RunHolds ==
    ASSUME NEW T \in SUBSET Rows, UniqueKeys(T), NEW n \in Nat \ {0}, NEW rs \in Seq(Entries),
           NEW upsert \in BOOLEAN
    PROVE  \A i \in 0 .. Len(rs) : RunRight(T, n, rs, upsert, Run(T, n, rs, upsert)[i], i)
<1> DEFINE f == Run(T, n, rs, upsert)
           S == {i \in Nat : i <= Len(rs) => RunRight(T, n, rs, upsert, f[i], i)}
<1>1. /\ Len(rs) \in Nat /\ f[0] = Before(T, n)
      /\ \A i \in 1 .. Len(rs) : f[i] = InsertRow(upsert, f[i - 1], rs[i])
    BY RunIs
<1> HIDE DEF f
<1>2. RunRight(T, n, rs, upsert, f[0], 0)
    <2>1. KeysUpTo(rs, 0) = {}
        BY KeysStep
    <2>2. QED
        BY <1>1, <2>1 DEF Before, RunRight, Counted
<1>3. ASSUME NEW i \in S PROVE i + 1 \in S
    <2>1. SUFFICES ASSUME i + 1 <= Len(rs) PROVE RunRight(T, n, rs, upsert, f[i + 1], i + 1)
        OBVIOUS
    <2>2. /\ i + 1 \in 1 .. Len(rs) /\ (i + 1) - 1 = i
          /\ RunRight(T, n, rs, upsert, f[i], i)
        BY <1>1, <2>1
    <2>3. RunRight(T, n, rs, upsert, InsertRow(upsert, f[i], rs[i + 1]), i + 1)
        <3>1. PICK st : st = f[i]
            OBVIOUS
        <3>2. RunRight(T, n, rs, upsert, st, i) /\ i \in Nat /\ i < Len(rs)
            BY <1>1, <2>1, <2>2, <3>1
        <3>3. RunRight(T, n, rs, upsert, InsertRow(upsert, st, rs[i + 1]), i + 1)
            BY <3>2, EntryStep
        <3>4. QED
            BY <3>1, <3>3
    <2>4. QED
        BY <1>1, <2>2, <2>3
<1>4. S = Nat
    BY <1>2, <1>3, NatSet
<1>5. QED
    BY <1>1, <1>4 DEF f

LEMMA IdsStep ==
    ASSUME NEW T, NEW n \in Nat \ {0}, NEW upsert \in BOOLEAN, NEW st, NEW row \in Entries,
           st.rows \subseteq Rows, UniqueKeys(st.rows), st.next \in Nat \ {0}, st.next >= n,
           RunIds(T, n, st)
    PROVE  RunIds(T, n, InsertRow(upsert, st, row))
<1> DEFINE after == InsertRow(upsert, st, row)
<1>1. UniqueIds(st.rows) /\ IsFiniteSet(st.rows) /\ \A r \in st.rows : r.id < st.next
    BY DEF RunIds
<1>2. /\ UniqueIds(after.rows) /\ IsFiniteSet(after.rows)
      /\ \A r \in after.rows :
            /\ r.id < after.next
            /\ r.id = st.next \/ \E q \in st.rows : q.id = r.id /\ q.key = r.key
    BY <1>1, IdStep
<1> HIDE DEF after
<1>3. ASSUME NEW r \in after.rows
      PROVE  r.id >= n \/ \E q \in T : q.id = r.id /\ q.key = r.key
    <2>1. CASE r.id = st.next
        BY <2>1
    <2>2. CASE \E q \in st.rows : q.id = r.id /\ q.key = r.key
        BY <2>2 DEF RunIds
    <2>3. QED
        BY <1>2, <2>1, <2>2
<1>4. RunIds(T, n, after)
    BY <1>2, <1>3 DEF RunIds
<1>5. QED
    BY <1>4 DEF after

LEMMA RunIdsHold ==
    ASSUME NEW T \in SUBSET Rows, UniqueKeys(T), UniqueIds(T), IsFiniteSet(T),
           NEW n \in Nat \ {0}, \A r \in T : r.id < n,
           NEW rs \in Seq(Entries), NEW upsert \in BOOLEAN
    PROVE  \A i \in 0 .. Len(rs) : RunIds(T, n, Run(T, n, rs, upsert)[i])
<1> DEFINE f == Run(T, n, rs, upsert)
           S == {i \in Nat : i <= Len(rs) => RunIds(T, n, f[i])}
<1>1. /\ Len(rs) \in Nat /\ f[0] = Before(T, n)
      /\ \A i \in 1 .. Len(rs) : f[i] = InsertRow(upsert, f[i - 1], rs[i])
    BY RunIs
<1>2. \A i \in 0 .. Len(rs) : RunRight(T, n, rs, upsert, f[i], i)
    BY RunHolds
<1> HIDE DEF f
<1>3. RunIds(T, n, f[0])
    <2>1. f[0].rows = T /\ f[0].next = n
        BY <1>1 DEF Before
    <2>2. QED
        BY <2>1 DEF RunIds
<1>4. ASSUME NEW i \in S PROVE i + 1 \in S
    <2>1. SUFFICES ASSUME i + 1 <= Len(rs) PROVE RunIds(T, n, f[i + 1])
        OBVIOUS
    <2>2. PICK st, row : st = f[i] /\ row = rs[i + 1]
        OBVIOUS
    <2>3. i \in 0 .. Len(rs) /\ i + 1 \in 1 .. Len(rs) /\ (i + 1) - 1 = i
        BY <1>1, <2>1
    <2>4. RunRight(T, n, rs, upsert, st, i) /\ RunIds(T, n, st) /\ row \in Entries
        BY <1>2, <2>2, <2>3
    <2>5. /\ st.rows \subseteq Rows /\ UniqueKeys(st.rows)
          /\ st.next \in Nat \ {0} /\ st.next >= n
        BY <2>4 DEF RunRight
    <2>6. RunIds(T, n, InsertRow(upsert, st, row))
        BY <2>4, <2>5, IdsStep
    <2>7. QED
        BY <1>1, <2>2, <2>3, <2>6
<1>5. S = Nat
    BY <1>3, <1>4, NatSet
<1>6. QED
    BY <1>1, <1>5 DEF f

-----------------------------------------------------------------------------
(* The cut in chunks *)

\* pos[j] entries are in the first j pieces, of which each is what its entries are.
IsCut(pos, pieces, args, n) ==
    /\ pos \in [0 .. Len(pieces) -> Nat]
    /\ pos[0] = 0 /\ pos[Len(pieces)] = n
    /\ \A j \in 1 .. Len(pieces) :
         /\ pos[j - 1] <= pos[j] /\ pos[j] <= n
         /\ Len(pieces[j]) = pos[j] - pos[j - 1]
         /\ \A m \in 1 .. Len(pieces[j]) : pieces[j][m] = args[pos[j - 1] + m]

\* What Cut holds after n entries
Pieces(acc) == Append(acc.closed, acc.chunk)

AccRight(E, args, acc, n) ==
    /\ acc = [closed |-> acc.closed, chunk |-> acc.chunk, bytes |-> acc.bytes]
    /\ acc.closed \in Seq(Seq(E)) /\ acc.chunk \in Seq(E)
    /\ \E pos : IsCut(pos, Pieces(acc), args, n)

IsCutting(f, args) ==
    f = [i \in 0 .. Len(args) |->
            IF i = 0 THEN [closed |-> <<>>, chunk |-> <<>>, bytes |-> 0] ELSE AddEntry(f[i - 1], args[i])]

Cutting(args) == CHOOSE f : IsCutting(f, args)

LEMMA AppendIs ==
    ASSUME NEW E, NEW s \in Seq(E), NEW e \in E
    PROVE  /\ Append(s, e) \in Seq(E) /\ Len(Append(s, e)) = Len(s) + 1 /\ Len(s) \in Nat
           /\ \A i \in 1 .. Len(s) : Append(s, e)[i] = s[i]
           /\ Append(s, e)[Len(s) + 1] = e
BY AppendProperties

\* The last piece gets one entry more.
LEMMA CutGrow ==
    ASSUME NEW E, NEW args, NEW n \in Nat, NEW closed \in Seq(Seq(E)), NEW chunk \in Seq(E),
           NEW pos, IsCut(pos, Append(closed, chunk), args, n), NEW e \in E, e = args[n + 1]
    PROVE  \E p : IsCut(p, Append(closed, Append(chunk, e)), args, n + 1)
<1> DEFINE P == Append(closed, chunk)
           c == Append(chunk, e)
           Q == Append(closed, c)
           L == Len(closed)
           p == [j \in 0 .. L + 1 |-> IF j = L + 1 THEN n + 1 ELSE pos[j]]
<1>1. /\ L \in Nat /\ Len(P) = L + 1 /\ P[L + 1] = chunk
      /\ \A j \in 1 .. L : P[j] = closed[j]
    BY AppendIs
<1>2. /\ c \in Seq(E) /\ Len(c) = Len(chunk) + 1 /\ Len(chunk) \in Nat /\ c[Len(chunk) + 1] = e
      /\ \A m \in 1 .. Len(chunk) : c[m] = chunk[m]
    BY AppendIs
<1> HIDE DEF c
<1>3. Len(Q) = L + 1 /\ Q[L + 1] = c /\ \A j \in 1 .. L : Q[j] = closed[j]
    BY <1>2, AppendIs
<1> HIDE DEF P, Q, L
<1>4. /\ pos \in [0 .. L + 1 -> Nat] /\ pos[0] = 0 /\ pos[L + 1] = n
      /\ \A j \in 1 .. L + 1 :
           /\ pos[j - 1] <= pos[j] /\ pos[j] <= n
           /\ Len(P[j]) = pos[j] - pos[j - 1]
           /\ \A m \in 1 .. Len(P[j]) : P[j][m] = args[pos[j - 1] + m]
    BY <1>1 DEF IsCut, P
<1>5. p \in [0 .. L + 1 -> Nat] /\ p[0] = 0 /\ p[L + 1] = n + 1 /\ \A j \in 0 .. L : p[j] = pos[j]
    BY <1>1, <1>4
<1> HIDE DEF p
<1>6. ASSUME NEW j \in 1 .. L + 1
      PROVE  /\ p[j - 1] <= p[j] /\ p[j] <= n + 1
             /\ Len(Q[j]) = p[j] - p[j - 1]
             /\ \A m \in 1 .. Len(Q[j]) : Q[j][m] = args[p[j - 1] + m]
    <2>1. CASE j <= L
        <3>1. j \in 1 .. L /\ j - 1 \in 0 .. L /\ j \in 0 .. L /\ pos[j] \in Nat /\ pos[j - 1] \in Nat
            BY <1>1, <1>4, <2>1
        <3>2. p[j] = pos[j] /\ p[j - 1] = pos[j - 1] /\ Q[j] = P[j]
            BY <1>1, <1>3, <1>5, <3>1
        <3>3. QED
            BY <1>4, <3>1, <3>2
    <2>2. CASE j = L + 1
        <3>1. j - 1 = L /\ L \in 0 .. L /\ pos[L] \in Nat
            BY <1>1, <1>4, <2>2
        <3>2. p[j] = n + 1 /\ p[j - 1] = pos[L] /\ Q[j] = c
            BY <1>3, <1>5, <2>2, <3>1
        <3>3. /\ pos[L] <= n /\ Len(chunk) = n - pos[L]
              /\ \A m \in 1 .. Len(chunk) : chunk[m] = args[pos[L] + m]
            BY <1>1, <1>4, <2>2, <3>1
        <3>4. pos[L] + (Len(chunk) + 1) = n + 1
            BY <3>1, <3>3
        <3>5. ASSUME NEW m \in 1 .. Len(c) PROVE c[m] = args[pos[L] + m]
            <4>1. CASE m = Len(chunk) + 1
                BY <1>2, <3>4, <4>1
            <4>2. CASE m # Len(chunk) + 1
                <5>1. m \in 1 .. Len(chunk)
                    BY <1>2, <4>2
                <5>2. QED
                    BY <1>2, <3>3, <5>1
            <4>3. QED
                BY <4>1, <4>2
        <3>6. QED
            BY <1>2, <3>1, <3>2, <3>3, <3>5
    <2>3. QED
        BY <1>1, <2>1, <2>2
<1>7. IsCut(p, Q, args, n + 1)
    BY <1>3, <1>5, <1>6 DEF IsCut
<1>8. QED
    BY <1>7 DEF Q, c

\* A piece of one entry more
LEMMA CutNew ==
    ASSUME NEW E, NEW args, NEW n \in Nat, NEW P \in Seq(Seq(E)),
           NEW pos, IsCut(pos, P, args, n), NEW e \in E, e = args[n + 1]
    PROVE  \E p : IsCut(p, Append(P, <<e>>), args, n + 1)
<1> DEFINE c == <<e>>
           Q == Append(P, c)
           L == Len(P)
           p == [j \in 0 .. L + 1 |-> IF j = L + 1 THEN n + 1 ELSE pos[j]]
<1>1. c \in Seq(E) /\ Len(c) = 1 /\ c[1] = e
    OBVIOUS
<1> HIDE DEF c
<1>2. L \in Nat /\ Len(Q) = L + 1 /\ Q[L + 1] = c /\ \A j \in 1 .. L : Q[j] = P[j]
    BY <1>1, AppendIs
<1> HIDE DEF Q
<1>4. /\ pos \in [0 .. L -> Nat] /\ pos[0] = 0 /\ pos[L] = n
      /\ \A j \in 1 .. L :
           /\ pos[j - 1] <= pos[j] /\ pos[j] <= n
           /\ Len(P[j]) = pos[j] - pos[j - 1]
           /\ \A m \in 1 .. Len(P[j]) : P[j][m] = args[pos[j - 1] + m]
    BY DEF IsCut
<1> HIDE DEF L
<1>5. p \in [0 .. L + 1 -> Nat] /\ p[0] = 0 /\ p[L + 1] = n + 1 /\ \A j \in 0 .. L : p[j] = pos[j]
    BY <1>2, <1>4
<1> HIDE DEF p
<1>6. ASSUME NEW j \in 1 .. L + 1
      PROVE  /\ p[j - 1] <= p[j] /\ p[j] <= n + 1
             /\ Len(Q[j]) = p[j] - p[j - 1]
             /\ \A m \in 1 .. Len(Q[j]) : Q[j][m] = args[p[j - 1] + m]
    <2>1. CASE j <= L
        <3>1. j \in 1 .. L /\ j - 1 \in 0 .. L /\ j \in 0 .. L /\ pos[j] \in Nat /\ pos[j - 1] \in Nat
            BY <1>2, <1>4, <2>1
        <3>2. p[j] = pos[j] /\ p[j - 1] = pos[j - 1] /\ Q[j] = P[j]
            BY <1>2, <1>5, <3>1
        <3>3. QED
            BY <1>4, <3>1, <3>2
    <2>2. CASE j = L + 1
        <3>1. p[j] = n + 1 /\ p[j - 1] = n /\ Q[j] = c
            BY <1>2, <1>4, <1>5, <2>2
        <3>2. \A m \in 1 .. Len(c) : c[m] = args[n + m]
            BY <1>1
        <3>3. n <= n + 1 /\ Len(c) = (n + 1) - n
            BY <1>1
        <3>4. QED
            BY <3>1, <3>2, <3>3
    <2>3. QED
        BY <1>2, <2>1, <2>2
<1>7. IsCut(p, Q, args, n + 1)
    BY <1>2, <1>5, <1>6 DEF IsCut
<1>8. QED
    BY <1>7 DEF Q, c

LEMMA CutStep ==
    ASSUME NEW E, NEW args \in Seq(E), NEW n \in Nat, n < Len(args), NEW acc,
           AccRight(E, args, acc, n)
    PROVE  AccRight(E, args, AddEntry(acc, args[n + 1]), n + 1)
<1> DEFINE e == args[n + 1]
           after == AddEntry(acc, e)
<1>1. e \in E
    OBVIOUS
<1>2. PICK closed, chunk, bytes :
        /\ closed \in Seq(Seq(E)) /\ chunk \in Seq(E)
        /\ acc = [closed |-> closed, chunk |-> chunk, bytes |-> bytes]
        /\ acc.closed = closed /\ acc.chunk = chunk
    BY DEF AccRight
<1>2a. closed \in Seq(Seq(E)) /\ chunk \in Seq(E)
    BY <1>2
<1>3. PICK pos : IsCut(pos, Append(closed, chunk), args, n)
    BY <1>2 DEF AccRight, Pieces
<1> HIDE DEF e
<1>4. CASE acc.chunk = <<>> \/ Fits(acc, e)
    <2>1. /\ after = [closed |-> after.closed, chunk |-> after.chunk, bytes |-> after.bytes]
          /\ after.closed = closed /\ after.chunk = Append(chunk, e)
        BY <1>2, <1>4 DEF AddEntry
    <2>2. \E p : IsCut(p, Append(closed, Append(chunk, e)), args, n + 1)
        BY <1>1, <1>2a, <1>3, CutGrow DEF e
    <2>3. Append(chunk, e) \in Seq(E)
        BY <1>1, <1>2a, AppendIs
    <2> HIDE DEF after
    <2>4. AccRight(E, args, after, n + 1)
        BY <1>2a, <2>1, <2>2, <2>3 DEF AccRight, Pieces
    <2>5. QED
        BY <2>4 DEF after, e
<1>5. CASE ~(acc.chunk = <<>> \/ Fits(acc, e))
    <2>1. /\ after = [closed |-> after.closed, chunk |-> after.chunk, bytes |-> after.bytes]
          /\ after.closed = Append(closed, chunk) /\ after.chunk = <<e>>
        BY <1>2, <1>5 DEF AddEntry
    <2>2. Append(closed, chunk) \in Seq(Seq(E)) /\ <<e>> \in Seq(E)
        BY <1>1, <1>2a, AppendIs
    <2>3. PICK P \in Seq(Seq(E)) : P = Append(closed, chunk)
        BY <2>2
    <2>4. IsCut(pos, P, args, n)
        BY <1>3, <2>3
    <2>5. \E p : IsCut(p, Append(P, <<e>>), args, n + 1)
        BY <1>1, <2>4, CutNew DEF e
    <2> HIDE DEF after
    <2>6. AccRight(E, args, after, n + 1)
        BY <2>1, <2>2, <2>3, <2>5 DEF AccRight, Pieces
    <2>7. QED
        BY <2>6 DEF after, e
<1>6. QED
    BY <1>4, <1>5

LEMMA CuttingExists ==
    ASSUME NEW args, Len(args) \in Nat
    PROVE  IsCutting(Cutting(args), args)
<1> DEFINE Start == [closed |-> <<>>, chunk |-> <<>>, bytes |-> 0]
           At(f, i) == IF i = 0 THEN Start ELSE AddEntry(f[i - 1], args[i])
           Upto(f, n) == f = [i \in 0 .. n |-> At(f, i)]
           S == {n \in Nat : \E f : Upto(f, n)}
<1>1. 0 \in S
    <2> DEFINE f == [i \in 0 .. 0 |-> Start]
    <2>1. Upto(f, 0)
        OBVIOUS
    <2>2. QED
        BY <2>1
<1>2. ASSUME NEW n \in Nat, NEW f, Upto(f, n) PROVE \E g : Upto(g, n + 1)
    <2> DEFINE g == [i \in 0 .. n + 1 |-> IF i = n + 1 THEN AddEntry(f[n], args[n + 1]) ELSE f[i]]
    <2>1. \A i \in 0 .. n : f[i] = At(f, i)
        BY <1>2
    <2>2. ASSUME NEW i \in 0 .. n + 1 PROVE g[i] = At(g, i)
        <3>1. CASE i = n + 1
            BY <3>1
        <3>2. CASE i = 0
            BY <2>1, <3>2
        <3>3. CASE i # 0 /\ i # n + 1
            <4>1. i \in 0 .. n /\ i - 1 \in 0 .. n /\ i - 1 \in 0 .. n + 1 /\ i - 1 # n + 1
                BY <3>3
            <4>2. g[i] = f[i] /\ g[i - 1] = f[i - 1]
                BY <3>3, <4>1
            <4> HIDE DEF g
            <4>3. QED
                BY <2>1, <3>3, <4>1, <4>2
        <3>4. QED
            BY <3>1, <3>2, <3>3
    <2>3. g = [i \in 0 .. n + 1 |-> g[i]]
        OBVIOUS
    <2> HIDE DEF g
    <2>4. g = [i \in 0 .. n + 1 |-> At(g, i)]
        BY <2>2, <2>3
    <2>5. QED
        BY <2>4
<1>3. S = Nat
    <2> HIDE DEF Upto
    <2>1. \A n \in S : n + 1 \in S
        BY <1>2
    <2>2. QED
        BY <1>1, <2>1, NatSet
<1>4. \E f : Upto(f, Len(args))
    BY <1>3
<1>5. \E f : IsCutting(f, args)
    BY <1>4 DEF IsCutting
<1>6. QED
    BY <1>5 DEF Cutting

LEMMA CutHolds ==
    ASSUME NEW E, NEW args \in Seq(E)
    PROVE  AccRight(E, args, Cut(args), Len(args))
<1> DEFINE f == Cutting(args)
           S == {n \in Nat : n <= Len(args) => AccRight(E, args, f[n], n)}
<1>1. IsCutting(f, args) /\ Len(args) \in Nat
    BY CuttingExists
<1>2. Cut(args) = f[Len(args)]
    BY DEF Cut, Cutting, IsCutting
<1> HIDE DEF f
<1>3. /\ f[0] = [closed |-> <<>>, chunk |-> <<>>, bytes |-> 0]
      /\ \A i \in 1 .. Len(args) : f[i] = AddEntry(f[i - 1], args[i])
    BY <1>1 DEF IsCutting
<1>4. AccRight(E, args, f[0], 0)
    <2>1. <<>> \in Seq(Seq(E)) /\ <<>> \in Seq(E)
        OBVIOUS
    <2>2. Pieces(f[0]) = <<<<>>>>
        BY <1>3 DEF Pieces
    <2> DEFINE pos == [j \in 0 .. 1 |-> 0]
    <2>3. IsCut(pos, <<<<>>>>, args, 0)
        <3>1. pos \in [0 .. 1 -> Nat] /\ pos[0] = 0 /\ pos[1] = 0
            OBVIOUS
        <3> HIDE DEF pos
        <3>2. Len(<<<<>>>>) = 1 /\ <<<<>>>>[1] = <<>> /\ Len(<<>>) = 0
            OBVIOUS
        <3>3. \A j \in 1 .. 1 : j = 1 /\ j - 1 = 0
            OBVIOUS
        <3>4. QED
            BY <3>1, <3>2, <3>3 DEF IsCut
    <2>4. QED
        BY <1>3, <2>1, <2>2, <2>3 DEF AccRight
<1>5. ASSUME NEW n \in S PROVE n + 1 \in S
    <2>1. SUFFICES ASSUME n + 1 <= Len(args) PROVE AccRight(E, args, f[n + 1], n + 1)
        OBVIOUS
    <2>2. PICK acc : acc = f[n]
        OBVIOUS
    <2>3. n < Len(args) /\ AccRight(E, args, acc, n) /\ n + 1 \in 1 .. Len(args) /\ (n + 1) - 1 = n
        BY <1>1, <2>1, <2>2
    <2>4. AccRight(E, args, AddEntry(acc, args[n + 1]), n + 1)
        BY <2>3, CutStep
    <2>5. QED
        BY <1>3, <2>2, <2>3, <2>4
<1>6. S = Nat
    BY <1>4, <1>5, NatSet
<1>7. QED
    BY <1>1, <1>2, <1>6

\* Where the chunks begin
Starts(args) == CHOOSE pos : IsCut(pos, Chunks(args), args, Len(args))

LEMMA ChunksAre ==
    ASSUME NEW E, NEW args \in Seq(E)
    PROVE  /\ Chunks(args) \in Seq(Seq(E)) /\ Len(Chunks(args)) \in Nat \ {0}
           /\ IsCut(Starts(args), Chunks(args), args, Len(args))
<1>1. AccRight(E, args, Cut(args), Len(args))
    BY CutHolds
<1>2. PICK closed \in Seq(Seq(E)), chunk \in Seq(E) :
        Cut(args).closed = closed /\ Cut(args).chunk = chunk
    BY <1>1 DEF AccRight
<1>3. Chunks(args) = Append(closed, chunk)
    BY <1>2 DEF Chunks
<1>4. Append(closed, chunk) \in Seq(Seq(E)) /\ Len(Append(closed, chunk)) = Len(closed) + 1
      /\ Len(closed) \in Nat
    BY AppendIs
<1>5. \E pos : IsCut(pos, Chunks(args), args, Len(args))
    BY <1>1 DEF AccRight, Pieces, Chunks
<1>6. QED
    BY <1>3, <1>4, <1>5 DEF Starts

\* A chunk: the entries from p on, up to q
ChunkRight(E, args, c, p, q) ==
    /\ c \in Seq(E) /\ p \in Nat /\ q \in Nat /\ p + Len(c) = q /\ q <= Len(args)
    /\ \A m \in 1 .. Len(c) : c[m] = args[p + m]

LEMMA ChunkAt ==
    ASSUME NEW E, NEW args \in Seq(E), NEW i \in 1 .. Len(Chunks(args))
    PROVE  ChunkRight(E, args, Chunks(args)[i], Starts(args)[i - 1], Starts(args)[i])
<1> DEFINE C == Chunks(args)
           pos == Starts(args)
           N == Len(args)
<1>1. C \in Seq(Seq(E)) /\ Len(C) \in Nat /\ IsCut(pos, C, args, N) /\ N \in Nat
    BY ChunksAre
<1> HIDE DEF C, pos, N
<1>2. i \in 1 .. Len(C)
    BY DEF C
<1>3. i - 1 \in 0 .. Len(C) /\ i \in 0 .. Len(C) /\ C[i] \in Seq(E) /\ Len(C[i]) \in Nat
    BY <1>1, <1>2
<1>4. /\ pos[i - 1] \in Nat /\ pos[i] \in Nat /\ pos[i] <= N
      /\ Len(C[i]) = pos[i] - pos[i - 1]
      /\ \A m \in 1 .. Len(C[i]) : C[i][m] = args[pos[i - 1] + m]
    BY <1>1, <1>2, <1>3 DEF IsCut
<1>5. ChunkRight(E, args, C[i], pos[i - 1], pos[i])
    <2>1. PICK p, q, c : p = pos[i - 1] /\ q = pos[i] /\ c = C[i]
        OBVIOUS
    <2>2. c \in Seq(E) /\ p \in Nat /\ q \in Nat /\ Len(c) \in Nat /\ Len(c) = q - p /\ q <= N
        BY <1>3, <1>4, <2>1
    <2>3. \A m \in 1 .. Len(c) : c[m] = args[p + m]
        BY <1>4, <2>1
    <2>4. p + Len(c) = q
        BY <2>2
    <2>5. ChunkRight(E, args, c, p, q)
        BY <2>2, <2>3, <2>4 DEF ChunkRight, N
    <2>6. QED
        BY <2>1, <2>5
<1>6. QED
    BY <1>5 DEF C, pos

LEMMA FirstAndLast ==
    ASSUME NEW E, NEW args \in Seq(E)
    PROVE  Starts(args)[0] = 0 /\ Starts(args)[Len(Chunks(args))] = Len(args)
BY ChunksAre DEF IsCut

LEMMA ChunkKeys ==
    ASSUME NEW E, NEW args \in Seq(E), NEW c, NEW p, NEW q, ChunkRight(E, args, c, p, q)
    PROVE  KeysUpTo(args, q) = KeysUpTo(args, p) \cup KeysIn(c)
<1>1. /\ p \in Nat /\ q \in Nat /\ Len(c) \in Nat /\ p + Len(c) = q /\ DOMAIN c = 1 .. Len(c)
      /\ \A m \in 1 .. Len(c) : c[m] = args[p + m]
    BY DEF ChunkRight
<1>2. ASSUME NEW k \in KeysUpTo(args, q) PROVE k \in KeysUpTo(args, p) \cup KeysIn(c)
    <2>1. PICK j \in 1 .. q : args[j].key = k
        BY <1>2 DEF KeysUpTo
    <2>2. CASE j <= p
        <3>1. j \in 1 .. p
            BY <1>1, <2>2
        <3>2. QED
            BY <2>1, <3>1 DEF KeysUpTo
    <2>3. CASE ~(j <= p)
        <3>1. j - p \in 1 .. Len(c) /\ p + (j - p) = j
            BY <1>1, <2>3
        <3>2. c[j - p] = args[j]
            BY <1>1, <3>1
        <3>3. QED
            BY <1>1, <2>1, <3>1, <3>2 DEF KeysIn
    <2>4. QED
        BY <2>2, <2>3
<1>3. ASSUME NEW k \in KeysUpTo(args, p) PROVE k \in KeysUpTo(args, q)
    <2>1. 1 .. p \subseteq 1 .. q
        BY <1>1
    <2>2. QED
        BY <1>3, <2>1 DEF KeysUpTo
<1>4. ASSUME NEW k \in KeysIn(c) PROVE k \in KeysUpTo(args, q)
    <2>1. PICK m \in 1 .. Len(c) : c[m].key = k
        BY <1>1, <1>4 DEF KeysIn
    <2>2. p + m \in 1 .. q /\ args[p + m].key = k
        BY <1>1, <2>1
    <2>3. QED
        BY <2>2 DEF KeysUpTo
<1>5. QED
    BY <1>2, <1>3, <1>4

LEMMA KeysOfAll ==
    ASSUME NEW E, NEW args \in Seq(E)
    PROVE  KeysUpTo(args, Len(args)) = KeysIn(args) /\ KeysUpTo(args, 0) = {}
<1>1. DOMAIN args = 1 .. Len(args) /\ 1 .. 0 = {}
    OBVIOUS
<1>2. QED
    BY <1>1 DEF KeysUpTo, KeysIn

-----------------------------------------------------------------------------
(* Chunks and one statement *)

Total(first, then) == IF first = 0 THEN then ELSE first

\* The rows that a transaction sees, and those of one statement that found table T, under the
\* same keys: the same values, the ids that T had, and the same answer.
Alike(K, rows, affected, first, one, T) ==
    /\ \A k \in K :
         /\ HasKey(rows, k) <=> HasKey(one.rows, k)
         /\ HasKey(rows, k) => RowOf(rows, k).val = RowOf(one.rows, k).val
         /\ HasKey(T, k) => HasKey(rows, k) /\ RowOf(rows, k).id = RowOf(T, k).id
    /\ affected = one.affected
    /\ first = 0 <=> one.first = 0
    /\ first # 0 => \E k \in K : /\ HasKey(rows, k) /\ HasKey(one.rows, k)
                                 /\ RowOf(rows, k).id = first
                                 /\ RowOf(one.rows, k).id = one.first

\* What EntryStep and RowStep say of one entry
Stepped(upsert, st, row, after) ==
    /\ st.affected \in Nat /\ st.first \in Nat /\ st.next \in Nat \ {0}
    /\ UniqueKeys(st.rows) /\ RowEffect(upsert, st, row, after)

SteppedTo(st, row, after) ==
    /\ HasKey(after.rows, row.key)
    /\ \A k : k # row.key => /\ HasKey(after.rows, k) <=> HasKey(st.rows, k)
                             /\ HasKey(st.rows, k) => RowOf(after.rows, k) = RowOf(st.rows, k)

LEMMA SteppedOthers ==
    ASSUME NEW upsert, NEW st, NEW row, NEW after, Stepped(upsert, st, row, after)
    PROVE  SteppedTo(st, row, after)
<1>1. PICK R, S, key : R = st.rows /\ S = after.rows /\ key = row.key
    OBVIOUS
<1>2. UniqueKeys(R) /\ UniqueKeys(S) /\ HasKey(S, key) /\ \A r : r.key # key => (r \in S <=> r \in R)
    BY <1>1 DEF Stepped, RowEffect
<1>3. \A k : k # key => /\ HasKey(S, k) <=> HasKey(R, k)
                        /\ HasKey(R, k) => RowOf(S, k) = RowOf(R, k)
    BY <1>2, OthersKept
<1>4. QED
    BY <1>1, <1>2, <1>3 DEF SteppedTo

LEMMA AlikeStep ==
    ASSUME NEW K, NEW T, NEW upsert \in BOOLEAN, NEW row, row.key \in K,
           NEW a0 \in Nat, NEW f0 \in Nat,
           NEW st, NEW st2, Stepped(upsert, st, row, st2),
           NEW one, NEW one2, Stepped(upsert, one, row, one2),
           HasKey(T, row.key) => HasKey(one.rows, row.key),
           Alike(K, st.rows, a0 + st.affected, Total(f0, st.first), one, T)
    PROVE  Alike(K, st2.rows, a0 + st2.affected, Total(f0, st2.first), one2, T)
<1> DEFINE key == row.key
<1>1. /\ HasKey(st2.rows, key) /\ HasKey(one2.rows, key)
      /\ \A k : k # key => /\ HasKey(st2.rows, k) <=> HasKey(st.rows, k)
                           /\ HasKey(st.rows, k) => RowOf(st2.rows, k) = RowOf(st.rows, k)
      /\ \A k : k # key => /\ HasKey(one2.rows, k) <=> HasKey(one.rows, k)
                           /\ HasKey(one.rows, k) => RowOf(one2.rows, k) = RowOf(one.rows, k)
    BY SteppedOthers DEF SteppedTo
<1>2. /\ st.affected \in Nat /\ st.first \in Nat /\ st.next \in Nat \ {0}
      /\ one.affected \in Nat /\ one.first \in Nat /\ one.next \in Nat \ {0}
    BY DEF Stepped
<1>3. /\ \A k \in K :
           /\ HasKey(st.rows, k) <=> HasKey(one.rows, k)
           /\ HasKey(st.rows, k) => RowOf(st.rows, k).val = RowOf(one.rows, k).val
           /\ HasKey(T, k) => HasKey(st.rows, k) /\ RowOf(st.rows, k).id = RowOf(T, k).id
      /\ a0 + st.affected = one.affected
      /\ Total(f0, st.first) = 0 <=> one.first = 0
    BY DEF Alike
<1>4. CASE ~HasKey(st.rows, key)
    <2>1. ~HasKey(one.rows, key) /\ ~HasKey(T, key)
        BY <1>3, <1>4
    <2>2. /\ RowOf(st2.rows, key) = [key |-> key, id |-> st.next, val |-> row.val]
          /\ st2.affected = st.affected + 1
          /\ st2.first = IF st.first = 0 THEN st.next ELSE st.first
        BY <1>4 DEF Stepped, RowEffect
    <2>3. /\ RowOf(one2.rows, key) = [key |-> key, id |-> one.next, val |-> row.val]
          /\ one2.affected = one.affected + 1
          /\ one2.first = IF one.first = 0 THEN one.next ELSE one.first
        BY <2>1 DEF Stepped, RowEffect
    <2>4. \A k \in K :
            /\ HasKey(st2.rows, k) <=> HasKey(one2.rows, k)
            /\ HasKey(st2.rows, k) => RowOf(st2.rows, k).val = RowOf(one2.rows, k).val
            /\ HasKey(T, k) => HasKey(st2.rows, k) /\ RowOf(st2.rows, k).id = RowOf(T, k).id
        BY <1>1, <1>3, <2>1, <2>2, <2>3
    <2>5. a0 + st2.affected = one2.affected
        BY <1>2, <1>3, <2>2, <2>3
    <2>6. CASE Total(f0, st.first) = 0
        <3>1. f0 = 0 /\ st.first = 0 /\ one.first = 0
            BY <1>2, <1>3, <2>6 DEF Total
        <3>2. Total(f0, st2.first) = st.next /\ one2.first = one.next
            BY <1>2, <2>2, <2>3, <3>1 DEF Total
        <3>3. RowOf(st2.rows, key).id = st.next /\ RowOf(one2.rows, key).id = one.next
            BY <2>2, <2>3
        <3>4. QED
            BY <1>1, <1>2, <2>4, <2>5, <3>2, <3>3 DEF Alike
    <2>7. CASE Total(f0, st.first) # 0
        <3>1. Total(f0, st2.first) = Total(f0, st.first) /\ one2.first = one.first /\ one.first # 0
            BY <1>2, <1>3, <2>2, <2>3, <2>7 DEF Total
        <3>2. PICK k \in K : /\ HasKey(st.rows, k) /\ HasKey(one.rows, k)
                             /\ RowOf(st.rows, k).id = Total(f0, st.first)
                             /\ RowOf(one.rows, k).id = one.first
            BY <2>7 DEF Alike
        <3>3. k # key
            BY <1>4, <3>2
        <3>4. /\ HasKey(st2.rows, k) /\ HasKey(one2.rows, k)
              /\ RowOf(st2.rows, k).id = Total(f0, st2.first)
              /\ RowOf(one2.rows, k).id = one2.first
            BY <1>1, <3>1, <3>2, <3>3
        <3>5. QED
            BY <2>4, <2>5, <2>7, <3>1, <3>4 DEF Alike
    <2>8. QED
        BY <2>6, <2>7
<1>5. CASE HasKey(st.rows, key)
    <2>1. HasKey(one.rows, key) /\ RowOf(st.rows, key).val = RowOf(one.rows, key).val
        BY <1>3, <1>5
    <2> DEFINE v == RowOf(st.rows, key).val
    <2>2. /\ RowOf(st2.rows, key).id = RowOf(st.rows, key).id
          /\ RowOf(st2.rows, key).val = IF upsert THEN row.val ELSE v
          /\ st2.affected = st.affected + Gain(upsert, v, row.val)
          /\ st2.first = st.first
        BY <1>5 DEF Stepped, RowEffect
    <2>3. /\ RowOf(one2.rows, key).id = RowOf(one.rows, key).id
          /\ RowOf(one2.rows, key).val = IF upsert THEN row.val ELSE v
          /\ one2.affected = one.affected + Gain(upsert, v, row.val)
          /\ one2.first = one.first
        BY <2>1 DEF Stepped, RowEffect
    <2> HIDE DEF v
    <2>4. \A k \in K :
            /\ HasKey(st2.rows, k) <=> HasKey(one2.rows, k)
            /\ HasKey(st2.rows, k) => RowOf(st2.rows, k).val = RowOf(one2.rows, k).val
            /\ HasKey(T, k) => HasKey(st2.rows, k) /\ RowOf(st2.rows, k).id = RowOf(T, k).id
        BY <1>1, <1>3, <2>1, <2>2, <2>3
    <2>5. a0 + st2.affected = one2.affected
        <3>1. Gain(upsert, v, row.val) \in Nat
            BY DEF Gain
        <3>2. QED
            BY <1>2, <1>3, <2>2, <2>3, <3>1
    <2>6. Total(f0, st2.first) = Total(f0, st.first)
        BY <2>2
    <2>7. ASSUME Total(f0, st2.first) # 0
          PROVE  \E k \in K : /\ HasKey(st2.rows, k) /\ HasKey(one2.rows, k)
                              /\ RowOf(st2.rows, k).id = Total(f0, st2.first)
                              /\ RowOf(one2.rows, k).id = one2.first
        <3>1. PICK k \in K : /\ HasKey(st.rows, k) /\ HasKey(one.rows, k)
                             /\ RowOf(st.rows, k).id = Total(f0, st.first)
                             /\ RowOf(one.rows, k).id = one.first
            BY <2>6, <2>7 DEF Alike
        <3>2. /\ HasKey(st2.rows, k) /\ HasKey(one2.rows, k)
              /\ RowOf(st2.rows, k).id = RowOf(st.rows, k).id
              /\ RowOf(one2.rows, k).id = RowOf(one.rows, k).id
            BY <1>1, <2>2, <2>3, <3>1
        <3>3. QED
            BY <2>3, <2>6, <3>1, <3>2
    <2>8. QED
        BY <1>3, <2>3, <2>4, <2>5, <2>6, <2>7 DEF Alike
<1>6. QED
    BY <1>4, <1>5

LEMMA AlikeChunk ==
    ASSUME NEW args \in Seq(Entries), NEW c, NEW p, NEW q, ChunkRight(Entries, args, c, p, q),
           NEW K, KeysIn(c) \subseteq K, NEW upsert \in BOOLEAN, NEW a0 \in Nat, NEW f0 \in Nat,
           NEW V \in SUBSET Rows, UniqueKeys(V), NEW n \in Nat \ {0},
           NEW T \in SUBSET Rows, UniqueKeys(T), NEW m \in Nat \ {0},
           Alike(K, V, a0, f0, Run(T, m, args, upsert)[p], T)
    PROVE  LET st == Insert(V, n, c, upsert)
           IN  Alike(K, st.rows, a0 + st.affected, Total(f0, st.first),
                     Run(T, m, args, upsert)[q], T)
<1> DEFINE f == Run(V, n, c, upsert)
           g == Run(T, m, args, upsert)
           Good(j) == Alike(K, f[j].rows, a0 + f[j].affected, Total(f0, f[j].first), g[p + j], T)
           S == {j \in Nat : j <= Len(c) => Good(j)}
<1>1. /\ c \in Seq(Entries) /\ Len(c) \in Nat /\ DOMAIN c = 1 .. Len(c)
      /\ p \in Nat /\ q \in Nat /\ p + Len(c) = q /\ q <= Len(args) /\ Len(args) \in Nat
      /\ \A j \in 1 .. Len(c) : c[j] = args[p + j]
    BY DEF ChunkRight
<1>2. /\ f[0] = Before(V, n) /\ \A j \in 1 .. Len(c) : f[j] = InsertRow(upsert, f[j - 1], c[j])
      /\ Insert(V, n, c, upsert) = f[Len(c)]
    <2>1. RunOf(f, V, n, c, upsert)
        BY <1>1, RunIsOf
    <2>2. QED
        BY <2>1 DEF RunOf
<1>3. \A j \in 1 .. Len(args) : g[j] = InsertRow(upsert, g[j - 1], args[j])
    <2>1. RunOf(g, T, m, args, upsert)
        BY <1>1, RunIsOf
    <2>2. QED
        BY <2>1 DEF RunOf
<1>4. \A j \in 0 .. Len(c) : RunRight(V, n, c, upsert, f[j], j)
    BY <1>1, RunHolds
<1>5. \A j \in 0 .. Len(args) : RunRight(T, m, args, upsert, g[j], j)
    BY RunHolds
<1> HIDE DEF f, g
<1>6. Good(0)
    <2>1. f[0].rows = V /\ f[0].affected = 0 /\ f[0].first = 0
        BY <1>2 DEF Before
    <2>2. a0 + f[0].affected = a0 /\ Total(f0, f[0].first) = f0 /\ p + 0 = p
        BY <1>1, <2>1 DEF Total
    <2>3. Alike(K, V, a0, f0, g[p], T)
        BY DEF g
    <2>4. QED
        BY <2>1, <2>2, <2>3
<1>7. ASSUME NEW j \in S PROVE j + 1 \in S
    <2>1. SUFFICES ASSUME j + 1 <= Len(c) PROVE Good(j + 1)
        OBVIOUS
    <2>2. PICK st, st2, one, one2, row :
            st = f[j] /\ st2 = f[j + 1] /\ one = g[p + j] /\ one2 = g[p + (j + 1)] /\ row = c[j + 1]
        OBVIOUS
    <2>3. /\ j + 1 \in 1 .. Len(c) /\ (j + 1) - 1 = j /\ j \in 0 .. Len(c)
          /\ p + (j + 1) \in 1 .. Len(args) /\ (p + (j + 1)) - 1 = p + j
          /\ p + j \in 0 .. Len(args)
        BY <1>1, <2>1
    <2>4. row \in Entries /\ row = args[p + (j + 1)] /\ row.key \in K
        <3>1. row \in Entries /\ row = args[p + (j + 1)] /\ j + 1 \in DOMAIN c
            BY <1>1, <2>2, <2>3
        <3>2. c[j + 1].key \in KeysIn(c)
            BY <3>1 DEF KeysIn
        <3>3. QED
            BY <2>2, <3>1, <3>2
    <2>5. st2 = InsertRow(upsert, st, row) /\ one2 = InsertRow(upsert, one, row)
        BY <1>2, <1>3, <2>2, <2>3, <2>4
    <2>6. /\ st.rows \subseteq Rows /\ UniqueKeys(st.rows) /\ st.next \in Nat \ {0}
          /\ st.affected \in Nat /\ st.first \in Nat
        <3>1. RunRight(V, n, c, upsert, st, j)
            BY <1>4, <2>2, <2>3
        <3>2. QED
            BY <3>1 DEF RunRight
    <2>7. /\ one.rows \subseteq Rows /\ UniqueKeys(one.rows) /\ one.next \in Nat \ {0}
          /\ one.affected \in Nat /\ one.first \in Nat
          /\ HasKey(T, row.key) => HasKey(one.rows, row.key)
        <3>1. RunRight(T, m, args, upsert, one, p + j)
            BY <1>5, <2>2, <2>3
        <3>2. QED
            BY <3>1 DEF RunRight
    <2>8. Stepped(upsert, st, row, st2)
        BY <2>4, <2>5, <2>6, RowStep DEF Stepped
    <2>9. Stepped(upsert, one, row, one2)
        BY <2>4, <2>5, <2>7, RowStep DEF Stepped
    <2>10. Alike(K, st.rows, a0 + st.affected, Total(f0, st.first), one, T)
        BY <2>2, <2>3
    <2>11. Alike(K, st2.rows, a0 + st2.affected, Total(f0, st2.first), one2, T)
        BY <2>4, <2>7, <2>8, <2>9, <2>10, AlikeStep
    <2>12. QED
        BY <2>2, <2>11
<1>8. S = Nat
    <2> HIDE DEF Good
    <2>1. QED
        BY <1>6, <1>7, NatSet
<1>9. Good(Len(c))
    <2> HIDE DEF Good
    <2>1. QED
        BY <1>1, <1>8
<1>10. QED
    BY <1>1, <1>2, <1>9 DEF g

\* Sets with the same rows of some keys
SameOn(K, R, S) == \A r : r.key \in K => (r \in R <=> r \in S)

LEMMA FoundAlike ==
    ASSUME NEW K, NEW R, NEW S, UniqueKeys(R), UniqueKeys(S), SameOn(K, R, S)
    PROVE  \A k \in K : /\ HasKey(R, k) <=> HasKey(S, k)
                        /\ HasKey(R, k) => RowOf(R, k) = RowOf(S, k)
<1>1. SUFFICES ASSUME NEW k \in K
               PROVE  /\ HasKey(R, k) <=> HasKey(S, k)
                      /\ HasKey(R, k) => RowOf(R, k) = RowOf(S, k)
    OBVIOUS
<1>2. \A r : r.key = k => (r \in R <=> r \in S)
    BY DEF SameOn
<1>3. QED
    BY <1>2, SameRowOf

LEMMA AlikeSame ==
    ASSUME NEW K, NEW R, NEW S, UniqueKeys(R), UniqueKeys(S), SameOn(K, R, S),
           NEW a, NEW f, NEW one, NEW T, Alike(K, R, a, f, one, T)
    PROVE  Alike(K, S, a, f, one, T)
<1>1. \A k \in K : /\ HasKey(R, k) <=> HasKey(S, k)
                   /\ HasKey(R, k) => RowOf(R, k) = RowOf(S, k)
    BY FoundAlike
<1>2. \A k \in K :
         /\ HasKey(S, k) <=> HasKey(one.rows, k)
         /\ HasKey(S, k) => RowOf(S, k).val = RowOf(one.rows, k).val
         /\ HasKey(T, k) => HasKey(S, k) /\ RowOf(S, k).id = RowOf(T, k).id
    BY <1>1 DEF Alike
<1>3. f # 0 => \E k \in K : /\ HasKey(S, k) /\ HasKey(one.rows, k)
                            /\ RowOf(S, k).id = f /\ RowOf(one.rows, k).id = one.first
    BY <1>1 DEF Alike
<1>4. a = one.affected /\ (f = 0 <=> one.first = 0)
    BY DEF Alike
<1>5. QED
    BY <1>2, <1>3, <1>4 DEF Alike

\* Keys that no entry touched so far
LEMMA AlikeMore ==
    ASSUME NEW K, NEW L, L \subseteq K, NEW R, NEW a, NEW f, NEW one, NEW T,
           UniqueKeys(R), UniqueKeys(T), UniqueKeys(one.rows), Alike(L, R, a, f, one, T),
           SameOn(K \ L, R, T), SameOn(K \ L, one.rows, T)
    PROVE  Alike(K, R, a, f, one, T)
<1>1. \A k \in K \ L : /\ HasKey(R, k) <=> HasKey(T, k)
                       /\ HasKey(R, k) => RowOf(R, k) = RowOf(T, k)
    BY FoundAlike
<1>2. \A k \in K \ L : /\ HasKey(one.rows, k) <=> HasKey(T, k)
                       /\ HasKey(one.rows, k) => RowOf(one.rows, k) = RowOf(T, k)
    <2>1. PICK S : S = one.rows
        OBVIOUS
    <2>2. \A k \in K \ L : /\ HasKey(S, k) <=> HasKey(T, k)
                           /\ HasKey(S, k) => RowOf(S, k) = RowOf(T, k)
        BY <2>1, FoundAlike
    <2>3. QED
        BY <2>1, <2>2
<1>3. ASSUME NEW k \in K
      PROVE  /\ HasKey(R, k) <=> HasKey(one.rows, k)
             /\ HasKey(R, k) => RowOf(R, k).val = RowOf(one.rows, k).val
             /\ HasKey(T, k) => HasKey(R, k) /\ RowOf(R, k).id = RowOf(T, k).id
    <2>1. CASE k \in L
        BY <2>1 DEF Alike
    <2>2. CASE k \notin L
        BY <1>1, <1>2, <2>2
    <2>3. QED
        BY <2>1, <2>2
<1>4. f # 0 => \E k \in K : /\ HasKey(R, k) /\ HasKey(one.rows, k)
                            /\ RowOf(R, k).id = f /\ RowOf(one.rows, k).id = one.first
    BY DEF Alike
<1>5. a = one.affected /\ (f = 0 <=> one.first = 0)
    BY DEF Alike
<1>6. QED
    BY <1>3, <1>4, <1>5 DEF Alike

-----------------------------------------------------------------------------
(* The invariant *)

Shape(R) == R \subseteq Rows /\ UniqueKeys(R) /\ UniqueIds(R) /\ IsFiniteSet(R)
Below(R, n) == \A r \in R : r.id < n

Fields(rec) ==
    rec = [step |-> rec.step, args |-> rec.args, left |-> rec.left, conn |-> rec.conn,
           i |-> rec.i, view |-> rec.view, locked |-> rec.locked, affected |-> rec.affected,
           first |-> rec.first, previous |-> rec.previous, rows |-> rec.rows,
           insertId |-> rec.insertId]

\* The rows of a transaction take no id of another row of the table.
IdsApart(view, tbl, n) ==
    /\ Below(view, n)
    /\ \A v \in view, t \in tbl : v.id = t.id => v.key = t.key

\* A writer between two chunks: it holds the locks of the chunks before, and whatever the table
\* is under the other keys, it did what one statement does with these chunks.
InChunks(rec, upsert, tbl) ==
    LET p == Starts(rec.args)[rec.i - 1]
    IN  /\ rec.args \in Inserts /\ rec.conn \in Conns
        /\ rec.i \in 1 .. Len(Chunks(rec.args)) + 1
        /\ rec.step = "commit" <=> rec.i = Len(Chunks(rec.args)) + 1
        /\ rec.affected \in Nat /\ rec.first \in Nat /\ rec.previous \in Nat
        /\ rec.locked = KeysUpTo(rec.args, p)
        /\ Shape(rec.view) /\ \A v \in rec.view : v.key \in rec.locked
        /\ \A T \in SUBSET Rows, m \in Nat \ {0} :
             UniqueKeys(T) /\ SameOn(rec.locked, T, tbl) =>
                Alike(rec.locked, rec.view, rec.affected, rec.first,
                      Run(T, m, rec.args, upsert)[p], T)

Idle(rec) == rec.locked = {} /\ rec.view = {}

WriteCall(rec, upsert, tbl) ==
    \/ rec.step \in {"none", "done", "failed"} /\ Idle(rec)
    \/ /\ rec.step \in {"ready", "delay"} /\ Idle(rec) /\ rec.args \in Inserts
       /\ rec.step = "ready" => rec.affected = 0 /\ rec.first = 0
    \/ rec.step \in {"chunk", "commit"} /\ InChunks(rec, upsert, tbl)

OfKeys(rows, K) == {r \in rows : r.key \in K}

\* A lookup between two chunks has the rows of the chunks before, in a table of its time.
ReadCall(rec, tables) ==
    /\ rec.locked = {} /\ rec.rows \in Seq(Rows)
    /\ \/ rec.step \in {"none", "failed"}
       \/ rec.step \in {"ready", "delay"} /\ rec.args \in Lookups /\ (rec.step = "ready" => rec.rows = <<>>)
       \/ /\ rec.step = "chunk" /\ rec.args \in Lookups
          /\ rec.i \in 1 .. Len(Chunks(rec.args))
          /\ \E m \in tables : rec.view = Matching(m, rec.args)
          /\ IsInjective(rec.rows)
          /\ ToSet(rec.rows) =
               OfKeys(rec.view, KeysUpTo(rec.args, Starts(rec.args)[rec.i - 1]))
       \/ /\ rec.step = "stream" /\ rec.args \in Lookups
          /\ IsInjective(rec.rows) /\ ToSet(rec.rows) \cap rec.view = {}
          /\ \E m \in tables : ToSet(rec.rows) \cup rec.view = Matching(m, rec.args)
       \/ /\ rec.step = "done"
          /\ IsInjective(rec.rows) /\ \E m \in tables : ToSet(rec.rows) = Matching(m, rec.args)

Over(rec) == rec.step \in {"none", "done", "failed"}

MomentsRight(rec, tables, tbl) == (\A m \in tables : Shape(m)) /\ (~Over(rec) => tbl \in tables)

LocksApart == \A c, d \in Callers : c # d => call[c].locked \cap call[d].locked = {}

ViewsApart ==
    \A c, d \in Writers : c # d => \A v \in call[c].view, u \in call[d].view : v.id # u.id

DbInv ==
    /\ Shape(table) /\ nextId \in Nat \ {0} /\ Below(table, nextId)
    /\ session \in [Conns -> Nat]
    /\ call = [c \in Callers |-> call[c]] /\ \A c \in Callers : Fields(call[c])
    /\ moments = [r \in Readers |-> moments[r]]
    /\ \A w \in Writers : WriteCall(call[w], w \in Upserts, table)
    /\ \A w \in Writers : IdsApart(call[w].view, table, nextId)
    /\ \A r \in Readers : ReadCall(call[r], moments[r])
    /\ \A r \in Readers : MomentsRight(call[r], moments[r], table)
    /\ LocksApart /\ ViewsApart

\* Another caller's step leaves a caller as it was, if the table changes under none of its keys.
LEMMA ReadKept ==
    ASSUME NEW rec, NEW old, NEW new, ReadCall(rec, old), old \subseteq new
    PROVE  ReadCall(rec, new)
BY DEF ReadCall

LEMMA WriteKept ==
    ASSUME NEW rec, NEW upsert, NEW old, NEW new, WriteCall(rec, upsert, old),
           SameOn(rec.locked, new, old)
    PROVE  WriteCall(rec, upsert, new)
<1>1. CASE rec.step \in {"chunk", "commit"} /\ InChunks(rec, upsert, old)
    <2>1. \A T : SameOn(rec.locked, T, new) => SameOn(rec.locked, T, old)
        BY DEF SameOn
    <2>2. InChunks(rec, upsert, new)
        BY <1>1, <2>1 DEF InChunks
    <2>3. QED
        BY <1>1, <2>2 DEF WriteCall
<1>2. QED
    BY <1>1 DEF WriteCall

LEMMA CallersAre == DbAssumption => Callers = Writers \cup Readers /\ Writers \cap Readers = {}
BY DEF Callers, DbAssumption

\* A step of one caller that holds no lock after it, on a table that stays
LEMMA OneCaller ==
    ASSUME DbInv, NEW c \in Callers, NEW new, call' = [call EXCEPT ![c] = new], Fields(new),
           UNCHANGED <<table, nextId>>, session' \in [Conns -> Nat],
           moments' = [r \in Readers |-> moments'[r]],
           \A r \in Readers \ {c} : moments'[r] = moments[r],
           c \in Writers => WriteCall(new, c \in Upserts, table) /\ Idle(new),
           c \in Readers => ReadCall(new, moments'[c]) /\ MomentsRight(new, moments'[c], table)
    PROVE  DbInv'
<1>0. Callers = Writers \cup Readers /\ Writers \cap Readers = {}
    BY CallersAre, DbAssumption
<1>1. /\ call' = [d \in Callers |-> call'[d]] /\ call'[c] = new
      /\ \A d \in Callers \ {c} : call'[d] = call[d]
    BY DEF DbInv
<1>2. new.locked = {} /\ (c \in Writers => new.view = {})
    BY <1>0 DEF Idle, ReadCall
<1>3. \A d \in Callers : Fields(call'[d])
    BY <1>1 DEF DbInv
<1>4. ASSUME NEW w \in Writers
      PROVE  WriteCall(call'[w], w \in Upserts, table) /\ IdsApart(call'[w].view, table, nextId)
    <2>1. CASE w = c
        BY <1>1, <1>2, <2>1 DEF IdsApart, Below
    <2>2. CASE w # c
        BY <1>0, <1>1, <2>2 DEF DbInv
    <2>3. QED
        BY <2>1, <2>2
<1>5. ASSUME NEW r \in Readers
      PROVE  ReadCall(call'[r], moments'[r]) /\ MomentsRight(call'[r], moments'[r], table)
    <2>1. CASE r = c
        BY <1>1, <2>1
    <2>2. CASE r # c
        BY <1>0, <1>1, <2>2 DEF DbInv
    <2>3. QED
        BY <2>1, <2>2
<1>6. LocksApart'
    BY <1>1, <1>2 DEF DbInv, LocksApart
<1>7. ViewsApart'
    BY <1>0, <1>1, <1>2 DEF DbInv, ViewsApart
<1>8. QED
    BY <1>1, <1>3, <1>4, <1>5, <1>6, <1>7 DEF DbInv

-----------------------------------------------------------------------------
(* Steps of one caller *)

Fresh(args, left, step) ==
    [NotCalled EXCEPT !.step = step, !.args = args, !.left = left]

LEMMA FreshIs ==
    ASSUME NEW args, NEW left, NEW step
    PROVE  LET rec == Fresh(args, left, step)
           IN  /\ Fields(rec) /\ Idle(rec) /\ rec.step = step /\ rec.args = args /\ rec.rows = <<>>
               /\ rec.affected = 0 /\ rec.first = 0
<1> DEFINE rec == Fresh(args, left, step)
<1>1. PICK none : none = NotCalled
    OBVIOUS
<1>2. /\ Fields(none) /\ none.locked = {} /\ none.view = {} /\ none.rows = <<>>
      /\ none.affected = 0 /\ none.first = 0
    BY <1>1 DEF Fields, NotCalled
<1>3. rec = [none EXCEPT !.step = step, !.args = args, !.left = left]
    BY <1>1 DEF Fresh
<1> HIDE DEF rec
<1>4. QED
    BY <1>2, <1>3 DEF rec, Fields, Idle

LEMMA FreshWrites ==
    ASSUME NEW args \in Inserts, NEW left, NEW step \in {"ready", "failed"}, NEW upsert, NEW tbl
    PROVE  WriteCall(Fresh(args, left, step), upsert, tbl)
BY FreshIs DEF WriteCall

LEMMA FreshReads ==
    ASSUME NEW args \in Lookups, NEW left, NEW step \in {"ready", "failed"}, NEW tables
    PROVE  ReadCall(Fresh(args, left, step), tables)
<1> DEFINE rec == Fresh(args, left, step)
<1>1. <<>> \in Seq(Rows)
    OBVIOUS
<1>2. Idle(rec) /\ rec.step = step /\ rec.args = args /\ rec.rows = <<>>
    BY FreshIs
<1> HIDE DEF rec
<1>3. ReadCall(rec, tables)
    BY <1>1, <1>2 DEF ReadCall, Idle
<1>4. QED
    BY <1>3 DEF rec

LEMMA StartInv ==
    ASSUME DbInv, NEW c \in Callers, StartCall(c)
    PROVE  DbInv'
<1>1. PICK args \in IF c \in Writers THEN Inserts ELSE Lookups : BeginCall(c, args)
    BY DEF StartCall
<1> DEFINE step == IF dbPool = "none" THEN "failed" ELSE "ready"
           new == Fresh(args, MaxRetries, step)
<1>2. /\ call' = [call EXCEPT ![c] = new]
      /\ moments' = IF c \in Readers THEN [moments EXCEPT ![c] = {table}] ELSE moments
      /\ UNCHANGED <<table, nextId, session>>
    BY <1>1 DEF BeginCall, Fresh
<1>3. Callers = Writers \cup Readers /\ Writers \cap Readers = {}
    BY CallersAre, DbAssumption
<1>4. Fields(new) /\ Idle(new) /\ new.step = step /\ step \in {"ready", "failed"}
    BY FreshIs
<1>5. c \in Writers => WriteCall(new, c \in Upserts, table)
    BY <1>4, FreshWrites
<1>6. c \in Readers => ReadCall(new, moments'[c])
    BY <1>3, <1>4, FreshReads
<1> HIDE DEF new
<1>7. /\ moments' = [r \in Readers |-> moments'[r]]
      /\ \A r \in Readers \ {c} : moments'[r] = moments[r]
      /\ c \in Readers => moments'[c] = {table}
    BY <1>2 DEF DbInv
<1>8. c \in Readers => MomentsRight(new, moments'[c], table)
    BY <1>7 DEF MomentsRight, DbInv
<1>9. session' \in [Conns -> Nat]
    BY <1>2 DEF DbInv
<1>10. QED
    BY <1>2, <1>4, <1>5, <1>6, <1>7, <1>8, <1>9, OneCaller

\* What such a step leaves alone
Alone == UNCHANGED <<table, nextId, session, moments>>

LEMMA AloneInv ==
    ASSUME DbInv, NEW c \in Callers, NEW new, call' = [call EXCEPT ![c] = new], Fields(new), Alone,
           c \in Writers => WriteCall(new, c \in Upserts, table) /\ Idle(new),
           c \in Readers => ReadCall(new, moments[c]) /\ MomentsRight(new, moments[c], table)
    PROVE  DbInv'
<1>1. UNCHANGED <<table, nextId>> /\ session' \in [Conns -> Nat] /\ moments' = moments
    BY DEF DbInv, Alone
<1>2. moments' = [r \in Readers |-> moments'[r]] /\ \A r \in Readers \ {c} : moments'[r] = moments[r]
    BY <1>1 DEF DbInv
<1>3. c \in Readers => ReadCall(new, moments'[c]) /\ MomentsRight(new, moments'[c], table)
    BY <1>1
<1>4. QED
    BY <1>1, <1>2, <1>3, OneCaller

LEMMA RetryInv ==
    ASSUME DbInv, NEW c \in Callers, Retry(c)
    PROVE  DbInv'
<1> DEFINE step == IF dbPool = "none" THEN "failed" ELSE "ready"
           args == call[c].args
           left == call[c].left - 1
           new == Fresh(args, left, step)
<1>1. call' = [call EXCEPT ![c] = new] /\ Alone /\ call[c].step = "delay"
    <2>1. [Attempt(c) EXCEPT !.step = step, !.left = @ - 1] = new
        BY DEF Attempt, Fresh, NotCalled
    <2> HIDE DEF new
    <2>2. QED
        BY <2>1 DEF Retry, Alone
<1>2. Callers = Writers \cup Readers /\ Writers \cap Readers = {}
    BY CallersAre, DbAssumption
<1>3. Fields(new) /\ Idle(new) /\ step \in {"ready", "failed"}
    BY FreshIs
<1>4. c \in Writers => args \in Inserts
    BY <1>1 DEF DbInv, WriteCall
<1>5. c \in Readers => args \in Lookups /\ table \in moments[c] /\ \A m \in moments[c] : Shape(m)
    BY <1>1 DEF DbInv, ReadCall, MomentsRight, Over
<1> HIDE DEF args, left, step
<1>6. c \in Writers => WriteCall(new, c \in Upserts, table)
    BY <1>3, <1>4, FreshWrites
<1>7. c \in Readers => ReadCall(new, moments[c])
    BY <1>3, <1>5, FreshReads
<1> HIDE DEF new
<1>8. c \in Readers => MomentsRight(new, moments[c], table)
    BY <1>5 DEF MomentsRight
<1>9. QED
    BY <1>1, <1>3, <1>6, <1>7, <1>8, AloneInv

\* A call that gives up, or waits to be made again
LEMMA ErrorInv ==
    ASSUME DbInv, NEW c \in Callers, NEW lockError, call' = [call EXCEPT ![c] = AfterError(c, lockError)],
           Alone, call[c].step \in {"ready", "chunk", "stream", "commit"}
    PROVE  DbInv'
<1> DEFINE new == AfterError(c, lockError)
           rec == call[c]
<1>1. Callers = Writers \cup Readers /\ Writers \cap Readers = {}
    BY CallersAre, DbAssumption
<1>2. Fields(rec)
    BY DEF DbInv
<1>3. c \in Writers => rec.args \in Inserts
    BY DEF DbInv, WriteCall, InChunks
<1>4. c \in Readers => /\ rec.args \in Lookups /\ rec.rows \in Seq(Rows)
                       /\ table \in moments[c] /\ \A m \in moments[c] : Shape(m)
    BY DEF DbInv, ReadCall, MomentsRight, Over
<1> HIDE DEF rec
<1>5. /\ Fields(new) /\ Idle(new) /\ new.step \in {"delay", "failed"}
      /\ new.step = "delay" => new.args = rec.args
      /\ new.rows \in {rec.rows, <<>>}
    <2>1. CASE lockError /\ rec.left > 0
        <3>1. new = [rec EXCEPT !.step = "delay", !.conn = NoConn, !.locked = {}, !.view = {}]
            BY <2>1 DEF AfterError, rec
        <3> HIDE DEF new
        <3>2. QED
            BY <1>2, <3>1 DEF Fields, Idle
    <2>2. CASE ~(lockError /\ rec.left > 0)
        <3>1. new = [NotCalled EXCEPT !.step = "failed"]
            BY <2>2 DEF AfterError, rec
        <3> HIDE DEF new
        <3>2. QED
            BY <3>1 DEF Fields, Idle, NotCalled
    <2>3. QED
        BY <2>1, <2>2
<1>6. call' = [call EXCEPT ![c] = new]
    OBVIOUS
<1> HIDE DEF new
<1>7. c \in Writers => WriteCall(new, c \in Upserts, table)
    BY <1>3, <1>5 DEF WriteCall
<1>8. c \in Readers => ReadCall(new, moments[c])
    <2>1. c \in Readers => new.rows \in Seq(Rows)
        <3>1. <<>> \in Seq(Rows)
            OBVIOUS
        <3>2. QED
            BY <1>4, <1>5, <3>1
    <2>2. QED
        BY <1>4, <1>5, <2>1 DEF ReadCall, Idle
<1>9. c \in Readers => MomentsRight(new, moments[c], table)
    BY <1>4 DEF MomentsRight
<1>10. QED
    BY <1>5, <1>6, <1>7, <1>8, <1>9, AloneInv

LEMMA LockErrorInv ==
    ASSUME DbInv, NEW c \in Callers, LockError(c)
    PROVE  DbInv'
<1>1. call[c].step \in {"ready", "chunk", "stream", "commit"}
    BY DEF LockError, Connected
<1>2. call' = [call EXCEPT ![c] = AfterError(c, TRUE)] /\ Alone
    BY DEF LockError, Alone
<1>3. QED
    BY <1>1, <1>2, ErrorInv

LEMMA OtherErrorInv ==
    ASSUME DbInv, NEW c \in Callers, OtherError(c)
    PROVE  DbInv'
<1>1. call[c].step \in {"ready", "chunk", "stream", "commit"}
    BY DEF OtherError, Connected
<1>2. call' = [call EXCEPT ![c] = AfterError(c, FALSE)] /\ Alone
    BY DEF OtherError, Alone
<1>3. QED
    BY <1>1, <1>2, ErrorInv

LEMMA ArgsAre ==
    /\ \A args \in Inserts : args \in Seq(Entries)
    /\ \A args \in Lookups : args \in Seq([key : RowKeys, bytes : Nat])
BY DbAssumption DEF DbAssumption, Entries

\* Before the first chunk, nothing is locked and nothing done.
LEMMA NothingAlike ==
    ASSUME NEW T, NEW m, NEW args \in Seq(Entries), NEW upsert
    PROVE  Alike({}, {}, 0, 0, Run(T, m, args, upsert)[0], T)
<1>1. Run(T, m, args, upsert)[0] = Before(T, m)
    <2>1. Len(args) \in Nat
        OBVIOUS
    <2>2. QED
        BY <2>1, RunIsOf DEF RunOf
<1>2. Before(T, m).affected = 0 /\ Before(T, m).first = 0
    BY DEF Before
<1>3. QED
    BY <1>1, <1>2 DEF Alike

LEMMA BeginInsertInv ==
    ASSUME DbInv, NEW w \in Writers, BeginInsert(w)
    PROVE  DbInv'
<1> DEFINE rec == call[w]
           previous(s) == IF w \in Upserts THEN session[s] ELSE 0
           new(s) == [rec EXCEPT !.step = "chunk", !.conn = s, !.i = 1, !.previous = previous(s)]
<1>1. w \in Callers
    BY DEF Callers
<1>2. PICK s \in Conns : call' = [call EXCEPT ![w] = new(s)]
    BY DEF BeginInsert
<1>3. rec.step = "ready" /\ Alone
    BY DEF BeginInsert, Alone
<1>4. /\ Fields(rec) /\ Idle(rec) /\ rec.args \in Inserts /\ rec.affected = 0 /\ rec.first = 0
      /\ previous(s) \in Nat
    BY <1>1, <1>3 DEF DbInv, WriteCall
<1> DEFINE after == new(s)
<1> HIDE DEF rec, previous
<1>5. /\ Fields(after) /\ Idle(after) /\ after.step = "chunk" /\ after.args = rec.args
      /\ after.conn = s /\ after.i = 1 /\ after.previous = previous(s)
      /\ after.affected = 0 /\ after.first = 0
    <2>1. PICK old : old = rec
        OBVIOUS
    <2>2. /\ Fields(old) /\ old.locked = {} /\ old.view = {} /\ old.args = rec.args
          /\ old.affected = 0 /\ old.first = 0
        BY <1>4, <2>1 DEF Idle
    <2>3. after = [old EXCEPT !.step = "chunk", !.conn = s, !.i = 1, !.previous = previous(s)]
        BY <2>1
    <2> HIDE DEF after
    <2>4. QED
        BY <2>2, <2>3 DEF Fields, Idle
<1> HIDE DEF new
<1>6. after = new(s)
    OBVIOUS
<1> HIDE DEF after
<1>7. PICK args \in Seq(Entries) : args = rec.args
    BY <1>4, ArgsAre
<1>8. /\ Starts(args)[0] = 0 /\ Len(Chunks(args)) \in Nat \ {0}
      /\ KeysUpTo(args, 0) = {}
    BY FirstAndLast, ChunksAre, KeysOfAll
<1>9. \A T, m : Alike({}, {}, 0, 0, Run(T, m, args, w \in Upserts)[0], T)
    BY NothingAlike
<1>10. InChunks(after, w \in Upserts, table)
    <2>1. Shape({})
        BY FS_EmptySet DEF Shape, UniqueKeys, UniqueIds
    <2>2. 1 - 1 = 0 /\ 1 \in 1 .. Len(Chunks(args)) + 1 /\ 1 # Len(Chunks(args)) + 1
        BY <1>8
    <2>3. after.i - 1 = 0 /\ after.args = args
        BY <1>5, <1>7
    <2>4. Starts(after.args)[after.i - 1] = 0
        BY <1>8, <2>3
    <2>5. after.args \in Inserts /\ after.previous \in Nat /\ after.locked = {} /\ after.view = {}
        BY <1>4, <1>5 DEF Idle
    <2>6. \A T, m : Alike(after.locked, after.view, after.affected, after.first,
                          Run(T, m, after.args, w \in Upserts)[0], T)
        BY <1>5, <1>9, <2>3, <2>5
    <2>7. QED
        BY <1>5, <1>8, <2>1, <2>2, <2>3, <2>4, <2>5, <2>6 DEF InChunks
<1>11. w \notin Readers
    BY CallersAre, DbAssumption
<1>12. WriteCall(after, w \in Upserts, table)
    BY <1>5, <1>10 DEF WriteCall
<1>13. call' = [call EXCEPT ![w] = after]
    BY <1>2, <1>6
<1>14. QED
    BY <1>1, <1>3, <1>5, <1>11, <1>12, <1>13, AloneInv

-----------------------------------------------------------------------------
(* Lookups *)

LEMMA ListOfSet ==
    ASSUME NEW E, NEW S \in SUBSET E, IsFiniteSet(S)
    PROVE  SetToSeq(S) \in Seq(E) /\ IsInjective(SetToSeq(S)) /\ ToSet(SetToSeq(S)) = S
<1> DEFINE n == Cardinality(S)
           f == SetToSeq(S)
<1>1. n \in Nat /\ ExistsBijection(1 .. n, S)
    BY FS_CardinalityType
<1>2. \E g \in [1 .. n -> S] : IsInjective(g)
    BY <1>1 DEF ExistsBijection, Bijection, Injection
<1>3. f \in [1 .. n -> S] /\ IsInjective(f)
    BY <1>2 DEF SetToSeq
<1> HIDE DEF f
<1>4. f \in Injection(1 .. n, S)
    BY <1>3 DEF Injection
<1>5. Cardinality(1 .. n) = n
    BY <1>1, FS_Interval
<1>6. f \in Surjection(1 .. n, S)
    BY <1>4, <1>5, FS_Injection
<1>7. \A x \in S : \E i \in 1 .. n : f[i] = x
    BY <1>6 DEF Surjection
<1>8. ToSet(f) = S
    BY <1>3, <1>7 DEF ToSet
<1>9. f \in Seq(E)
    BY <1>1, <1>3
<1>10. QED
    BY <1>3, <1>8, <1>9 DEF f

LEMMA JoinedLists ==
    ASSUME NEW E, NEW s \in Seq(E), NEW t \in Seq(E), IsInjective(s), IsInjective(t),
           ToSet(s) \cap ToSet(t) = {}
    PROVE  s \o t \in Seq(E) /\ IsInjective(s \o t) /\ ToSet(s \o t) = ToSet(s) \cup ToSet(t)
<1> DEFINE c == s \o t
<1>1. /\ c \in Seq(E) /\ Len(s) \in Nat /\ Len(t) \in Nat /\ Len(c) = Len(s) + Len(t)
      /\ \A i \in 1 .. Len(s) + Len(t) : c[i] = IF i <= Len(s) THEN s[i] ELSE t[i - Len(s)]
    BY ConcatProperties
<1>2. DOMAIN s = 1 .. Len(s) /\ DOMAIN t = 1 .. Len(t) /\ DOMAIN c = 1 .. Len(s) + Len(t)
    BY <1>1
<1> HIDE DEF c
<1>3. \A i \in DOMAIN c :
        \/ i \in DOMAIN s /\ c[i] = s[i]
        \/ i \notin DOMAIN s /\ i - Len(s) \in DOMAIN t /\ c[i] = t[i - Len(s)]
    BY <1>1, <1>2
<1>4. \A i \in DOMAIN s : i \in DOMAIN c /\ c[i] = s[i]
    BY <1>1, <1>2
<1>5. \A i \in DOMAIN t : i + Len(s) \in DOMAIN c /\ c[i + Len(s)] = t[i]
    BY <1>1, <1>2
<1>6. ToSet(c) = ToSet(s) \cup ToSet(t)
    <2>1. \A x \in ToSet(c) : x \in ToSet(s) \cup ToSet(t)
        BY <1>3 DEF ToSet
    <2>2. \A x \in ToSet(s) : x \in ToSet(c)
        BY <1>4 DEF ToSet
    <2>3. \A x \in ToSet(t) : x \in ToSet(c)
        BY <1>5 DEF ToSet
    <2>4. QED
        BY <2>1, <2>2, <2>3
<1>7. IsInjective(c)
    <2>1. SUFFICES ASSUME NEW i \in DOMAIN c, NEW j \in DOMAIN c, c[i] = c[j] PROVE i = j
        BY DEF IsInjective
    <2>2. \A k \in DOMAIN s : s[k] \in ToSet(s)
        BY DEF ToSet
    <2>3. \A k \in DOMAIN t : t[k] \in ToSet(t)
        BY DEF ToSet
    <2>4. CASE i \in DOMAIN s /\ j \in DOMAIN s
        BY <1>3, <2>1, <2>4 DEF IsInjective
    <2>5. CASE i \notin DOMAIN s /\ j \notin DOMAIN s
        <3>1. i - Len(s) = j - Len(s)
            BY <1>3, <2>1, <2>5 DEF IsInjective
        <3>2. QED
            BY <1>1, <1>2, <3>1
    <2>6. ~(i \in DOMAIN s /\ j \notin DOMAIN s) /\ ~(j \in DOMAIN s /\ i \notin DOMAIN s)
        BY <1>3, <2>1, <2>2, <2>3
    <2>7. QED
        BY <2>4, <2>5, <2>6
<1>8. QED
    BY <1>1, <1>6, <1>7 DEF c

\* What a reader's step leaves alone, and what is known of its call
LEMMA ReaderIs ==
    ASSUME DbInv, NEW r \in Readers
    PROVE  /\ r \in Callers /\ r \notin Writers /\ Fields(call[r]) /\ ReadCall(call[r], moments[r])
           /\ MomentsRight(call[r], moments[r], table)
<1>1. r \in Callers /\ r \notin Writers
    BY CallersAre, DbAssumption
<1>2. QED
    BY <1>1 DEF DbInv

LEMMA ReaderStep ==
    ASSUME DbInv, NEW r \in Readers, NEW new, call' = [call EXCEPT ![r] = new], Fields(new), Alone,
           ~Over(call[r]), ReadCall(new, moments[r])
    PROVE  DbInv'
<1>1. r \in Callers /\ r \notin Writers
    BY ReaderIs
<1>2. MomentsRight(new, moments[r], table)
    BY ReaderIs DEF MomentsRight
<1>3. QED
    BY <1>1, <1>2, AloneInv

LEMMA MatchingIn ==
    ASSUME NEW m, NEW args, Shape(m)
    PROVE  LET M == Matching(m, args)
           IN  Shape(M) /\ \A r \in M : r.key \in KeysIn(args)
<1> DEFINE M == Matching(m, args)
<1>1. M \subseteq m
    BY DEF Matching
<1>2. IsFiniteSet(M)
    BY <1>1, FS_Subset DEF Shape
<1>3. \A r \in M : r.key \in KeysIn(args)
    BY DEF Matching
<1> HIDE DEF M
<1>4. Shape(M)
    BY <1>1, <1>2 DEF Shape, UniqueKeys, UniqueIds
<1>5. QED
    BY <1>3, <1>4 DEF M

LEMMA LookUpOnceInv ==
    ASSUME DbInv, NEW r \in Readers, LookUpOnce(r)
    PROVE  DbInv'
<1> DEFINE rec == call[r]
           M == Matching(table, rec.args)
           new == [rec EXCEPT !.step = "done", !.rows = SetToSeq(M)]
<1>1. call' = [call EXCEPT ![r] = new] /\ Alone /\ rec.step = "ready"
    BY DEF LookUpOnce, Alone
<1>2. Fields(rec) /\ ReadCall(rec, moments[r]) /\ ~Over(rec) /\ table \in moments[r] /\ Shape(table)
    BY <1>1, ReaderIs DEF MomentsRight, Over
<1>3. Shape(M)
    BY <1>2, MatchingIn
<1> HIDE DEF M
<1>4. SetToSeq(M) \in Seq(Rows) /\ IsInjective(SetToSeq(M)) /\ ToSet(SetToSeq(M)) = M
    BY <1>3, ListOfSet DEF Shape
<1>5. PICK old, list : old = rec /\ list = SetToSeq(M)
    OBVIOUS
<1>6. Fields(old) /\ old.locked = {} /\ new = [old EXCEPT !.step = "done", !.rows = list]
    BY <1>2, <1>5 DEF ReadCall
<1> HIDE DEF new
<1>7. Fields(new) /\ new.step = "done" /\ new.rows = list /\ new.locked = {} /\ new.args = old.args
    BY <1>6 DEF Fields
<1>8. M = Matching(table, new.args)
    BY <1>5, <1>7 DEF M
<1>9. ReadCall(new, moments[r])
    BY <1>2, <1>4, <1>5, <1>7, <1>8 DEF ReadCall
<1>10. QED
    BY <1>1, <1>2, <1>7, <1>9, ReaderStep

LEMMA BeginLookupInv ==
    ASSUME DbInv, NEW r \in Readers, BeginLookup(r)
    PROVE  DbInv'
<1> DEFINE rec == call[r]
           M == Matching(table, rec.args)
           step == IF r \in Streams THEN "stream" ELSE "chunk"
           new(s) == [rec EXCEPT !.step = step, !.conn = s, !.i = 1, !.view = M]
<1>1. PICK s \in Conns : call' = [call EXCEPT ![r] = new(s)]
    BY DEF BeginLookup
<1>2. Alone /\ rec.step = "ready"
    BY DEF BeginLookup, Alone
<1>3. /\ Fields(rec) /\ ReadCall(rec, moments[r]) /\ ~Over(rec) /\ table \in moments[r]
      /\ Shape(table) /\ rec.args \in Lookups /\ rec.rows = <<>> /\ rec.locked = {}
    BY <1>2, ReaderIs DEF MomentsRight, Over, ReadCall
<1>4. PICK old, rows, after : old = rec /\ rows = M /\ after = new(s)
    OBVIOUS
<1>5. /\ Fields(old) /\ old.locked = {} /\ old.rows = <<>> /\ old.args \in Lookups
      /\ after = [old EXCEPT !.step = step, !.conn = s, !.i = 1, !.view = rows]
      /\ rows = Matching(table, old.args) /\ call' = [call EXCEPT ![r] = after]
    BY <1>1, <1>3, <1>4
<1> HIDE DEF new, M, rec
<1>6. /\ Fields(after) /\ after.step = step /\ after.rows = <<>> /\ after.locked = {}
      /\ after.args = old.args /\ after.i = 1 /\ after.view = rows
    BY <1>5 DEF Fields
<1>7. IsInjective(<<>>) /\ ToSet(<<>>) = {} /\ <<>> \in Seq(Rows)
    BY DEF IsInjective, ToSet
<1>8. PICK args \in Seq([key : RowKeys, bytes : Nat]) : args = old.args
    BY <1>5, ArgsAre
<1>9. Starts(args)[0] = 0 /\ Len(Chunks(args)) \in Nat \ {0} /\ KeysUpTo(args, 0) = {}
    BY FirstAndLast, ChunksAre, KeysOfAll
<1>10. ReadCall(after, moments[r])
    <2>1. CASE r \in Streams
        BY <1>3, <1>5, <1>6, <1>7, <2>1 DEF ReadCall
    <2>2. CASE r \notin Streams
        <3>1. after.step = "chunk" /\ after.args \in Lookups /\ after.args = args
            BY <1>5, <1>6, <1>8, <2>2
        <3>2. after.i \in 1 .. Len(Chunks(after.args)) /\ after.i - 1 = 0
            BY <1>6, <1>9, <3>1
        <3>3. OfKeys(after.view, KeysUpTo(after.args, Starts(after.args)[after.i - 1])) = {}
            BY <1>9, <3>1, <3>2 DEF OfKeys
        <3>4. QED
            BY <1>3, <1>5, <1>6, <1>7, <3>1, <3>2, <3>3 DEF ReadCall
    <2>3. QED
        BY <2>1, <2>2
<1>11. QED
    BY <1>2, <1>3, <1>5, <1>6, <1>10, ReaderStep DEF rec

LEMMA ConsumeRowInv ==
    ASSUME DbInv, NEW r \in Readers, ConsumeRow(r)
    PROVE  DbInv'
<1>1. PICK old, tables : old = call[r] /\ tables = moments[r]
    OBVIOUS
<1>2. old.step = "stream" /\ Alone
    BY <1>1 DEF ConsumeRow, Alone
<1>3. PICK row \in old.view :
        call' = [call EXCEPT ![r] = [old EXCEPT !.rows = Append(@, row), !.view = @ \ {row}]]
    BY <1>1 DEF ConsumeRow
<1>4. PICK new : new = [old EXCEPT !.rows = Append(@, row), !.view = @ \ {row}]
    OBVIOUS
<1>5. Fields(old) /\ ReadCall(old, tables) /\ MomentsRight(old, tables, table)
    BY <1>1, ReaderIs
<1>6. /\ Fields(new) /\ new.step = "stream" /\ new.rows = Append(old.rows, row)
      /\ new.view = old.view \ {row} /\ new.args = old.args /\ new.locked = old.locked
    BY <1>2, <1>4, <1>5 DEF Fields
<1>7. PICK m \in tables : ToSet(old.rows) \cup old.view = Matching(m, old.args)
    BY <1>2, <1>5 DEF ReadCall
<1>8. /\ old.rows \in Seq(Rows) /\ old.locked = {} /\ old.args \in Lookups
      /\ IsInjective(old.rows) /\ ToSet(old.rows) \cap old.view = {}
    BY <1>2, <1>5 DEF ReadCall
<1>9. row \in Rows
    <2>1. row \in m
        BY <1>7 DEF Matching
    <2>2. QED
        BY <1>5, <2>1 DEF MomentsRight, Shape
<1>10. PICK s \in Seq(Rows), t \in Seq(Rows) : s = old.rows /\ t = <<row>>
    <2>1. <<row>> \in Seq(Rows)
        BY <1>9
    <2>2. QED
        BY <1>8, <2>1
<1>11. IsInjective(t) /\ ToSet(t) = {row} /\ Append(s, row) = s \o t
    BY <1>9, <1>10 DEF IsInjective, ToSet
<1>12. s \o t \in Seq(Rows) /\ IsInjective(s \o t) /\ ToSet(s \o t) = ToSet(s) \cup ToSet(t)
    <2>1. IsInjective(s) /\ ToSet(s) \cap ToSet(t) = {}
        BY <1>8, <1>10, <1>11
    <2>2. QED
        BY <1>11, <2>1, JoinedLists
<1>13. /\ new.rows \in Seq(Rows) /\ IsInjective(new.rows)
       /\ ToSet(new.rows) = ToSet(old.rows) \cup {row}
    BY <1>6, <1>10, <1>11, <1>12
<1>14. /\ ToSet(new.rows) \cup new.view = Matching(m, new.args)
       /\ ToSet(new.rows) \cap new.view = {}
    BY <1>6, <1>7, <1>8, <1>13
<1>15. ReadCall(new, tables)
    BY <1>6, <1>8, <1>13, <1>14 DEF ReadCall
<1>16. QED
    BY <1>1, <1>2, <1>3, <1>4, <1>6, <1>15, ReaderStep DEF Over

LEMMA EndStreamInv ==
    ASSUME DbInv, NEW r \in Readers, EndStream(r)
    PROVE  DbInv'
<1>1. PICK old, tables : old = call[r] /\ tables = moments[r]
    OBVIOUS
<1>2. old.step = "stream" /\ old.view = {} /\ Alone
    BY <1>1 DEF EndStream, Alone
<1>3. PICK new : new = [old EXCEPT !.step = "done", !.conn = NoConn]
    OBVIOUS
<1>4. call' = [call EXCEPT ![r] = new]
    BY <1>1, <1>3 DEF EndStream
<1>5. Fields(old) /\ ReadCall(old, tables)
    BY <1>1, ReaderIs
<1>6. /\ Fields(new) /\ new.step = "done" /\ new.rows = old.rows
      /\ new.args = old.args /\ new.locked = old.locked
    BY <1>3, <1>5 DEF Fields
<1>7. ReadCall(new, tables)
    BY <1>2, <1>5, <1>6 DEF ReadCall
<1>8. QED
    BY <1>1, <1>2, <1>4, <1>6, <1>7, ReaderStep DEF Over

\* The rows of a chunk that are new are those of its keys that no chunk before had.
NewRows(V, c, rows) == {r \in Matching(V, c) : \A i \in DOMAIN rows : rows[i].id # r.id}

LEMMA FreshRows ==
    ASSUME NEW V, Shape(V), NEW K, NEW c, NEW rows \in Seq(Rows),
           ToSet(rows) = OfKeys(V, K)
    PROVE  LET fresh == NewRows(V, c, rows)
           IN  /\ fresh \in SUBSET Rows /\ IsFiniteSet(fresh) /\ ToSet(rows) \cap fresh = {}
               /\ ToSet(rows) \cup fresh = OfKeys(V, K \cup KeysIn(c))
<1> DEFINE fresh == NewRows(V, c, rows)
<1>1. fresh \subseteq V
    BY DEF Matching, NewRows
<1>2. fresh \in SUBSET Rows /\ IsFiniteSet(fresh)
    <2>1. V \subseteq Rows /\ IsFiniteSet(V)
        BY DEF Shape
    <2> HIDE DEF fresh
    <2>2. QED
        BY <1>1, <2>1, FS_Subset
<1>3. ASSUME NEW r \in fresh PROVE r \notin ToSet(rows) /\ r \in V /\ r.key \in KeysIn(c)
    BY DEF Matching, NewRows, ToSet
<1>4. ASSUME NEW r \in V, r.key \in KeysIn(c), r \notin fresh PROVE r \in ToSet(rows)
    <2>1. PICK i \in DOMAIN rows : rows[i].id = r.id
        BY <1>4 DEF Matching, NewRows
    <2>2. rows[i] \in ToSet(rows)
        BY DEF ToSet
    <2>3. rows[i] \in V
        BY <2>2 DEF OfKeys
    <2>4. rows[i] = r
        BY <2>1, <2>3 DEF Shape, UniqueIds
    <2>5. QED
        BY <2>2, <2>4
<1> HIDE DEF fresh
<1>5. ToSet(rows) \cup fresh = OfKeys(V, K \cup KeysIn(c))
    BY <1>3, <1>4 DEF OfKeys
<1>6. QED
    BY <1>2, <1>3, <1>5 DEF fresh

LEMMA LookUpChunkInv ==
    ASSUME DbInv, NEW r \in Readers, LookUpChunk(r)
    PROVE  DbInv'
<1>1. PICK old, tables : old = call[r] /\ tables = moments[r]
    OBVIOUS
<1> DEFINE c == Chunks(old.args)[old.i]
           fresh == NewRows(old.view, c, old.rows)
           over == old.i = Len(Chunks(old.args))
<1>2. old.step = "chunk" /\ Alone
    BY <1>1 DEF LookUpChunk, Alone
<1>3. PICK list : list = SetToSeq(fresh)
    OBVIOUS
<1>4. PICK new : new = [old EXCEPT !.rows = @ \o list, !.i = @ + 1,
                               !.step = IF over THEN "done" ELSE "chunk",
                               !.conn = IF over THEN NoConn ELSE @,
                               !.view = IF over THEN {} ELSE @]
    OBVIOUS
<1>5. call' = [call EXCEPT ![r] = new]
    <2> DEFINE over1 == call[r].i = Len(Chunks(call[r].args))
               fresh1 == NewRows(call[r].view, Chunks(call[r].args)[call[r].i], call[r].rows)
    <2>1. call' = [call EXCEPT ![r] =
                     [call[r] EXCEPT !.rows = @ \o SetToSeq(fresh1), !.i = @ + 1,
                                     !.step = IF over1 THEN "done" ELSE "chunk",
                                     !.conn = IF over1 THEN NoConn ELSE @,
                                     !.view = IF over1 THEN {} ELSE @]]
        BY DEF LookUpChunk, Chunk, NewRows
    <2>2. fresh1 = fresh /\ (over1 <=> over)
        BY <1>1
    <2> HIDE DEF fresh, fresh1
    <2>3. list = SetToSeq(fresh1)
        BY <1>3, <2>2
    <2>4. QED
        BY <1>1, <1>4, <2>1, <2>2, <2>3
<1>6. Fields(old) /\ ReadCall(old, tables) /\ MomentsRight(old, tables, table)
    BY <1>1, ReaderIs
<1> HIDE DEF fresh
<1>7. /\ Fields(new) /\ new.rows = old.rows \o list /\ new.i = old.i + 1
      /\ new.step = IF over THEN "done" ELSE "chunk"
      /\ new.view = IF over THEN {} ELSE old.view
      /\ new.args = old.args /\ new.locked = old.locked
    BY <1>4, <1>6 DEF Fields
<1>8. PICK m \in tables : old.view = Matching(m, old.args)
    BY <1>2, <1>6 DEF ReadCall
<1>9. PICK args \in Seq([key : RowKeys, bytes : Nat]) : args = old.args
    BY <1>2, <1>6, ArgsAre DEF ReadCall
<1>10. PICK p, q : p = Starts(args)[old.i - 1] /\ q = Starts(args)[old.i]
    OBVIOUS
<1>11. /\ old.rows \in Seq(Rows) /\ old.locked = {} /\ args \in Lookups
       /\ old.i \in 1 .. Len(Chunks(args)) /\ IsInjective(old.rows)
       /\ ToSet(old.rows) = OfKeys(old.view, KeysUpTo(args, p))
    BY <1>2, <1>6, <1>9, <1>10 DEF ReadCall
<1>12. Shape(old.view) /\ \A row \in old.view : row.key \in KeysIn(args)
    <2>1. Shape(m)
        BY <1>6 DEF MomentsRight
    <2>2. QED
        BY <1>8, <1>9, <2>1, MatchingIn
<1>13. ChunkRight([key : RowKeys, bytes : Nat], args, c, p, q)
    BY <1>9, <1>10, <1>11, ChunkAt
<1>14. KeysUpTo(args, q) = KeysUpTo(args, p) \cup KeysIn(c)
    BY <1>13, ChunkKeys
<1>15. /\ fresh \in SUBSET Rows /\ IsFiniteSet(fresh) /\ ToSet(old.rows) \cap fresh = {}
       /\ ToSet(old.rows) \cup fresh = OfKeys(old.view, KeysUpTo(args, q))
    <2>0. PICK V, K : V = old.view /\ K = KeysUpTo(args, p)
        OBVIOUS
    <2>1. PICK rows \in Seq(Rows) : V = old.view /\ K = KeysUpTo(args, p) /\ rows = old.rows
        BY <1>11, <2>0
    <2>2. Shape(V) /\ ToSet(rows) = OfKeys(V, K)
        BY <1>11, <1>12, <2>1
    <2>3. fresh = NewRows(V, c, rows)
        BY <2>1 DEF fresh
    <2> HIDE DEF c
    <2>4. /\ fresh \in SUBSET Rows /\ IsFiniteSet(fresh) /\ ToSet(rows) \cap fresh = {}
          /\ ToSet(rows) \cup fresh = OfKeys(V, K \cup KeysIn(c))
        BY <2>2, <2>3, FreshRows
    <2>5. QED
        BY <1>14, <2>1, <2>4
<1>16. list \in Seq(Rows) /\ IsInjective(list) /\ ToSet(list) = fresh
    BY <1>3, <1>15, ListOfSet
<1>17. /\ new.rows \in Seq(Rows) /\ IsInjective(new.rows)
       /\ ToSet(new.rows) = OfKeys(old.view, KeysUpTo(args, q))
    <2>1. PICK s \in Seq(Rows) : s = old.rows
        BY <1>11
    <2>2. IsInjective(s) /\ ToSet(s) \cap ToSet(list) = {}
        BY <1>11, <1>15, <1>16, <2>1
    <2>3. s \o list \in Seq(Rows) /\ IsInjective(s \o list) /\ ToSet(s \o list) = ToSet(s) \cup ToSet(list)
        BY <1>16, <2>2, JoinedLists
    <2>4. QED
        BY <1>7, <1>15, <1>16, <2>1, <2>3
<1> HIDE DEF c
<1>18. Len(Chunks(args)) \in Nat
    BY ChunksAre
<1>19. ReadCall(new, tables)
    <2>1. CASE over
        <3>1. q = Len(args)
            BY <1>9, <1>10, <2>1, FirstAndLast
        <3>2. KeysUpTo(args, q) = KeysIn(args)
            BY <3>1, KeysOfAll
        <3>3. ToSet(new.rows) = Matching(m, new.args)
            BY <1>7, <1>8, <1>12, <1>17, <3>2 DEF OfKeys
        <3>4. QED
            BY <1>7, <1>11, <1>17, <2>1, <3>3 DEF ReadCall
    <2>2. CASE ~over
        <3>1. new.i \in 1 .. Len(Chunks(args)) /\ new.i - 1 = old.i
            BY <1>7, <1>9, <1>11, <1>18, <2>2
        <3>2. /\ new.step = "chunk" /\ new.args = args /\ new.locked = {} /\ new.view = old.view
              /\ Starts(new.args)[new.i - 1] = q
            BY <1>7, <1>9, <1>10, <1>11, <2>2, <3>1
        <3>3. QED
            BY <1>8, <1>9, <1>11, <1>17, <3>1, <3>2 DEF ReadCall
    <2>3. QED
        BY <2>1, <2>2
<1>20. QED
    BY <1>1, <1>2, <1>5, <1>7, <1>19, ReaderStep DEF Over

-----------------------------------------------------------------------------
(* Steps that change the table *)

Answered(rec) == Fields(rec) /\ Idle(rec) /\ rec.step \in {"done", "failed"}

\* The other writers see what they locked as it was, and no id of theirs is taken.
Undisturbed(R, n) ==
    \A w \in Writers : call'[w] = call[w] =>
        SameOn(call[w].locked, R, table) /\ IdsApart(call[w].view, R, n)

LEMMA StoreInv ==
    ASSUME DbInv, NEW R, Store(R), Shape(R), nextId' \in Nat \ {0}, Below(R, nextId'),
           session' \in [Conns -> Nat], call' = [c \in Callers |-> call'[c]],
           \A c \in Callers : call'[c] = call[c] \/ (c \in Writers /\ Answered(call'[c])),
           Undisturbed(R, nextId')
    PROVE  DbInv'
<1>1. Callers = Writers \cup Readers /\ Writers \cap Readers = {}
    BY CallersAre, DbAssumption
<1>2. /\ table' = R
      /\ moments' = [r \in Readers |-> IF Over(call[r]) THEN moments[r] ELSE moments[r] \cup {R}]
    BY DEF Store, Over
<1>3. \A c \in Callers : Fields(call'[c])
    BY DEF DbInv, Answered
<1>4. ASSUME NEW w \in Writers
      PROVE  WriteCall(call'[w], w \in Upserts, R) /\ IdsApart(call'[w].view, R, nextId')
    <2>1. CASE call'[w] = call[w]
        <3>1. SameOn(call[w].locked, R, table) /\ IdsApart(call[w].view, R, nextId')
            BY <2>1 DEF Undisturbed
        <3>2. PICK rec : rec = call[w]
            OBVIOUS
        <3>3. WriteCall(rec, w \in Upserts, table) /\ SameOn(rec.locked, R, table)
            BY <3>1, <3>2 DEF DbInv
        <3>4. WriteCall(rec, w \in Upserts, R)
            BY <3>3, WriteKept
        <3>5. QED
            BY <2>1, <3>1, <3>2, <3>4
    <2>2. CASE Answered(call'[w])
        BY <2>2 DEF Answered, WriteCall, Idle, IdsApart, Below
    <2>3. QED
        BY <1>1, <2>1, <2>2
<1>5. ASSUME NEW r \in Readers
      PROVE  ReadCall(call'[r], moments'[r]) /\ MomentsRight(call'[r], moments'[r], R)
    <2>1. call'[r] = call[r]
        BY <1>1
    <2>2. PICK rec, old, new : rec = call[r] /\ old = moments[r] /\ new = moments'[r]
        OBVIOUS
    <2>3. ReadCall(rec, old) /\ MomentsRight(rec, old, table)
        BY <2>2 DEF DbInv
    <2>4. new = IF Over(rec) THEN old ELSE old \cup {R}
        BY <1>2, <2>2
    <2>5. old \subseteq new
        BY <2>4
    <2>6. ReadCall(rec, new)
        BY <2>3, <2>5, ReadKept
    <2>7. MomentsRight(rec, new, R)
        BY <2>3, <2>4 DEF MomentsRight
    <2>8. QED
        BY <2>1, <2>2, <2>6, <2>7
<1>6. \A c \in Callers : call'[c] = call[c] \/ (c \in Writers /\ Idle(call'[c]))
    BY DEF Answered
<1>6a. LocksApart /\ ViewsApart
    BY DEF DbInv
<1>7. LocksApart'
    BY <1>6, <1>6a DEF LocksApart, Idle
<1>8. ViewsApart'
    BY <1>1, <1>6, <1>6a DEF ViewsApart, Idle
<1>9. moments' = [r \in Readers |-> moments'[r]]
    BY <1>2
<1>10. QED
    BY <1>2, <1>3, <1>4, <1>5, <1>7, <1>8, <1>9 DEF DbInv

LEMMA RemoveInv ==
    ASSUME DbInv, RemoveRow
    PROVE  DbInv'
<1>1. PICK r \in table : /\ \A c \in Callers : r.key \notin call[c].locked
                         /\ Store(table \ {r}) /\ UNCHANGED <<nextId, session, call>>
    BY DEF RemoveRow
<1> DEFINE R == table \ {r}
<1>2. R \subseteq table /\ Shape(table) /\ Below(table, nextId)
    BY DEF DbInv
<1>3. IsFiniteSet(R)
    BY <1>2, FS_Subset DEF Shape
<1>4. Shape(R) /\ Below(R, nextId)
    BY <1>2, <1>3 DEF Shape, UniqueKeys, UniqueIds, Below
<1>5. \A w \in Writers : SameOn(call[w].locked, R, table)
    BY <1>1 DEF SameOn, Callers
<1>6. \A w \in Writers : IdsApart(call[w].view, R, nextId)
    BY <1>2 DEF DbInv, IdsApart
<1> HIDE DEF R
<1>7. Undisturbed(R, nextId')
    BY <1>1, <1>5, <1>6 DEF Undisturbed
<1>8. Store(R)
    BY <1>1 DEF R
<1>9. nextId' = nextId /\ nextId \in Nat \ {0} /\ session' \in [Conns -> Nat] /\ call' = call
      /\ call' = [c \in Callers |-> call'[c]]
    BY <1>1 DEF DbInv
<1>10. Below(R, nextId') /\ nextId' \in Nat \ {0}
    BY <1>4, <1>9
<1>11. \A c \in Callers : call'[c] = call[c]
    BY <1>9
<1>12. QED
    BY <1>4, <1>7, <1>8, <1>9, <1>10, <1>11, StoreInv

\* What a statement makes of a table of unique ids
StatementRight(V, n, c, upsert, st) ==
    /\ RunRight(V, n, c, upsert, st, Len(c)) /\ RunIds(V, n, st)
    /\ Shape(st.rows) /\ Below(st.rows, st.next)
    /\ st.next \in Nat \ {0} /\ st.next >= n /\ st.first \in Nat /\ st.affected \in Nat
    /\ \A r : r.key \notin KeysIn(c) => (r \in st.rows <=> r \in V)
    /\ \A r \in st.rows : r.id >= n \/ \E q \in V : q.id = r.id /\ q.key = r.key

LEMMA StatementIs ==
    ASSUME NEW V, Shape(V), NEW n \in Nat \ {0}, Below(V, n), NEW c \in Seq(Entries),
           NEW upsert \in BOOLEAN
    PROVE  StatementRight(V, n, c, upsert, Insert(V, n, c, upsert))
<1> DEFINE st == Insert(V, n, c, upsert)
<1>1. V \in SUBSET Rows /\ UniqueKeys(V) /\ UniqueIds(V) /\ IsFiniteSet(V) /\ \A r \in V : r.id < n
    BY DEF Shape, Below
<1>2. Len(c) \in Nat /\ Len(c) \in 0 .. Len(c)
    OBVIOUS
<1>3. st = Run(V, n, c, upsert)[Len(c)]
    <2>1. RunOf(Run(V, n, c, upsert), V, n, c, upsert)
        BY <1>2, RunIsOf
    <2>2. QED
        BY <2>1 DEF RunOf
<1>4. RunRight(V, n, c, upsert, st, Len(c))
    <2>1. \A i \in 0 .. Len(c) : RunRight(V, n, c, upsert, Run(V, n, c, upsert)[i], i)
        BY <1>1, RunHolds
    <2> HIDE DEF st
    <2>2. QED
        BY <1>2, <1>3, <2>1
<1>5. RunIds(V, n, st)
    <2>1. \A i \in 0 .. Len(c) : RunIds(V, n, Run(V, n, c, upsert)[i])
        BY <1>1, RunIdsHold
    <2> HIDE DEF st
    <2>2. QED
        BY <1>2, <1>3, <2>1
<1>6. KeysUpTo(c, Len(c)) = KeysIn(c)
    BY KeysOfAll
<1> HIDE DEF st
<1>7. StatementRight(V, n, c, upsert, st)
    BY <1>4, <1>5, <1>6 DEF RunRight, RunIds, Shape, Below, StatementRight
<1>8. QED
    BY <1>7 DEF st

\* The records of a call that is over
Done(affected, id) == [NotCalled EXCEPT !.step = "done", !.affected = affected, !.insertId = id]

LEMMA DoneIs ==
    ASSUME NEW affected, NEW id
    PROVE  /\ Answered(Done(affected, id)) /\ Done(affected, id).step = "done"
           /\ Done(affected, id).affected = affected /\ Done(affected, id).insertId = id
<1>1. PICK none : none = NotCalled
    OBVIOUS
<1>2. Fields(none) /\ none.locked = {} /\ none.view = {}
    BY <1>1 DEF Fields, NotCalled
<1>3. PICK rec : /\ rec = Done(affected, id)
                 /\ rec = [none EXCEPT !.step = "done", !.affected = affected, !.insertId = id]
    BY <1>1 DEF Done
<1>4. /\ Fields(rec) /\ Idle(rec) /\ rec.step = "done"
      /\ rec.affected = affected /\ rec.insertId = id
    BY <1>2, <1>3 DEF Fields, Idle
<1>5. QED
    BY <1>3, <1>4 DEF Answered

\* What a writer's transaction wrote is part of a table.
LEMMA ViewShape ==
    ASSUME DbInv, NEW w \in Writers
    PROVE  /\ Shape(call[w].view) /\ IdsApart(call[w].view, table, nextId)
           /\ \A x \in call[w].view : x.id \in Nat /\ x.id < nextId /\ x.key \in call[w].locked
<1>1. WriteCall(call[w], w \in Upserts, table) /\ IdsApart(call[w].view, table, nextId)
    BY DEF DbInv
<1>2. Shape({})
    BY FS_EmptySet DEF Shape, UniqueKeys, UniqueIds
<1>3. Shape(call[w].view) /\ \A x \in call[w].view : x.key \in call[w].locked
    BY <1>1, <1>2 DEF WriteCall, InChunks, Idle
<1>4. \A x \in call[w].view : x.id \in Nat /\ x.id < nextId
    BY <1>1, <1>3 DEF Shape, IdsApart, Below, Rows
<1>5. QED
    BY <1>1, <1>3, <1>4

LEMMA FailedIs ==
    ASSUME NEW c
    PROVE  Answered(AfterError(c, FALSE)) /\ AfterError(c, FALSE).step = "failed"
BY DEF Answered, AfterError, Fields, Idle, NotCalled

LEMMA InsertOnceInv ==
    ASSUME DbInv, NEW w \in Writers, InsertOnce(w)
    PROVE  DbInv'
<1> DEFINE upsert == w \in Upserts
           one == Insert(table, nextId, call[w].args, upsert)
           id == InsertId(one, upsert)
           new == Done(one.affected, id)
<1>1. /\ call[w].step = "ready" /\ Unlocked(w, KeysIn(call[w].args))
      /\ Store(one.rows) /\ nextId' = one.next /\ call' = [call EXCEPT ![w] = new]
    BY DEF InsertOnce, Done
<1>2. PICK s \in Conns :
         session' = IF one.first # 0 THEN [session EXCEPT ![s] = one.first] ELSE session
    BY DEF InsertOnce
<1>3. w \in Callers /\ upsert \in BOOLEAN
    BY DEF Callers
<1>4. call[w].args \in Seq(Entries)
    <2>1. WriteCall(call[w], upsert, table)
        BY DEF DbInv
    <2>2. QED
        BY <1>1, <2>1, ArgsAre DEF WriteCall
<1> HIDE DEF upsert
<1>5. PICK args \in Seq(Entries) : args = call[w].args
    BY <1>4
<1>6. StatementRight(table, nextId, args, upsert, one)
    BY <1>3, <1>5, StatementIs DEF DbInv
<1>7. Answered(new) /\ new.step = "done"
    BY DoneIs
<1> HIDE DEF one, new
<1>8. /\ Shape(one.rows) /\ Below(one.rows, one.next) /\ one.next \in Nat \ {0}
      /\ one.next >= nextId /\ one.first \in Nat
      /\ \A r : r.key \notin KeysIn(args) => (r \in one.rows <=> r \in table)
      /\ \A r \in one.rows : r.id >= nextId \/ \E q \in table : q.id = r.id /\ q.key = r.key
    BY <1>6 DEF StatementRight
<1>9. session' \in [Conns -> Nat]
    BY <1>2, <1>8 DEF DbInv
<1>10. /\ call' = [c \in Callers |-> call'[c]] /\ call'[w] = new
       /\ \A c \in Callers \ {w} : call'[c] = call[c]
    BY <1>1, <1>3 DEF DbInv
<1>11. Undisturbed(one.rows, one.next)
    <2>1. SUFFICES ASSUME NEW v \in Writers, call'[v] = call[v]
                   PROVE  SameOn(call[v].locked, one.rows, table)
                          /\ IdsApart(call[v].view, one.rows, one.next)
        BY DEF Undisturbed
    <2>2. v # w /\ v \in Callers
        BY <1>1, <1>7, <1>10, <2>1 DEF Callers
    <2>3. call[v].locked \cap KeysIn(args) = {}
        BY <1>1, <1>5, <2>2 DEF Unlocked
    <2>4. SameOn(call[v].locked, one.rows, table)
        BY <1>8, <2>3 DEF SameOn
    <2>5. /\ IdsApart(call[v].view, table, nextId) /\ nextId \in Nat
          /\ \A x \in call[v].view : x.id \in Nat /\ x.id < nextId
        BY ViewShape DEF DbInv
    <2>6. IdsApart(call[v].view, one.rows, one.next)
        <3>2. \A x \in call[v].view : x.id < one.next /\ ~(x.id >= nextId)
            BY <1>8, <2>5
        <3>3. QED
            BY <1>8, <2>5, <3>2 DEF IdsApart, Below
    <2>7. QED
        BY <2>4, <2>6
<1>12. \A c \in Callers : call'[c] = call[c] \/ (c \in Writers /\ Answered(call'[c]))
    BY <1>7, <1>10
<1>13. Store(one.rows)
    BY <1>1
<1>14. QED
    BY <1>1, <1>8, <1>9, <1>10, <1>11, <1>12, <1>13, StoreInv

\* What a transaction sees is a table: its rows under its locks, the committed ones elsewhere.
VisibleRight(w, V) ==
    /\ Shape(V) /\ Below(V, nextId)
    /\ \A r \in V : r \in table \/ r \in call[w].view
    /\ SameOn(call[w].locked, V, call[w].view)
    /\ \A r : r.key \notin call[w].locked => (r \in V <=> r \in table)

LEMMA VisibleIs ==
    ASSUME DbInv, NEW w \in Writers
    PROVE  VisibleRight(w, Visible(w))
<1> DEFINE locked == call[w].locked
           view == call[w].view
           others == {r \in table : r.key \notin locked}
           V == Visible(w)
<1>1. Shape(table) /\ Below(table, nextId)
    BY DEF DbInv
<1>2. /\ Shape(view) /\ IdsApart(view, table, nextId) /\ \A x \in view : x.key \in locked
    BY ViewShape
<1>3. V = others \cup view /\ others \subseteq table
    BY DEF Visible
<1>4. \A r : r.key \notin locked => (r \in others <=> r \in table)
    OBVIOUS
<1>5. \A r \in others : r.key \notin locked
    OBVIOUS
<1> HIDE DEF V, others, view, locked
<1>6. IsFiniteSet(V)
    <2>1. IsFiniteSet(others)
        BY <1>1, <1>3, FS_Subset DEF Shape
    <2>2. IsFiniteSet(view)
        BY <1>2 DEF Shape
    <2>3. QED
        BY <1>3, <2>1, <2>2, FS_Union
<1>7. V \subseteq Rows
    BY <1>1, <1>2, <1>3 DEF Shape
<1>8. UniqueKeys(V)
    BY <1>1, <1>2, <1>3, <1>5 DEF Shape, UniqueKeys
<1>9. UniqueIds(V)
    <2>1. SUFFICES ASSUME NEW r \in V, NEW q \in V, r.id = q.id PROVE r = q
        BY DEF UniqueIds
    <2>2. CASE r \in others /\ q \in others
        BY <1>1, <1>3, <2>1, <2>2 DEF Shape, UniqueIds
    <2>3. CASE r \in view /\ q \in view
        BY <1>2, <2>1, <2>3 DEF Shape, UniqueIds
    <2>4. \A a \in view, b \in others : a.id # b.id
        BY <1>2, <1>3, <1>5 DEF IdsApart
    <2>5. QED
        BY <1>3, <2>1, <2>2, <2>3, <2>4
<1>10. Below(V, nextId)
    BY <1>1, <1>2, <1>3 DEF Below, IdsApart
<1>11. SameOn(locked, V, view) /\ \A r : r.key \notin locked => (r \in V <=> r \in table)
    BY <1>2, <1>3, <1>4, <1>5 DEF SameOn
<1>12. QED
    BY <1>3, <1>6, <1>7, <1>8, <1>9, <1>10, <1>11 DEF VisibleRight, Shape, V, locked, view

LEMMA CommittedInv ==
    ASSUME DbInv, NEW w \in Writers, call[w].step = "commit", Store(Visible(w)), nextId' = nextId,
           session' \in [Conns -> Nat], NEW new, Answered(new), call' = [call EXCEPT ![w] = new]
    PROVE  DbInv'
<1> DEFINE V == Visible(w)
<1>1. VisibleRight(w, V)
    BY VisibleIs
<1>2. Store(V)
    OBVIOUS
<1> HIDE DEF V
<1>3. w \in Callers /\ nextId \in Nat \ {0}
    BY DEF Callers, DbInv
<1>4. /\ call' = [c \in Callers |-> call'[c]] /\ call'[w] = new
      /\ \A c \in Callers \ {w} : call'[c] = call[c]
    BY <1>3 DEF DbInv
<1>5. Undisturbed(V, nextId)
    <2>1. SUFFICES ASSUME NEW v \in Writers, call'[v] = call[v]
                   PROVE  SameOn(call[v].locked, V, table) /\ IdsApart(call[v].view, V, nextId)
        BY DEF Undisturbed
    <2>2. v # w /\ v \in Callers
        BY <1>4, <2>1 DEF Callers, Answered
    <2>3. call[v].locked \cap call[w].locked = {}
        BY <1>3, <2>2 DEF DbInv, LocksApart
    <2>4. SameOn(call[v].locked, V, table)
        BY <1>1, <2>3 DEF SameOn, VisibleRight
    <2>5. IdsApart(call[v].view, table, nextId)
        BY DEF DbInv
    <2>6. \A x \in call[v].view, u \in call[w].view : x.id # u.id
        BY <2>2 DEF DbInv, ViewsApart
    <2>7. IdsApart(call[v].view, V, nextId)
        BY <1>1, <2>5, <2>6 DEF IdsApart, VisibleRight
    <2>8. QED
        BY <2>4, <2>7
<1>6. \A c \in Callers : call'[c] = call[c] \/ (c \in Writers /\ Answered(call'[c]))
    BY <1>4
<1>7. Shape(V) /\ Below(V, nextId)
    BY <1>1 DEF VisibleRight
<1>8. Undisturbed(V, nextId') /\ Below(V, nextId') /\ nextId' \in Nat \ {0}
    BY <1>3, <1>5, <1>7
<1>9. QED
    BY <1>2, <1>4, <1>6, <1>7, <1>8, StoreInv

LEMMA CommitInsertInv ==
    ASSUME DbInv, NEW w \in Writers, CommitInsert(w)
    PROVE  DbInv'
<1> DEFINE new == Done(call[w].affected, AggregateId(w))
<1>1. /\ call[w].step = "commit" /\ Store(Visible(w)) /\ nextId' = nextId
      /\ call' = [call EXCEPT ![w] = new]
    BY DEF CommitInsert, Done
<1>2. Answered(new)
    BY DoneIs
<1>3. session' \in [Conns -> Nat]
    <2>1. WriteCall(call[w], w \in Upserts, table) /\ session \in [Conns -> Nat]
        BY DEF DbInv
    <2>2. call[w].first \in Nat /\ call[w].previous \in Nat
        BY <1>1, <2>1 DEF WriteCall, InChunks
    <2>3. PICK x : /\ session' = [session EXCEPT ![call[w].conn] = x]
                   /\ x \in Nat \/ x = session[call[w].conn]
        BY <2>2 DEF CommitInsert
    <2>4. QED
        BY <2>1, <2>3
<1> HIDE DEF new
<1>4. QED
    BY <1>1, <1>2, <1>3, CommittedInv

LEMMA CommitUnknownInv ==
    ASSUME DbInv, NEW w \in Writers, CommitUnknown(w)
    PROVE  DbInv'
<1> DEFINE new == AfterError(w, FALSE)
<1>1. /\ call[w].step = "commit" /\ Store(Visible(w)) /\ nextId' = nextId /\ session' = session
      /\ call' = [call EXCEPT ![w] = new]
    BY DEF CommitUnknown
<1>2. Answered(new)
    BY FailedIs
<1>3. session' \in [Conns -> Nat]
    BY <1>1 DEF DbInv
<1> HIDE DEF new
<1>4. QED
    BY <1>1, <1>2, <1>3, CommittedInv

-----------------------------------------------------------------------------
(* A chunk of an insert *)

LEMMA InsertedAlike ==
    ASSUME NEW args \in Seq(Entries), NEW c, NEW p, NEW q, ChunkRight(Entries, args, c, p, q),
           NEW upsert \in BOOLEAN, NEW a \in Nat, NEW f \in Nat,
           NEW view, Shape(view), NEW V, Shape(V), NEW n \in Nat \ {0}, NEW tbl,
           SameOn(KeysUpTo(args, p), V, view),
           \A r : r.key \notin KeysUpTo(args, p) => (r \in V <=> r \in tbl),
           StatementRight(V, n, c, upsert, Insert(V, n, c, upsert)),
           NEW T \in SUBSET Rows, UniqueKeys(T), NEW m \in Nat \ {0},
           SameOn(KeysUpTo(args, q), T, tbl),
           Alike(KeysUpTo(args, p), view, a, f, Run(T, m, args, upsert)[p], T)
    PROVE  LET st == Insert(V, n, c, upsert)
           IN  Alike(KeysUpTo(args, q), OfKeys(st.rows, KeysUpTo(args, q)), a + st.affected,
                     Total(f, st.first), Run(T, m, args, upsert)[q], T)
<1> DEFINE L == KeysUpTo(args, p)
           K == KeysUpTo(args, q)
           one == Run(T, m, args, upsert)[p]
           two == Run(T, m, args, upsert)[q]
           st == Insert(V, n, c, upsert)
           view2 == OfKeys(st.rows, K)
<1>1. K = L \cup KeysIn(c)
    BY ChunkKeys
<1>2. p \in 0 .. Len(args)
    BY DEF ChunkRight
<1>3. UniqueKeys(one.rows) /\ \A r : r.key \notin L => (r \in one.rows <=> r \in T)
    <2>1. RunRight(T, m, args, upsert, one, p)
        BY <1>2, RunHolds
    <2> HIDE DEF one
    <2>2. QED
        BY <2>1 DEF RunRight
<1>4. UniqueKeys(st.rows)
    BY DEF StatementRight, Shape
<1>5. V \in SUBSET Rows /\ UniqueKeys(V) /\ UniqueKeys(view)
    BY DEF Shape
<1>6. Alike(L, view, a, f, one, T) /\ SameOn(L, V, view) /\ SameOn(K, T, tbl)
      /\ \A r : r.key \notin L => (r \in V <=> r \in tbl)
    OBVIOUS
<1>7. L \subseteq K /\ KeysIn(c) \subseteq K
    BY <1>1
<1>8. UniqueKeys(view2) /\ SameOn(K, st.rows, view2)
    BY <1>4 DEF UniqueKeys, SameOn, OfKeys
<1> HIDE DEF L, K, one, two, st, view2
<1>9. Alike(L, V, a, f, one, T)
    <2>1. SameOn(L, view, V)
        BY <1>6 DEF SameOn
    <2>2. QED
        BY <1>5, <1>6, <2>1, AlikeSame
<1>10. Alike(K, V, a, f, one, T)
    <2>1. SameOn(K \ L, V, T)
        BY <1>6 DEF SameOn
    <2>2. SameOn(K \ L, one.rows, T)
        BY <1>3 DEF SameOn
    <2>3. QED
        BY <1>3, <1>5, <1>7, <1>9, <2>1, <2>2, AlikeMore
<1>11. Alike(K, st.rows, a + st.affected, Total(f, st.first), two, T)
    BY <1>5, <1>7, <1>10, AlikeChunk DEF one, two, st
<1>12. Alike(K, view2, a + st.affected, Total(f, st.first), two, T)
    BY <1>4, <1>8, <1>11, AlikeSame
<1>13. QED
    BY <1>12 DEF K, two, st, view2

LEMMA InsertChunkInv ==
    ASSUME DbInv, NEW w \in Writers, InsertChunk(w)
    PROVE  DbInv'
<1> DEFINE upsert == w \in Upserts
<1>1. PICK old, V : old = call[w] /\ V = Visible(w)
    OBVIOUS
<1> DEFINE c == Chunks(old.args)[old.i]
           st == Insert(V, nextId, c, upsert)
           locked == old.locked \cup KeysIn(c)
           over == old.i = Len(Chunks(old.args))
<1>2. /\ old.step = "chunk" /\ Unlocked(w, KeysIn(c)) /\ nextId' = st.next
      /\ table' = table /\ moments' = moments
    BY <1>1 DEF InsertChunk, Chunk
<1>3. PICK new : new = [old EXCEPT !.locked = locked, !.view = OfKeys(st.rows, locked),
                               !.affected = @ + st.affected,
                               !.first = IF @ = 0 THEN st.first ELSE @,
                               !.i = @ + 1,
                               !.step = IF over THEN "commit" ELSE "chunk"]
    OBVIOUS
<1>4. call' = [call EXCEPT ![w] = new]
    BY <1>1, <1>3 DEF InsertChunk, Chunk, OfKeys
<1>5. w \in Callers /\ upsert \in BOOLEAN /\ Fields(old)
    <2>1. w \in Callers
        BY DEF Callers
    <2>2. QED
        BY <1>1, <2>1 DEF DbInv
<1>6. /\ Fields(new) /\ new.locked = locked /\ new.view = OfKeys(st.rows, locked)
      /\ new.affected = old.affected + st.affected /\ new.first = Total(old.first, st.first)
      /\ new.i = old.i + 1 /\ new.step = IF over THEN "commit" ELSE "chunk"
      /\ new.args = old.args /\ new.conn = old.conn /\ new.previous = old.previous
    <2> HIDE DEF st, c
    <2>1. QED
        BY <1>3, <1>5 DEF Fields, Total
<1>7. InChunks(old, upsert, table)
    <2>1. WriteCall(old, upsert, table)
        BY <1>1 DEF DbInv
    <2>2. QED
        BY <1>2, <2>1 DEF WriteCall
<1>8. PICK args \in Seq(Entries) : args = old.args
    BY <1>7, ArgsAre DEF InChunks
<1>9. PICK p, q : p = Starts(args)[old.i - 1] /\ q = Starts(args)[old.i]
    OBVIOUS
<1>10. Len(Chunks(args)) \in Nat \ {0}
    BY ChunksAre
<1>11. /\ args \in Inserts /\ old.conn \in Conns
       /\ old.i \in 1 .. Len(Chunks(args))
       /\ old.affected \in Nat /\ old.first \in Nat /\ old.previous \in Nat
       /\ old.locked = KeysUpTo(args, p) /\ Shape(old.view)
       /\ \A T \in SUBSET Rows, m \in Nat \ {0} :
             UniqueKeys(T) /\ SameOn(old.locked, T, table) =>
                Alike(old.locked, old.view, old.affected, old.first,
                      Run(T, m, args, upsert)[p], T)
    BY <1>2, <1>7, <1>8, <1>9, <1>10 DEF InChunks
<1>12. ChunkRight(Entries, args, c, p, q)
    BY <1>8, <1>9, <1>11, ChunkAt
<1>13. locked = KeysUpTo(args, q)
    BY <1>11, <1>12, ChunkKeys
<1>14. /\ Shape(V) /\ Below(V, nextId) /\ \A r \in V : r \in table \/ r \in old.view
       /\ SameOn(old.locked, V, old.view)
       /\ \A r : r.key \notin old.locked => (r \in V <=> r \in table)
    BY <1>1, VisibleIs DEF VisibleRight
<1>15. nextId \in Nat \ {0} /\ Shape(table) /\ Below(table, nextId)
    BY DEF DbInv
<1>16. c \in Seq(Entries)
    BY <1>12 DEF ChunkRight
<1> HIDE DEF c, upsert
<1>17. StatementRight(V, nextId, c, upsert, st)
    BY <1>5, <1>14, <1>15, <1>16, StatementIs
<1>18. \A T \in SUBSET Rows, m \in Nat \ {0} :
         UniqueKeys(T) /\ SameOn(KeysUpTo(args, q), T, table) =>
           Alike(KeysUpTo(args, q), OfKeys(st.rows, KeysUpTo(args, q)), old.affected + st.affected,
                 Total(old.first, st.first), Run(T, m, args, upsert)[q], T)
    <2>1. SUFFICES ASSUME NEW T \in SUBSET Rows, NEW m \in Nat \ {0}, UniqueKeys(T),
                          SameOn(KeysUpTo(args, q), T, table)
                   PROVE  Alike(KeysUpTo(args, q), OfKeys(st.rows, KeysUpTo(args, q)),
                                old.affected + st.affected, Total(old.first, st.first),
                                Run(T, m, args, upsert)[q], T)
        OBVIOUS
    <2>2. SameOn(old.locked, T, table)
        BY <1>13, <2>1 DEF SameOn
    <2>3. Alike(KeysUpTo(args, p), old.view, old.affected, old.first, Run(T, m, args, upsert)[p], T)
        BY <1>11, <2>1, <2>2
    <2>4. PICK view : view = old.view
        OBVIOUS
    <2>4a. PICK a \in Nat : a = old.affected
        BY <1>11
    <2>4b. PICK f \in Nat : f = old.first
        BY <1>11
    <2>5. /\ Shape(view) /\ SameOn(KeysUpTo(args, p), V, view)
          /\ \A r : r.key \notin KeysUpTo(args, p) => (r \in V <=> r \in table)
          /\ Alike(KeysUpTo(args, p), view, a, f, Run(T, m, args, upsert)[p], T)
        BY <1>11, <1>14, <2>3, <2>4, <2>4a, <2>4b
    <2>6. Alike(KeysUpTo(args, q), OfKeys(st.rows, KeysUpTo(args, q)),
                a + st.affected, Total(f, st.first), Run(T, m, args, upsert)[q], T)
        BY <1>5, <1>12, <1>14, <1>15, <1>17, <2>1, <2>5, InsertedAlike
    <2>7. QED
        BY <2>4a, <2>4b, <2>6
<1> HIDE DEF st
<1>19. /\ Shape(st.rows) /\ Below(st.rows, st.next) /\ st.next \in Nat \ {0} /\ st.next >= nextId
       /\ st.first \in Nat /\ st.affected \in Nat
       /\ \A r \in st.rows : r.id >= nextId \/ \E x \in V : x.id = r.id /\ x.key = r.key
    BY <1>17 DEF StatementRight
<1>20. new.view \subseteq st.rows /\ \A v \in new.view : v.key \in locked
    BY <1>6 DEF OfKeys
<1> HIDE DEF locked
<1>21. Shape(new.view)
    <2>1. IsFiniteSet(new.view)
        BY <1>19, <1>20, FS_Subset DEF Shape
    <2>2. QED
        BY <1>19, <1>20, <2>1 DEF Shape, UniqueKeys, UniqueIds
<1>22. InChunks(new, upsert, table)
    <2>1. new.i - 1 = old.i /\ new.i \in 1 .. Len(Chunks(args)) + 1
        BY <1>6, <1>10, <1>11
    <2>2. new.step = "commit" <=> new.i = Len(Chunks(args)) + 1
        BY <1>6, <1>8, <1>10, <1>11
    <2>3. Starts(new.args)[new.i - 1] = q /\ new.args = args
        BY <1>6, <1>8, <1>9, <2>1
    <2>4. new.affected \in Nat /\ new.first \in Nat /\ new.previous \in Nat /\ new.conn \in Conns
        BY <1>6, <1>11, <1>19 DEF Total
    <2>5. \A T \in SUBSET Rows, m \in Nat \ {0} :
             UniqueKeys(T) /\ SameOn(new.locked, T, table) =>
                Alike(new.locked, new.view, new.affected, new.first,
                      Run(T, m, args, upsert)[q], T)
        BY <1>6, <1>13, <1>18
    <2>6. QED
        BY <1>6, <1>11, <1>13, <1>20, <1>21, <2>1, <2>2, <2>3, <2>4, <2>5 DEF InChunks
<1>23. /\ call' = [d \in Callers |-> call'[d]] /\ call'[w] = new
       /\ \A d \in Callers \ {w} : call'[d] = call[d]
    BY <1>4, <1>5 DEF DbInv
<1>24. IdsApart(old.view, table, nextId)
    BY <1>1 DEF DbInv
<1>25. \A u \in new.view : u.id < st.next /\ (u.id < nextId => \E x \in V : x.id = u.id /\ x.key = u.key)
    <2>1. \A u \in new.view : u.id \in Nat
        BY <1>21 DEF Shape, Rows
    <2>2. QED
        BY <1>15, <1>19, <1>20, <2>1 DEF Below
<1>26. IdsApart(new.view, table, st.next)
    <2>1. SUFFICES ASSUME NEW u \in new.view, NEW t \in table, u.id = t.id PROVE u.key = t.key
        BY <1>25 DEF IdsApart, Below
    <2>2. u.id < nextId
        BY <1>15, <2>1 DEF Below
    <2>3. PICK x \in V : x.id = u.id /\ x.key = u.key
        BY <1>25, <2>2
    <2>4. CASE x \in table
        BY <1>15, <2>1, <2>3, <2>4 DEF Shape, UniqueIds
    <2>5. CASE x \in old.view
        BY <1>24, <2>1, <2>3, <2>5 DEF IdsApart
    <2>6. QED
        BY <1>14, <2>4, <2>5
<1>27. \A d \in Callers \ {w} : call[d].locked \cap locked = {}
    BY <1>1, <1>2, <1>5 DEF DbInv, LocksApart, Unlocked, locked
<1>28. \A v \in Writers \ {w} : \A y \in call[v].view, u \in new.view : y.id # u.id
    <2>1. SUFFICES ASSUME NEW v \in Writers \ {w}, NEW y \in call[v].view, NEW u \in new.view,
                          y.id = u.id
                   PROVE  FALSE
        OBVIOUS
    <2>2. y.id < nextId /\ y.key \in call[v].locked /\ IdsApart(call[v].view, table, nextId)
        BY ViewShape
    <2>3. PICK x \in V : x.id = u.id /\ x.key = u.key
        BY <1>25, <2>1, <2>2
    <2>4. CASE x \in table
        <3>1. y.key = u.key
            BY <2>1, <2>2, <2>3, <2>4 DEF IdsApart
        <3>2. v \in Callers \ {w}
            BY DEF Callers
        <3>3. QED
            BY <1>20, <1>27, <2>2, <3>1, <3>2
    <2>5. CASE x \in old.view
        <3>1. ViewsApart
            BY DEF DbInv
        <3>2. QED
            BY <1>1, <2>1, <2>3, <2>5, <3>1 DEF ViewsApart
    <2>6. QED
        BY <1>14, <2>4, <2>5
<1>29. \A d \in Callers : Fields(call'[d])
    BY <1>6, <1>23 DEF DbInv
<1>30. ASSUME NEW v \in Writers
       PROVE  WriteCall(call'[v], v \in Upserts, table) /\ IdsApart(call'[v].view, table, st.next)
    <2>1. CASE v = w
        <3>1. new.step \in {"chunk", "commit"}
            BY <1>6
        <3>2. WriteCall(new, upsert, table)
            BY <1>22, <3>1 DEF WriteCall
        <3>3. QED
            BY <1>23, <1>26, <2>1, <3>2 DEF upsert
    <2>2. CASE v # w
        <3>1. call'[v] = call[v]
            BY <1>23, <2>2 DEF Callers
        <3>2. WriteCall(call[v], v \in Upserts, table)
            BY DEF DbInv
        <3>3. IdsApart(call[v].view, table, st.next)
            <4>1. /\ IdsApart(call[v].view, table, nextId)
                  /\ \A x \in call[v].view : x.id \in Nat /\ x.id < nextId
                BY ViewShape
            <4>2. \A x \in call[v].view : x.id < st.next
                BY <1>15, <1>19, <4>1
            <4>3. QED
                BY <4>1, <4>2 DEF IdsApart, Below
        <3>4. QED
            BY <3>1, <3>2, <3>3
    <2>3. QED
        BY <2>1, <2>2
<1>31. \A r \in Readers : call'[r] = call[r]
    BY <1>23, CallersAre, DbAssumption
<1>32. LocksApart'
    <2>1. SUFFICES ASSUME NEW a \in Callers, NEW b \in Callers, a # b
                   PROVE  call'[a].locked \cap call'[b].locked = {}
        BY DEF LocksApart
    <2>2. new.locked = locked
        BY <1>6
    <2>3. QED
        BY <1>23, <1>27, <2>1, <2>2 DEF DbInv, LocksApart
<1>33. ViewsApart'
    <2>1. SUFFICES ASSUME NEW a \in Writers, NEW b \in Writers, a # b
                   PROVE  \A v \in call'[a].view, u \in call'[b].view : v.id # u.id
        BY DEF ViewsApart
    <2>2. a \in Callers /\ b \in Callers
        BY DEF Callers
    <2>3. CASE a = w
        BY <1>23, <1>28, <2>1, <2>2, <2>3
    <2>4. CASE b = w
        BY <1>23, <1>28, <2>1, <2>2, <2>4
    <2>5. CASE a # w /\ b # w
        <3>1. ViewsApart
            BY DEF DbInv
        <3>2. QED
            BY <1>23, <2>1, <2>2, <2>5, <3>1 DEF ViewsApart
    <2>6. QED
        BY <2>3, <2>4, <2>5
<1>34. session' \in [Conns -> Nat]
    <2>1. PICK x : /\ session' = [session EXCEPT ![old.conn] = x]
                   /\ x = st.first \/ x = session[old.conn]
        BY <1>1 DEF InsertChunk, Chunk, st, c, upsert
    <2>2. QED
        BY <1>11, <1>19, <2>1 DEF DbInv
<1>35. Below(table, st.next)
    <2>1. \A r \in table : r.id \in Nat
        BY <1>15 DEF Shape, Rows
    <2>2. QED
        BY <1>15, <1>19, <2>1 DEF Below
<1>36. nextId' \in Nat \ {0} /\ nextId' = st.next
    BY <1>2, <1>19
<1>37. \A r \in Readers : ReadCall(call'[r], moments[r]) /\ MomentsRight(call'[r], moments[r], table)
    BY <1>31 DEF DbInv
<1>38. QED
    BY <1>2, <1>15, <1>23, <1>29, <1>30, <1>32, <1>33, <1>34, <1>35, <1>36, <1>37 DEF DbInv

-----------------------------------------------------------------------------
(* Every step *)

LEMMA DisconnectInv ==
    ASSUME DbInv, Disconnect
    PROVE  DbInv'
<1>1. UNCHANGED <<table, nextId, session, call, moments>>
    BY DEF Disconnect
<1>2. QED
    BY <1>1 DEF DbInv, LocksApart, ViewsApart

\* The first table: any of StoredAtStart
LEMMA InitInv ==
    ASSUME DbInit
    PROVE  DbInv
<1>1. /\ table \subseteq Rows /\ IsFiniteSet(table)
      /\ \A r, q \in table : r.key = q.key \/ r.id = q.id => r = q
      /\ \A r \in table : r.id <= Cardinality(table)
    BY DbAssumption DEF DbInit, DbAssumption
<1>2. Cardinality(table) \in Nat
    BY <1>1, FS_CardinalityType
<1>3. nextId = Cardinality(table) + 1
    BY DEF DbInit
<1>4. nextId \in Nat \ {0}
    BY <1>2, <1>3
<1>5. Below(table, nextId)
    <2>1. \A r \in table : r.id \in Nat
        BY <1>1 DEF Rows
    <2>2. QED
        BY <1>1, <1>2, <1>3, <2>1 DEF Below
<1>6. Shape(table)
    BY <1>1 DEF Shape, UniqueKeys, UniqueIds
<1>7. PICK none : /\ none = NotCalled /\ Fields(none) /\ none.step = "none" /\ none.locked = {}
                  /\ none.view = {} /\ none.rows = <<>>
    <2>1. PICK none : none = NotCalled
        OBVIOUS
    <2>2. QED
        BY <2>1 DEF NotCalled, Fields
<1>8. call = [c \in Callers |-> none] /\ moments = [r \in Readers |-> {}]
      /\ session \in [Conns -> Nat]
    BY <1>7 DEF DbInit
<1>9. \A c \in Callers : call[c] = none
    BY <1>8
<1>10. \A w \in Writers : WriteCall(call[w], w \in Upserts, table)
                          /\ IdsApart(call[w].view, table, nextId)
    BY <1>7, <1>9 DEF WriteCall, Idle, IdsApart, Below, Callers
<1>11. \A r \in Readers : ReadCall(call[r], moments[r]) /\ MomentsRight(call[r], moments[r], table)
    <2>1. <<>> \in Seq(Rows)
        OBVIOUS
    <2>2. QED
        BY <1>7, <1>8, <1>9, <2>1 DEF ReadCall, MomentsRight, Over, Callers
<1>12. LocksApart /\ ViewsApart
    BY <1>7, <1>9 DEF LocksApart, ViewsApart, Callers
<1>13. \A c \in Callers : Fields(call[c])
    BY <1>7, <1>9
<1>14. call = [c \in Callers |-> call[c]] /\ moments = [r \in Readers |-> moments[r]]
    BY <1>8
<1>15. QED
    BY <1>4, <1>5, <1>6, <1>8, <1>10, <1>11, <1>12, <1>13, <1>14 DEF DbInv

LEMMA StepInv ==
    ASSUME DbInv, [DbNext]_wrapperVars
    PROVE  DbInv'
<1>1. CASE UNCHANGED wrapperVars
    BY <1>1 DEF wrapperVars, DbInv, LocksApart, ViewsApart
<1>2. CASE RemoveRow
    BY <1>2, RemoveInv
<1>3. CASE Disconnect
    BY <1>3, DisconnectInv
<1>4. ASSUME NEW c \in Callers,
             \/ StartCall(c) \/ Retry(c) \/ LockError(c) \/ OtherError(c)
             \/ InsertOnce(c) \/ BeginInsert(c) \/ InsertChunk(c)
             \/ CommitInsert(c) \/ CommitUnknown(c)
             \/ LookUpOnce(c) \/ BeginLookup(c) \/ LookUpChunk(c) \/ ConsumeRow(c) \/ EndStream(c)
      PROVE  DbInv'
    <2>1. CASE StartCall(c)
        BY <2>1, StartInv
    <2>2. CASE Retry(c)
        BY <2>2, RetryInv
    <2>3. CASE LockError(c)
        BY <2>3, LockErrorInv
    <2>4. CASE OtherError(c)
        BY <2>4, OtherErrorInv
    <2>5. CASE InsertOnce(c)
        <3>1. c \in Writers
            BY <2>5 DEF InsertOnce
        <3>2. QED
            BY <2>5, <3>1, InsertOnceInv
    <2>6. CASE BeginInsert(c)
        <3>1. c \in Writers
            BY <2>6 DEF BeginInsert
        <3>2. QED
            BY <2>6, <3>1, BeginInsertInv
    <2>7. CASE InsertChunk(c)
        <3>1. c \in Writers
            BY <2>7 DEF InsertChunk
        <3>2. QED
            BY <2>7, <3>1, InsertChunkInv
    <2>8. CASE CommitInsert(c)
        <3>1. c \in Writers
            BY <2>8 DEF CommitInsert
        <3>2. QED
            BY <2>8, <3>1, CommitInsertInv
    <2>9. CASE CommitUnknown(c)
        <3>1. c \in Writers
            BY <2>9 DEF CommitUnknown
        <3>2. QED
            BY <2>9, <3>1, CommitUnknownInv
    <2>10. CASE LookUpOnce(c)
        <3>1. c \in Readers
            BY <2>10 DEF LookUpOnce
        <3>2. QED
            BY <2>10, <3>1, LookUpOnceInv
    <2>11. CASE BeginLookup(c)
        <3>1. c \in Readers
            BY <2>11 DEF BeginLookup
        <3>2. QED
            BY <2>11, <3>1, BeginLookupInv
    <2>12. CASE LookUpChunk(c)
        <3>1. c \in Readers
            BY <2>12 DEF LookUpChunk
        <3>2. QED
            BY <2>12, <3>1, LookUpChunkInv
    <2>13. ASSUME call[c].step = "stream" PROVE c \in Readers
        <3>1. SUFFICES ASSUME c \in Writers PROVE FALSE
            BY CallersAre, DbAssumption
        <3>2. WriteCall(call[c], c \in Upserts, table)
            BY <3>1 DEF DbInv
        <3>3. QED
            BY <2>13, <3>2 DEF WriteCall
    <2>14. CASE ConsumeRow(c)
        <3>1. c \in Readers
            BY <2>13, <2>14 DEF ConsumeRow
        <3>2. QED
            BY <2>14, <3>1, ConsumeRowInv
    <2>15. CASE EndStream(c)
        <3>1. c \in Readers
            BY <2>13, <2>15 DEF EndStream
        <3>2. QED
            BY <2>15, <3>1, EndStreamInv
    <2>16. QED
        BY <1>4, <2>1, <2>2, <2>3, <2>4, <2>5, <2>6, <2>7, <2>8, <2>9, <2>10, <2>11, <2>12,
           <2>14, <2>15
<1>5. QED
    BY <1>1, <1>2, <1>3, <1>4 DEF DbNext

\* Whatever the callers do, in whatever order: a lookup has so far what some table of its time
\* holds under the keys of the chunks before, and an insert did so far what one statement does
\* with the entries of the chunks before.
THEOREM DbInvariant == DbSpec => []DbInv
<1>1. DbInit => DbInv
    BY InitInv
<1>2. DbInv /\ [DbNext]_wrapperVars => DbInv'
    BY StepInv
<1>3. QED
    BY <1>1, <1>2, PTL DEF DbSpec

\* _queryOutpoints and _queryReduce: a lookup cut in chunks, or whose rows arrive one by one,
\* tells what the table was at one moment since it was called, each row once, for lookups of
\* any length, whatever is written meanwhile and however often it was made again.
THEOREM LookupsReadOneTable == DbSpec => []ReadsAsOne
<1>1. DbInv => ReadsAsOne
    <2>1. SUFFICES ASSUME DbInv, NEW r \in Readers, call[r].step = "done"
                   PROVE  /\ IsInjective(call[r].rows)
                          /\ \E rows \in moments[r] :
                               ToSet(call[r].rows) = Matching(rows, call[r].args)
        BY DEF ReadsAsOne
    <2>2. ReadCall(call[r], moments[r])
        BY <2>1 DEF DbInv
    <2>3. QED
        BY <2>1, <2>2 DEF ReadCall
<1>2. QED
    BY <1>1, DbInvariant, PTL

-----------------------------------------------------------------------------
(* A call that is over *)

\* The rows of R are those of one statement on T, new ids apart.
SameRows(R, one, T) ==
    /\ {<<r.key, r.val>> : r \in R} = {<<r.key, r.val>> : r \in one.rows}
    /\ \A r \in T : RowOf(R, r.key).id = r.id

LEMMA AllAlike ==
    ASSUME NEW T, UniqueKeys(T), NEW one, UniqueKeys(one.rows), NEW R, UniqueKeys(R),
           NEW a, NEW f, NEW K, Alike(K, R, a, f, one, T),
           \A r : r.key \notin K => (r \in R <=> r \in T),
           \A r : r.key \notin K => (r \in one.rows <=> r \in T)
    PROVE  SameRows(R, one, T)
<1>1. PICK S : S = one.rows
    OBVIOUS
<1>2. \A k \in K : /\ HasKey(R, k) <=> HasKey(S, k)
                   /\ HasKey(R, k) => RowOf(R, k).val = RowOf(S, k).val
                   /\ HasKey(T, k) => HasKey(R, k) /\ RowOf(R, k).id = RowOf(T, k).id
    BY <1>1 DEF Alike
<1>3. UniqueKeys(S) /\ \A r : r.key \notin K => (r \in R <=> r \in S)
    BY <1>1
<1>4. ASSUME NEW r \in R PROVE \E q \in S : q.key = r.key /\ q.val = r.val
    <2>1. CASE r.key \in K
        <3>1. HasKey(R, r.key) /\ RowOf(R, r.key) = r
            BY RowOfRow
        <3>2. HasKey(S, r.key) /\ RowOf(S, r.key).val = r.val
            BY <1>2, <2>1, <3>1
        <3>3. QED
            BY <3>2, RowOfIs
    <2>2. CASE r.key \notin K
        BY <1>3, <2>2
    <2>3. QED
        BY <2>1, <2>2
<1>5. ASSUME NEW q \in S PROVE \E r \in R : r.key = q.key /\ r.val = q.val
    <2>1. CASE q.key \in K
        <3>1. HasKey(S, q.key) /\ RowOf(S, q.key) = q
            BY <1>3, RowOfRow
        <3>2. HasKey(R, q.key) /\ RowOf(R, q.key).val = q.val
            BY <1>2, <2>1, <3>1
        <3>3. QED
            BY <3>2, RowOfIs
    <2>2. CASE q.key \notin K
        BY <1>3, <2>2
    <2>3. QED
        BY <2>1, <2>2
<1>6. {<<r.key, r.val>> : r \in R} = {<<r.key, r.val>> : r \in S}
    BY <1>4, <1>5
<1>7. ASSUME NEW r \in T PROVE RowOf(R, r.key).id = r.id
    <2>1. HasKey(T, r.key) /\ RowOf(T, r.key) = r
        BY RowOfRow
    <2>2. CASE r.key \in K
        BY <1>2, <2>1, <2>2
    <2>3. CASE r.key \notin K
        <3>1. r \in R
            BY <2>3
        <3>2. QED
            BY <3>1, RowOfRow
    <2>4. QED
        BY <2>2, <2>3
<1>8. QED
    BY <1>1, <1>6, <1>7 DEF SameRows

\* The row of an id that is unique
LEMMA IdFound ==
    ASSUME NEW S, UniqueIds(S), NEW k, HasKey(S, k)
    PROVE  (CHOOSE r \in S : r.id = RowOf(S, k).id).key = k
<1>1. RowOf(S, k) \in S /\ RowOf(S, k).key = k
    BY RowOfIs
<1>2. QED
    BY <1>1 DEF UniqueIds

\* The statement is answered at once.
LEMMA OnceWrites ==
    ASSUME DbInv, NEW w \in Writers, InsertOnce(w)
    PROVE  call'[w].step = "done" /\ SameButNewIds(w) /\ SameAnswer(w, AsOneStatement(w))
<1> DEFINE upsert == w \in Upserts
           one == AsOneStatement(w)
           id == InsertId(one, upsert)
<1>1. w \in Callers /\ upsert \in BOOLEAN
    BY DEF Callers
<1>2. /\ call[w].step = "ready" /\ ~Batched(w) /\ table' = one.rows
      /\ call' = [call EXCEPT ![w] = Done(one.affected, id)]
    BY DEF InsertOnce, Done, AsOneStatement, Store
<1>3. WriteCall(call[w], upsert, table) /\ Shape(table) /\ nextId \in Nat \ {0} /\ Below(table, nextId)
    BY DEF DbInv
<1>4. PICK args \in Seq(Entries) : args = call[w].args /\ Len(args) > 0
    <2>1. call[w].args \in Inserts
        BY <1>2, <1>3 DEF WriteCall
    <2>2. call[w].args \in Seq(Entries) /\ call[w].args # <<>>
        BY <2>1, ArgsAre, DbAssumption DEF DbAssumption
    <2>3. Len(call[w].args) > 0
        BY <2>2
    <2>4. QED
        BY <2>2, <2>3
<1>5. StatementRight(table, nextId, args, upsert, one)
    BY <1>1, <1>3, <1>4, StatementIs DEF AsOneStatement
<1>6. call'[w] = Done(one.affected, id)
    BY <1>1, <1>2 DEF DbInv
<1>7. call'[w].step = "done" /\ call'[w].affected = one.affected /\ call'[w].insertId = id
    BY <1>6, DoneIs
<1> HIDE DEF one
<1>8. /\ RunRight(table, nextId, args, upsert, one, Len(args))
      /\ UniqueKeys(one.rows) /\ UniqueIds(one.rows)
    BY <1>5 DEF StatementRight, Shape
<1>9. SameButNewIds(w)
    <2>1. \A r \in table : HasKey(table, r.key) /\ RowOf(table, r.key) = r
        BY <1>3, RowOfRow DEF Shape
    <2>2. \A r \in table : RowOf(one.rows, r.key).id = r.id
        BY <1>8, <2>1 DEF RunRight
    <2>3. QED
        BY <1>2, <2>2 DEF SameButNewIds, one
<1>10. ASSUME id # 0 PROVE IdOf(one, id) = id
    <2>1. \E k : HasKey(one.rows, k) /\ RowOf(one.rows, k).id = id
        <3>1. CASE one.first # 0
            BY <1>8, <3>1 DEF RunRight, InsertId
        <3>2. CASE one.first = 0
            <4>1. id = one.last
                BY <1>10, <3>2 DEF InsertId
            <4>2. Len(args) \in 1 .. Len(args)
                BY <1>4
            <4>3. args[Len(args)].key \in KeysUpTo(args, Len(args))
                BY <4>2 DEF KeysUpTo
            <4>4. QED
                BY <1>4, <1>8, <4>1, <4>3 DEF RunRight
        <3>3. QED
            BY <3>1, <3>2
    <2>2. PICK k : HasKey(one.rows, k) /\ RowOf(one.rows, k).id = id
        BY <2>1
    <2>3. (CHOOSE r \in one.rows : r.id = id).key = k
        BY <1>8, <2>2, IdFound
    <2>4. QED
        BY <1>2, <2>2, <2>3 DEF IdOf
<1>11. SameAnswer(w, one)
    BY <1>2, <1>7, <1>10 DEF SameAnswer
<1>12. QED
    BY <1>7, <1>9, <1>11 DEF one

\* Before the commit: what the transaction sees, and the statement with all rows
Finished(w, V, one) ==
    /\ UniqueIds(one.rows) /\ UniqueKeys(one.rows) /\ one.first \in Nat /\ call[w].first \in Nat
    /\ Alike(KeysIn(call[w].args), V, call[w].affected, call[w].first, one, table)
    /\ Counted(w \in Upserts, one, Len(call[w].args)) /\ one.changed \in BOOLEAN
    /\ Last(call[w].args).key \in KeysIn(call[w].args)
    /\ HasKey(one.rows, Last(call[w].args).key)
    /\ one.last = RowOf(one.rows, Last(call[w].args).key).id /\ one.last # 0
    /\ call[w].conn \in Conns
    /\ SameRows(V, one, table)

LEMMA CommitSees ==
    ASSUME DbInv, NEW w \in Writers, call[w].step = "commit"
    PROVE  Finished(w, Visible(w), AsOneStatement(w))
<1> DEFINE upsert == w \in Upserts
           V == Visible(w)
           one == AsOneStatement(w)
<1>1. upsert \in BOOLEAN
    OBVIOUS
<1>2. PICK rec : rec = call[w]
    OBVIOUS
<1>3. /\ Shape(table) /\ nextId \in Nat \ {0} /\ Below(table, nextId)
      /\ WriteCall(rec, upsert, table)
    BY <1>2 DEF DbInv
<1> HIDE DEF upsert
<1>4. InChunks(rec, upsert, table)
    BY <1>2, <1>3 DEF WriteCall
<1>5. PICK args \in Seq(Entries) : args = rec.args /\ Len(args) > 0
    <2>1. rec.args \in Seq(Entries) /\ rec.args # <<>>
        BY <1>4, ArgsAre, DbAssumption DEF DbAssumption, InChunks
    <2>2. Len(rec.args) > 0
        BY <2>1
    <2>3. QED
        BY <2>1, <2>2
<1>6. Len(Chunks(args)) \in Nat \ {0} /\ Starts(args)[Len(Chunks(args))] = Len(args)
    BY ChunksAre, FirstAndLast
<1>7. rec.i = Len(Chunks(args)) + 1 /\ rec.i - 1 = Len(Chunks(args))
    BY <1>2, <1>4, <1>5, <1>6 DEF InChunks
<1>8. Starts(rec.args)[rec.i - 1] = Len(args) /\ KeysUpTo(args, Len(args)) = KeysIn(args)
    BY <1>5, <1>6, <1>7, KeysOfAll
<1>9. /\ rec.locked = KeysIn(args) /\ rec.first \in Nat /\ rec.conn \in Conns /\ Shape(rec.view)
      /\ \A T \in SUBSET Rows, m \in Nat \ {0} :
             UniqueKeys(T) /\ SameOn(rec.locked, T, table) =>
                Alike(rec.locked, rec.view, rec.affected, rec.first,
                      Run(T, m, args, upsert)[Len(args)], T)
    BY <1>4, <1>5, <1>8 DEF InChunks
<1>10. one = Insert(table, nextId, args, upsert)
    BY <1>2, <1>5 DEF AsOneStatement, upsert
<1>11. one = Run(table, nextId, args, upsert)[Len(args)]
    <2>1. Len(args) \in Nat
        OBVIOUS
    <2>2. RunOf(Run(table, nextId, args, upsert), table, nextId, args, upsert)
        BY <2>1, RunIsOf
    <2> HIDE DEF one
    <2>3. QED
        BY <1>10, <2>2 DEF RunOf
<1>12. StatementRight(table, nextId, args, upsert, one)
    BY <1>1, <1>3, <1>10, StatementIs
<1> HIDE DEF one
<1>13. Alike(KeysIn(args), rec.view, rec.affected, rec.first, one, table)
    <2>1. table \in SUBSET Rows /\ UniqueKeys(table)
        BY <1>3 DEF Shape
    <2>2. SameOn(rec.locked, table, table)
        BY DEF SameOn
    <2>3. QED
        BY <1>3, <1>9, <1>11, <2>1, <2>2
<1>14. /\ Shape(V) /\ SameOn(KeysIn(args), V, rec.view)
       /\ \A r : r.key \notin KeysIn(args) => (r \in V <=> r \in table)
    BY <1>2, <1>9, VisibleIs DEF VisibleRight
<1> HIDE DEF V
<1>15. UniqueKeys(V) /\ UniqueKeys(rec.view) /\ UniqueKeys(table)
    BY <1>3, <1>9, <1>14 DEF Shape
<1>16. Alike(KeysIn(args), V, rec.affected, rec.first, one, table)
    <2>1. SameOn(KeysIn(args), rec.view, V)
        BY <1>14 DEF SameOn
    <2>2. PICK old, a, f : old = rec.view /\ a = rec.affected /\ f = rec.first
        OBVIOUS
    <2>3. Alike(KeysIn(args), old, a, f, one, table) /\ SameOn(KeysIn(args), old, V)
          /\ UniqueKeys(old)
        BY <1>13, <1>15, <2>1, <2>2
    <2>4. Alike(KeysIn(args), V, a, f, one, table)
        BY <1>15, <2>3, AlikeSame
    <2>5. QED
        BY <2>2, <2>4
<1>17. /\ RunRight(table, nextId, args, upsert, one, Len(args))
       /\ UniqueKeys(one.rows) /\ UniqueIds(one.rows) /\ one.rows \subseteq Rows
       /\ \A r : r.key \notin KeysIn(args) => (r \in one.rows <=> r \in table)
    BY <1>12 DEF StatementRight, Shape
<1>18. SameRows(V, one, table)
    <2>1. PICK a, f : a = rec.affected /\ f = rec.first
        OBVIOUS
    <2>2. Alike(KeysIn(args), V, a, f, one, table)
        BY <1>16, <2>1
    <2>3. QED
        BY <1>14, <1>15, <1>17, <2>2, AllAlike
<1> DEFINE last == Last(args).key
<1>19. /\ last \in KeysIn(args) /\ HasKey(one.rows, last)
       /\ one.last = RowOf(one.rows, last).id /\ one.last # 0
    <2>1. Last(args) = args[Len(args)] /\ Len(args) \in 1 .. Len(args) /\ DOMAIN args = 1 .. Len(args)
        BY <1>5 DEF Last
    <2>2. last \in KeysIn(args)
        BY <2>1 DEF KeysIn
    <2>3. HasKey(one.rows, last) /\ one.last = RowOf(one.rows, last).id
        BY <1>5, <1>8, <1>17, <2>1, <2>2 DEF RunRight
    <2>4. RowOf(one.rows, last) \in Rows
        BY <1>17, <2>3, RowOfIs
    <2>5. QED
        BY <2>2, <2>3, <2>4 DEF Rows
<1>20. /\ Counted(upsert, one, Len(args)) /\ one.changed \in BOOLEAN /\ one.first \in Nat
    BY <1>17 DEF RunRight
<1>21. Finished(w, V, one)
    BY <1>2, <1>5, <1>9, <1>16, <1>17, <1>18, <1>19, <1>20 DEF Finished, upsert
<1>22. QED
    BY <1>21 DEF V, one

LEMMA CommitWrites ==
    ASSUME DbInv, NEW w \in Writers, CommitInsert(w)
    PROVE  call'[w].step = "done" /\ SameButNewIds(w) /\ SameAnswer(w, AsOneStatement(w))
<1> DEFINE upsert == w \in Upserts
           one == AsOneStatement(w)
           V == Visible(w)
           id == InsertId(one, upsert)
           last == Last(call[w].args).key
<1>1. w \in Callers
    BY DEF Callers
<1>2. /\ call[w].step = "commit" /\ table' = V
      /\ call' = [call EXCEPT ![w] = Done(call[w].affected, AggregateId(w))]
    BY DEF CommitInsert, Done, Store
<1>3. call'[w] = Done(call[w].affected, AggregateId(w))
    BY <1>1, <1>2 DEF DbInv
<1>4. /\ call'[w].step = "done" /\ call'[w].affected = call[w].affected
      /\ call'[w].insertId = AggregateId(w)
    BY <1>3, DoneIs
<1>5. Finished(w, V, one)
    BY <1>2, CommitSees
<1>6. upsert => session'[call[w].conn] = IF call[w].first # 0 THEN call[w].first ELSE call[w].previous
    <2>1. call[w].conn \in Conns
        BY <1>5 DEF Finished
    <2>2. QED
        BY <2>1 DEF CommitInsert, DbInv
<1>7. AggregateId(w) = IF upsert /\ call[w].first = 0 /\ ChangedExisting(w)
                       THEN RowOf(V, last).id ELSE call[w].first
    BY DEF AggregateId
<1> HIDE DEF one, V, last
<1>8. SameButNewIds(w)
    BY <1>2, <1>5 DEF Finished, SameRows, SameButNewIds, one
<1>9. /\ call[w].affected = one.affected /\ (call[w].first = 0 <=> one.first = 0)
      /\ \A k \in KeysIn(call[w].args) :
           HasKey(one.rows, k) => (CHOOSE r \in one.rows : r.id = RowOf(one.rows, k).id).key = k
    <2>1. UniqueIds(one.rows)
        BY <1>5 DEF Finished
    <2>2. \A k : HasKey(one.rows, k) => (CHOOSE r \in one.rows : r.id = RowOf(one.rows, k).id).key = k
        <3>1. PICK S : S = one.rows
            OBVIOUS
        <3>2. \A k : HasKey(S, k) => (CHOOSE r \in S : r.id = RowOf(S, k).id).key = k
            BY <2>1, <3>1, IdFound
        <3>3. QED
            BY <3>1, <3>2
    <2>3. QED
        BY <1>5, <2>2 DEF Finished, Alike
<1>10. ASSUME one.first # 0 PROVE IdOf(one, one.first) = call[w].first
    <2>1. PICK k \in KeysIn(call[w].args) :
             /\ HasKey(V, k) /\ HasKey(one.rows, k)
             /\ RowOf(V, k).id = call[w].first /\ RowOf(one.rows, k).id = one.first
        BY <1>5, <1>9, <1>10 DEF Finished, Alike
    <2>2. (CHOOSE r \in one.rows : r.id = one.first).key = k
        BY <1>9, <2>1
    <2>3. QED
        BY <1>2, <2>1, <2>2 DEF IdOf
<1>11. IdOf(one, one.last) = RowOf(V, last).id /\ one.last # 0
    <2>1. /\ last \in KeysIn(call[w].args) /\ HasKey(one.rows, last)
          /\ one.last = RowOf(one.rows, last).id /\ one.last # 0
        BY <1>5 DEF Finished, last
    <2>2. (CHOOSE r \in one.rows : r.id = one.last).key = last
        BY <1>9, <2>1
    <2>3. QED
        BY <1>2, <2>1, <2>2 DEF IdOf
<1>12. ASSUME one.first = 0, upsert PROVE ChangedExisting(w) <=> one.changed = TRUE
    <2>1. Counted(upsert, one, Len(call[w].args))
        BY <1>5 DEF Finished
    <2>2. CASE foundRows
        <3>1. one.changed = TRUE <=> one.affected > Len(call[w].args)
            BY <1>12, <2>1, <2>2 DEF Counted
        <3>2. ChangedExisting(w) <=> call[w].affected > Len(call[w].args)
            BY <2>2 DEF ChangedExisting
        <3>3. QED
            BY <1>9, <3>1, <3>2
    <2>3. CASE ~foundRows
        <3>1. one.changed = TRUE <=> one.affected > 0
            BY <1>12, <2>1, <2>3 DEF Counted
        <3>2. ChangedExisting(w) <=> call[w].affected > 0
            BY <2>3 DEF ChangedExisting
        <3>3. QED
            BY <1>9, <3>1, <3>2
    <2>4. QED
        BY <2>2, <2>3
<1>13. AggregateId(w) = IF id = 0 THEN 0 ELSE IdOf(one, id)
    <2>1. CASE one.first # 0
        <3>1. id = one.first /\ call[w].first # 0
            BY <1>9, <2>1 DEF InsertId
        <3>2. AggregateId(w) = call[w].first
            BY <1>7, <3>1
        <3>3. QED
            BY <1>10, <2>1, <3>1, <3>2
    <2>2. CASE one.first = 0 /\ upsert /\ one.changed = TRUE
        <3>1. id = one.last
            BY <2>2 DEF InsertId
        <3>2. AggregateId(w) = RowOf(V, last).id
            BY <1>7, <1>9, <1>12, <2>2
        <3>3. QED
            BY <1>11, <3>1, <3>2
    <2>3. CASE one.first = 0 /\ ~(upsert /\ one.changed = TRUE)
        <3>1. one.changed \in BOOLEAN
            BY <1>5 DEF Finished
        <3>2. id = 0
            BY <2>3, <3>1, Zenon DEF InsertId
        <3>3. AggregateId(w) = call[w].first
            BY <1>7, <1>12, <2>3
        <3>4. QED
            BY <1>9, <2>3, <3>2, <3>3
    <2>4. QED
        BY <2>1, <2>2, <2>3
<1>14. SameAnswer(w, one)
    <2>1. Batched(w) /\ upsert =>
            session'[call[w].conn] = IF one.first # 0 THEN IdOf(one, one.first) ELSE call[w].previous
        BY <1>6, <1>9, <1>10
    <2>2. call'[w].affected = one.affected
        BY <1>4, <1>9
    <2>3. call'[w].insertId = IF id = 0 THEN 0 ELSE IdOf(one, id)
        BY <1>4, <1>13
    <2>4. QED
        BY <2>1, <2>2, <2>3 DEF SameAnswer
<1>15. QED
    BY <1>4, <1>8, <1>14 DEF one

LEMMA UnknownWrites ==
    ASSUME DbInv, NEW w \in Writers, CommitUnknown(w)
    PROVE  call'[w].step = "failed" /\ SameButNewIds(w)
<1>1. w \in Callers
    BY DEF Callers
<1>2. /\ call[w].step = "commit" /\ table' = Visible(w)
      /\ call' = [call EXCEPT ![w] = AfterError(w, FALSE)]
    BY DEF CommitUnknown, Store
<1>3. call'[w].step = "failed"
    <2>1. call'[w] = AfterError(w, FALSE)
        BY <1>1, <1>2 DEF DbInv
    <2>2. QED
        BY <2>1, FailedIs
<1>4. Finished(w, Visible(w), AsOneStatement(w))
    BY <1>2, CommitSees
<1>5. PICK one, V : one = AsOneStatement(w) /\ V = Visible(w)
    OBVIOUS
<1>6. table' = V /\ SameRows(V, one, table)
    BY <1>2, <1>4, <1>5 DEF Finished
<1>7. SameButNewIds(w)
    BY <1>5, <1>6 DEF SameRows, SameButNewIds
<1>8. QED
    BY <1>3, <1>7

WroteAsOne(w) ==
    call'[w] # call[w] =>
        IF call'[w].step = "done" THEN SameButNewIds(w) /\ SameAnswer(w, AsOneStatement(w))
        ELSE table' = table \/ (call'[w].step = "failed" /\ SameButNewIds(w))

LEMMA WriteStep ==
    ASSUME DbInv, DbNext, NEW w \in Writers
    PROVE  WroteAsOne(w)
<1>1. SUFFICES ASSUME call'[w] # call[w] PROVE WroteAsOne(w)
    BY DEF WroteAsOne
<1>2. w \in Callers /\ w \notin Readers /\ call = [c \in Callers |-> call[c]]
    BY CallersAre, DbAssumption DEF Callers, DbInv
<1>3. ~RemoveRow /\ ~Disconnect
    BY <1>1 DEF RemoveRow, Disconnect
<1>4. PICK c \in Callers :
        \/ StartCall(c) \/ Retry(c) \/ LockError(c) \/ OtherError(c)
        \/ InsertOnce(c) \/ BeginInsert(c) \/ InsertChunk(c)
        \/ CommitInsert(c) \/ CommitUnknown(c)
        \/ LookUpOnce(c) \/ BeginLookup(c) \/ LookUpChunk(c) \/ ConsumeRow(c) \/ EndStream(c)
    BY <1>3 DEF DbNext
\* Another caller's step is not a step of this one.
<1>5. ASSUME NEW new, call' = [call EXCEPT ![c] = new] PROVE c = w /\ call'[w] = new
    BY <1>1, <1>2, <1>5
<1>6. ASSUME NEW new, call' = [call EXCEPT ![c] = new], table' = table, new.step # "done"
      PROVE  WroteAsOne(w)
    BY <1>5, <1>6 DEF WroteAsOne
<1>7. CASE StartCall(c)
    <2>1. PICK args : BeginCall(c, args)
        BY <1>7 DEF StartCall
    <2>2. PICK none, step : none = NotCalled /\ step = IF dbPool = "none" THEN "failed" ELSE "ready"
        OBVIOUS
    <2>3. PICK new : new = [none EXCEPT !.step = step, !.args = args, !.left = MaxRetries]
        OBVIOUS
    <2>4. new.step = step
        <3>1. Fields(none)
            BY <2>2 DEF NotCalled, Fields
        <3>2. QED
            BY <2>3, <3>1 DEF Fields
    <2>5. call' = [call EXCEPT ![c] = new] /\ table' = table
        BY <2>1, <2>2, <2>3 DEF BeginCall
    <2>6. QED
        BY <1>6, <2>2, <2>4, <2>5
<1>8. CASE Retry(c)
    <2>1. PICK new, step :
            /\ new = [Attempt(c) EXCEPT !.step = step, !.left = @ - 1]
            /\ step = IF dbPool = "none" THEN "failed" ELSE "ready"
        OBVIOUS
    <2>2. new.step = step
        BY <2>1 DEF Attempt, NotCalled
    <2>3. call' = [call EXCEPT ![c] = new] /\ table' = table
        BY <1>8, <2>1 DEF Retry
    <2>4. new.step # "done"
        BY <2>1, <2>2
    <2>5. QED
        BY <1>6, <2>3, <2>4
<1>9. CASE LockError(c) \/ OtherError(c)
    <2>1. PICK lockError : call' = [call EXCEPT ![c] = AfterError(c, lockError)] /\ table' = table
        BY <1>9 DEF LockError, OtherError
    <2>2. PICK new, old : new = AfterError(c, lockError) /\ old = call[c]
        OBVIOUS
    <2>3. Fields(old)
        BY <2>2 DEF DbInv
    <2>4. new.step \in {"delay", "failed"}
        <3>1. CASE lockError /\ old.left > 0
            <4>1. new = [old EXCEPT !.step = "delay", !.conn = NoConn, !.locked = {}, !.view = {}]
                BY <2>2, <3>1 DEF AfterError
            <4>2. QED
                BY <2>3, <4>1 DEF Fields
        <3>2. CASE ~(lockError /\ old.left > 0)
            <4>1. new = [NotCalled EXCEPT !.step = "failed"]
                BY <2>2, <3>2 DEF AfterError
            <4>2. QED
                BY <4>1 DEF NotCalled
        <3>3. QED
            BY <3>1, <3>2
    <2>5. QED
        BY <1>6, <2>1, <2>2, <2>4
<1>10. CASE BeginInsert(c)
    <2>1. PICK old : old = call[c] /\ Fields(old)
        BY DEF DbInv
    <2>2. PICK s, previous, new :
            /\ new = [old EXCEPT !.step = "chunk", !.conn = s, !.i = 1, !.previous = previous]
            /\ call' = [call EXCEPT ![c] = new] /\ table' = table
        <3>1. PICK s \in Conns :
                /\ call' = [call EXCEPT ![c] =
                      [call[c] EXCEPT !.step = "chunk", !.conn = s, !.i = 1,
                                      !.previous = IF c \in Upserts THEN session[s] ELSE 0]]
                /\ table' = table
            BY <1>10 DEF BeginInsert
        <3>2. QED
            BY <2>1, <3>1
    <2>3. new.step = "chunk"
        BY <2>1, <2>2 DEF Fields
    <2>4. QED
        BY <1>6, <2>2, <2>3
<1>11. CASE InsertChunk(c)
    <2>1. PICK old : old = call[c] /\ Fields(old)
        BY DEF DbInv
    <2>2. PICK st, locked, step :
            /\ st = Insert(Visible(c), nextId, Chunk(c), c \in Upserts)
            /\ locked = call[c].locked \cup KeysIn(Chunk(c))
            /\ step = IF call[c].i = Len(Chunks(call[c].args)) THEN "commit" ELSE "chunk"
        OBVIOUS
    <2>3. PICK new : new = [old EXCEPT !.locked = locked,
                                       !.view = {r \in st.rows : r.key \in locked},
                                       !.affected = @ + st.affected,
                                       !.first = IF @ = 0 THEN st.first ELSE @,
                                       !.i = @ + 1, !.step = step]
        OBVIOUS
    <2>4. new.step = step
        BY <2>1, <2>3 DEF Fields
    <2>5. call' = [call EXCEPT ![c] = new] /\ table' = table
        BY <1>11, <2>1, <2>2, <2>3 DEF InsertChunk
    <2>6. QED
        BY <1>6, <2>2, <2>4, <2>5
<1>12. CASE InsertOnce(c)
    <2>1. c = w
        BY <1>5, <1>12 DEF InsertOnce
    <2>2. QED
        BY <1>12, <2>1, OnceWrites DEF WroteAsOne
<1>13. CASE CommitInsert(c)
    <2>1. c = w
        BY <1>5, <1>13 DEF CommitInsert
    <2>2. QED
        BY <1>13, <2>1, CommitWrites DEF WroteAsOne
<1>14. CASE CommitUnknown(c)
    <2>1. c = w
        BY <1>5, <1>14 DEF CommitUnknown
    <2>2. QED
        BY <1>14, <2>1, UnknownWrites DEF WroteAsOne
<1>15. CASE LookUpOnce(c) \/ BeginLookup(c) \/ LookUpChunk(c)
    <2>1. c # w
        BY <1>2, <1>15 DEF LookUpOnce, BeginLookup, LookUpChunk
    <2>2. \E new : call' = [call EXCEPT ![c] = new]
        BY <1>15 DEF LookUpOnce, BeginLookup, LookUpChunk
    <2>3. QED
        BY <1>5, <2>1, <2>2
<1>16. CASE ConsumeRow(c) \/ EndStream(c)
    <2>1. call[c].step = "stream"
        BY <1>16 DEF ConsumeRow, EndStream
    <2>2. c # w
        <3>1. WriteCall(call[w], w \in Upserts, table)
            BY DEF DbInv
        <3>2. QED
            BY <2>1, <3>1 DEF WriteCall
    <2>3. \E new : call' = [call EXCEPT ![c] = new]
        BY <1>16 DEF ConsumeRow, EndStream
    <2>4. QED
        BY <1>5, <2>2, <2>3
<1>17. QED
    BY <1>4, <1>7, <1>8, <1>9, <1>10, <1>11, <1>12, <1>13, <1>14, <1>15, <1>16

\* _insertMany: an insert that was cut in chunks, perhaps rolled back and sent again, by any
\* number of callers at once, is answered only when it did all that one statement with all its
\* rows would have done at that moment, with the answer of that statement; one that fails did
\* all of it or nothing.
THEOREM InsertsWriteAsOne == DbSpec => WritesAsOne
<1>1. DbInv /\ [DbNext]_wrapperVars =>
        [\A w \in Writers : call'[w] # call[w] =>
           IF call'[w].step = "done" THEN SameButNewIds(w) /\ SameAnswer(w, AsOneStatement(w))
           ELSE table' = table \/ (call'[w].step = "failed" /\ SameButNewIds(w))]_wrapperVars
    BY WriteStep DEF WroteAsOne
<1>2. QED
    BY <1>1, DbInvariant, PTL DEF DbSpec, WritesAsOne

-----------------------------------------------------------------------------
(* Connections *)

CallOK(rec) ==
    /\ rec.step \in {"none", "ready", "chunk", "stream", "commit", "delay", "done", "failed"}
    /\ rec.left \in 0 .. MaxRetries /\ (rec.step = "delay" => rec.left > 0)
    /\ rec.conn \in Conns \cup {NoConn}
    /\ rec.conn # NoConn <=> rec.step \in {"chunk", "stream", "commit"}

\* A connection is held exactly while a transaction or a stream is going on, by one call.
ConnInv ==
    /\ dbPool \in {"open", "none"} /\ removals \in 0 .. MaxRemovals
    /\ \A c \in Callers : CallOK(call[c])
    /\ \A c, d \in Callers : call[c].conn # NoConn /\ c # d => call[c].conn # call[d].conn
    /\ \A r \in Readers : call[r].view \subseteq Rows

LEMMA ConnStep ==
    ASSUME DbInv, ConnInv, NEW c \in Callers, NEW new, call' = [call EXCEPT ![c] = new], CallOK(new),
           new.conn = NoConn \/ new.conn = call[c].conn \/ Free(new.conn),
           c \in Readers => new.view \subseteq Rows, UNCHANGED <<dbPool, removals>>
    PROVE  ConnInv'
<1>1. call'[c] = new /\ \A d \in Callers \ {c} : call'[d] = call[d]
    BY DEF DbInv
<1>2. \A d \in Callers : CallOK(call'[d])
    BY <1>1 DEF ConnInv
<1>3. \A d \in Callers \ {c} : new.conn # NoConn => new.conn # call[d].conn
    BY DEF ConnInv, Free
<1>4. ASSUME NEW a \in Callers, NEW b \in Callers, call'[a].conn # NoConn, a # b
      PROVE  call'[a].conn # call'[b].conn
    <2>1. CASE a = c
        BY <1>1, <1>3, <1>4, <2>1
    <2>2. CASE b = c
        BY <1>1, <1>3, <1>4, <2>2
    <2>3. CASE a # c /\ b # c
        BY <1>1, <1>4, <2>3 DEF ConnInv
    <2>4. QED
        BY <2>1, <2>2, <2>3
<1>5. \A r \in Readers : call'[r].view \subseteq Rows
    BY <1>1 DEF ConnInv, Callers
<1>6. QED
    BY <1>2, <1>4, <1>5 DEF ConnInv

\* A step after which the caller holds no connection
LEMMA ConnReleased ==
    ASSUME DbInv, ConnInv, NEW c \in Callers, NEW new, call' = [call EXCEPT ![c] = new],
           UNCHANGED <<dbPool, removals>>, new.conn = NoConn, new.left \in 0 .. MaxRetries,
           new.step \in {"ready", "delay", "done", "failed"}, new.step = "delay" => new.left > 0,
           c \in Readers => new.view \subseteq Rows
    PROVE  ConnInv'
<1>1. CallOK(new)
    BY DEF CallOK
<1>2. QED
    BY <1>1, ConnStep

\* NotCalled with a few fields: what a call is at first, and what it is when it is over
LEMMA BareIs ==
    ASSUME NEW new, NEW step, NEW left, NEW args, NEW affected, NEW id,
           \/ new = Fresh(args, left, step)
           \/ new = Done(affected, id) /\ step = "done" /\ left = 0
           \/ new = [NotCalled EXCEPT !.step = "failed"] /\ step = "failed" /\ left = 0
    PROVE  new.step = step /\ new.left = left /\ new.conn = NoConn /\ new.view = {}
<1>1. PICK none : none = NotCalled
    OBVIOUS
<1>2. Fields(none) /\ none.view = {} /\ none.conn = NoConn /\ none.left = 0
    BY <1>1 DEF Fields, NotCalled
<1>3. \/ new = [none EXCEPT !.step = step, !.args = args, !.left = left]
      \/ /\ new = [none EXCEPT !.step = "done", !.affected = affected, !.insertId = id]
         /\ step = "done" /\ left = 0
      \/ new = [none EXCEPT !.step = "failed"] /\ step = "failed" /\ left = 0
    BY <1>1 DEF Fresh, Done
<1>4. QED
    BY <1>2, <1>3 DEF Fields

LEMMA ConnKept ==
    ASSUME DbInv, ConnInv, DbNext
    PROVE  ConnInv'
<1>0. MaxRetries \in Nat /\ MaxRemovals \in Nat /\ NoConn \notin Conns
    BY DbAssumption DEF DbAssumption
<1>1. CASE RemoveRow
    <2>1. removals' \in 0 .. MaxRemovals /\ UNCHANGED <<dbPool, call>>
        BY <1>0, <1>1 DEF RemoveRow, ConnInv
    <2>2. QED
        BY <2>1 DEF ConnInv
<1>2. CASE Disconnect
    BY <1>2 DEF Disconnect, ConnInv
<1>3. SUFFICES ASSUME NEW c \in Callers,
                      \/ StartCall(c) \/ Retry(c) \/ LockError(c) \/ OtherError(c)
                      \/ InsertOnce(c) \/ BeginInsert(c) \/ InsertChunk(c)
                      \/ CommitInsert(c) \/ CommitUnknown(c)
                      \/ LookUpOnce(c) \/ BeginLookup(c) \/ LookUpChunk(c) \/ ConsumeRow(c)
                      \/ EndStream(c)
               PROVE  ConnInv'
    BY <1>1, <1>2 DEF DbNext
<1>4. PICK old : old = call[c]
    OBVIOUS
<1>5. Fields(old) /\ CallOK(old) /\ (c \in Readers => old.view \subseteq Rows)
    BY <1>4 DEF DbInv, ConnInv
<1>6. c \in Writers => c \notin Readers
    BY CallersAre, DbAssumption
<1>7. CASE StartCall(c)
    <2>1. PICK args : BeginCall(c, args)
        BY <1>7 DEF StartCall
    <2>2. PICK new, step : /\ step = IF dbPool = "none" THEN "failed" ELSE "ready"
                           /\ new = Fresh(args, MaxRetries, step)
        OBVIOUS
    <2>3. call' = [call EXCEPT ![c] = new] /\ UNCHANGED <<dbPool, removals>>
        BY <2>1, <2>2 DEF BeginCall, Fresh
    <2>4. new.step = step /\ new.left = MaxRetries /\ new.conn = NoConn /\ new.view = {}
        BY <2>2, BareIs
    <2>5. MaxRetries \in 0 .. MaxRetries /\ new.step \in {"ready", "failed"}
        BY <1>0, <2>2, <2>4
    <2>6. QED
        BY <2>3, <2>4, <2>5, ConnReleased
<1>8. CASE Retry(c)
    <2>1. PICK new, step, left, args :
            /\ step = IF dbPool = "none" THEN "failed" ELSE "ready"
            /\ left = old.left - 1 /\ args = old.args /\ new = Fresh(args, left, step)
        OBVIOUS
    <2>2. [Attempt(c) EXCEPT !.step = step, !.left = @ - 1] = new
        BY <1>4, <2>1 DEF Attempt, Fresh, NotCalled
    <2>3. call' = [call EXCEPT ![c] = new] /\ UNCHANGED <<dbPool, removals>> /\ old.step = "delay"
        BY <1>4, <1>8, <2>1, <2>2 DEF Retry
    <2>4. new.step = step /\ new.left = left /\ new.conn = NoConn /\ new.view = {}
        BY <2>1, BareIs
    <2>5. left \in 0 .. MaxRetries /\ new.step \in {"ready", "failed"}
        BY <1>0, <1>5, <2>1, <2>3, <2>4 DEF CallOK
    <2>6. QED
        BY <2>3, <2>4, <2>5, ConnReleased
<1>9. CASE LockError(c) \/ OtherError(c) \/ CommitUnknown(c)
    <2>1. PICK lockError : /\ call' = [call EXCEPT ![c] = AfterError(c, lockError)]
                           /\ UNCHANGED <<dbPool, removals>>
        BY <1>9 DEF LockError, OtherError, CommitUnknown
    <2>2. PICK new : new = AfterError(c, lockError)
        OBVIOUS
    <2>3. CASE lockError /\ old.left > 0
        <3>1. new = [old EXCEPT !.step = "delay", !.conn = NoConn, !.locked = {}, !.view = {}]
            BY <1>4, <2>2, <2>3 DEF AfterError
        <3>2. new.step = "delay" /\ new.left = old.left /\ new.conn = NoConn /\ new.view = {}
            BY <1>5, <3>1 DEF Fields
        <3>3. new.left \in 0 .. MaxRetries /\ new.left > 0
            BY <1>5, <2>3, <3>2 DEF CallOK
        <3>4. QED
            BY <2>1, <2>2, <3>2, <3>3, ConnReleased
    <2>4. CASE ~(lockError /\ old.left > 0)
        <3>1. new = [NotCalled EXCEPT !.step = "failed"]
            BY <1>4, <2>2, <2>4 DEF AfterError
        <3>2. new.step = "failed" /\ new.left = 0 /\ new.conn = NoConn /\ new.view = {}
            BY <3>1, BareIs
        <3>3. new.left \in 0 .. MaxRetries /\ new.step \in {"failed"} /\ new.step # "delay"
            BY <1>0, <3>2
        <3>4. call' = [call EXCEPT ![c] = new]
            BY <2>1, <2>2
        <3>5. QED
            BY <2>1, <3>2, <3>3, <3>4, ConnReleased
    <2>5. QED
        BY <2>3, <2>4
<1>10. CASE InsertOnce(c) \/ CommitInsert(c)
    <2>1. PICK affected, id : /\ call' = [call EXCEPT ![c] = Done(affected, id)]
                              /\ UNCHANGED <<dbPool, removals>>
        BY <1>10 DEF InsertOnce, CommitInsert, Done
    <2>2. PICK new : new = Done(affected, id)
        OBVIOUS
    <2>3. new.step = "done" /\ new.left = 0 /\ new.conn = NoConn /\ new.view = {}
        BY <2>2, BareIs
    <2>4. new.left \in 0 .. MaxRetries /\ new.step # "delay"
        BY <1>0, <2>3
    <2>5. call' = [call EXCEPT ![c] = new]
        BY <2>1, <2>2
    <2>6. QED
        BY <2>1, <2>3, <2>4, <2>5, ConnReleased
<1>11. CASE BeginInsert(c)
    <2>1. PICK s \in Conns : /\ Free(s)
             /\ call' = [call EXCEPT ![c] =
                   [call[c] EXCEPT !.step = "chunk", !.conn = s, !.i = 1,
                                   !.previous = IF c \in Upserts THEN session[s] ELSE 0]]
        BY <1>11 DEF BeginInsert
    <2>2. PICK new : new = [old EXCEPT !.step = "chunk", !.conn = s, !.i = 1,
                                       !.previous = IF c \in Upserts THEN session[s] ELSE 0]
        OBVIOUS
    <2>3. new.step = "chunk" /\ new.conn = s /\ new.left = old.left
        BY <1>5, <2>2 DEF Fields
    <2>4. c \notin Readers /\ UNCHANGED <<dbPool, removals>>
        BY <1>6, <1>11 DEF BeginInsert
    <2>5. CallOK(new)
        BY <1>0, <1>5, <2>3 DEF CallOK
    <2>6. QED
        BY <1>4, <2>1, <2>2, <2>3, <2>4, <2>5, ConnStep
<1>12. CASE InsertChunk(c)
    <2>1. PICK st, locked, step :
            /\ st = Insert(Visible(c), nextId, Chunk(c), c \in Upserts)
            /\ locked = call[c].locked \cup KeysIn(Chunk(c))
            /\ step = IF call[c].i = Len(Chunks(call[c].args)) THEN "commit" ELSE "chunk"
        OBVIOUS
    <2>2. PICK new : new = [old EXCEPT !.locked = locked,
                                       !.view = {r \in st.rows : r.key \in locked},
                                       !.affected = @ + st.affected,
                                       !.first = IF @ = 0 THEN st.first ELSE @,
                                       !.i = @ + 1, !.step = step]
        OBVIOUS
    <2>3. new.step = step /\ new.conn = old.conn /\ new.left = old.left
        BY <1>5, <2>2 DEF Fields
    <2>4. call' = [call EXCEPT ![c] = new]
        BY <1>4, <1>12, <2>1, <2>2 DEF InsertChunk
    <2>5. c \notin Readers /\ UNCHANGED <<dbPool, removals>> /\ old.step = "chunk"
        BY <1>4, <1>6, <1>12 DEF InsertChunk
    <2>6. CallOK(new)
        BY <1>5, <2>1, <2>3, <2>5 DEF CallOK
    <2>7. QED
        BY <1>4, <2>3, <2>4, <2>5, <2>6, ConnStep
<1>13. CASE LookUpOnce(c)
    <2>1. PICK list : /\ call' = [call EXCEPT ![c] = [call[c] EXCEPT !.step = "done", !.rows = list]]
                      /\ UNCHANGED <<dbPool, removals>> /\ call[c].step = "ready"
        BY <1>13 DEF LookUpOnce
    <2>2. PICK new : new = [old EXCEPT !.step = "done", !.rows = list]
        OBVIOUS
    <2>3. new.step = "done" /\ new.conn = old.conn /\ new.left = old.left /\ new.view = old.view
        BY <1>5, <2>2 DEF Fields
    <2>4. old.conn = NoConn /\ old.left \in 0 .. MaxRetries
        BY <1>4, <1>5, <2>1 DEF CallOK
    <2>5. QED
        BY <1>4, <1>5, <2>1, <2>2, <2>3, <2>4, ConnReleased
<1>14. CASE BeginLookup(c)
    <2>1. PICK s \in Conns : /\ Free(s)
             /\ call' = [call EXCEPT ![c] =
                   [call[c] EXCEPT !.step = IF c \in Streams THEN "stream" ELSE "chunk",
                                   !.conn = s, !.i = 1,
                                   !.view = Matching(table, call[c].args)]]
        BY <1>14 DEF BeginLookup
    <2>2. PICK step, view : /\ step = IF c \in Streams THEN "stream" ELSE "chunk"
                            /\ view = Matching(table, call[c].args)
        OBVIOUS
    <2>3. PICK new : new = [old EXCEPT !.step = step, !.conn = s, !.i = 1, !.view = view]
        OBVIOUS
    <2>4. new.step = step /\ new.conn = s /\ new.left = old.left /\ new.view = view
        BY <1>5, <2>3 DEF Fields
    <2>5. view \subseteq Rows
        BY <2>2 DEF Matching, DbInv, Shape
    <2>6. CallOK(new)
        BY <1>0, <1>5, <2>2, <2>4 DEF CallOK
    <2>7. UNCHANGED <<dbPool, removals>>
        BY <1>14 DEF BeginLookup
    <2>8. QED
        BY <1>4, <2>1, <2>2, <2>3, <2>4, <2>5, <2>6, <2>7, ConnStep
<1>15. CASE LookUpChunk(c)
    <2>1. PICK over, list :
            /\ over = (call[c].i = Len(Chunks(call[c].args)))
            /\ list = SetToSeq({row \in Matching(call[c].view, Chunk(c)) :
                                  \A i \in DOMAIN call[c].rows : call[c].rows[i].id # row.id})
        OBVIOUS
    <2>2. PICK new : new = [old EXCEPT !.rows = @ \o list, !.i = @ + 1,
                                       !.step = IF over THEN "done" ELSE "chunk",
                                       !.conn = IF over THEN NoConn ELSE @,
                                       !.view = IF over THEN {} ELSE @]
        OBVIOUS
    <2>3. call' = [call EXCEPT ![c] = new] /\ UNCHANGED <<dbPool, removals>> /\ old.step = "chunk"
        BY <1>4, <1>15, <2>1, <2>2 DEF LookUpChunk
    <2>4. /\ new.step = IF over THEN "done" ELSE "chunk"
          /\ new.conn = IF over THEN NoConn ELSE old.conn
          /\ new.view = IF over THEN {} ELSE old.view
          /\ new.left = old.left
        BY <1>5, <2>2 DEF Fields
    <2>5. CallOK(new)
        BY <1>5, <2>3, <2>4 DEF CallOK
    <2>6. new.view \subseteq old.view
        BY <2>4
    <2>7. QED
        BY <1>4, <1>5, <2>3, <2>4, <2>5, <2>6, ConnStep
<1>16. CASE ConsumeRow(c)
    <2>1. PICK row : call' = [call EXCEPT ![c] = [old EXCEPT !.rows = Append(@, row), !.view = @ \ {row}]]
        BY <1>4, <1>16 DEF ConsumeRow
    <2>2. PICK new : new = [old EXCEPT !.rows = Append(@, row), !.view = @ \ {row}]
        OBVIOUS
    <2>3. /\ new.step = old.step /\ new.conn = old.conn /\ new.left = old.left
          /\ new.view \subseteq old.view
        BY <1>5, <2>2 DEF Fields
    <2>4. CallOK(new) /\ UNCHANGED <<dbPool, removals>>
        BY <1>5, <1>16, <2>3 DEF CallOK, ConsumeRow
    <2>5. QED
        BY <1>4, <1>5, <2>1, <2>2, <2>3, <2>4, ConnStep
<1>17. CASE EndStream(c)
    <2>1. PICK new : new = [old EXCEPT !.step = "done", !.conn = NoConn]
        OBVIOUS
    <2>2. call' = [call EXCEPT ![c] = new] /\ UNCHANGED <<dbPool, removals>>
        BY <1>4, <1>17, <2>1 DEF EndStream
    <2>3. new.step = "done" /\ new.conn = NoConn /\ new.left = old.left /\ new.view = old.view
        BY <1>5, <2>1 DEF Fields
    <2>4. new.left \in 0 .. MaxRetries
        BY <1>5, <2>3 DEF CallOK
    <2>5. QED
        BY <1>5, <2>2, <2>3, <2>4, ConnReleased
<1>18. QED
    BY <1>3, <1>7, <1>8, <1>9, <1>10, <1>11, <1>12, <1>13, <1>14, <1>15, <1>16, <1>17

\* A call has the locks of keys only.
LEMMA LocksAreKeys ==
    ASSUME DbInv, NEW c \in Callers
    PROVE  call[c].locked \subseteq RowKeys
<1>1. CASE c \in Readers
    BY <1>1 DEF DbInv, ReadCall
<1>2. CASE c \in Writers
    <2>1. PICK rec : rec = call[c] /\ WriteCall(rec, c \in Upserts, table)
        BY <1>2 DEF DbInv
    <2>2. CASE Idle(rec)
        BY <2>1, <2>2 DEF Idle
    <2>3. CASE InChunks(rec, c \in Upserts, table)
        <3>1. PICK args \in Seq(Entries) : args = rec.args
            BY <2>3, ArgsAre DEF InChunks
        <3>2. Len(Chunks(args)) \in Nat /\ IsCut(Starts(args), Chunks(args), args, Len(args))
            BY ChunksAre
        <3>3. rec.i - 1 \in 0 .. Len(Chunks(args))
            BY <2>3, <3>1, <3>2 DEF InChunks
        <3>4. PICK p : p = Starts(args)[rec.i - 1]
            OBVIOUS
        <3>5. p \in Nat /\ p <= Len(args)
            BY <3>2, <3>3, <3>4 DEF IsCut
        <3>6. rec.locked = KeysUpTo(args, p)
            BY <2>3, <3>1, <3>4 DEF InChunks
        <3>7. \A j \in 1 .. p : args[j] \in Entries
            BY <3>5
        <3>8. QED
            BY <2>1, <3>6, <3>7 DEF KeysUpTo, Entries
    <2>4. QED
        BY <2>1, <2>2, <2>3 DEF WriteCall
<1>3. QED
    BY <1>1, <1>2, CallersAre, DbAssumption

\* The pool, its connections and the records of the calls: a connection is held exactly while a
\* transaction or a stream is going on, no two calls share one, nor a lock, and a call is not
\* made again more often than MaxRetries allows, whatever fails in between.
THEOREM ConnectionsApart == DbSpec => []DbTypeOK
<1>1. DbInit => ConnInv
    <2>1. SUFFICES ASSUME DbInit PROVE ConnInv
        OBVIOUS
    <2>2. PICK none : none = NotCalled
        OBVIOUS
    <2>3. none.step = "none" /\ none.left = 0 /\ none.conn = NoConn /\ none.view = {}
        BY <2>2 DEF NotCalled
    <2>4. \A c \in Callers : call[c] = none
        BY <2>1, <2>2 DEF DbInit
    <2>5. MaxRetries \in Nat /\ MaxRemovals \in Nat
        BY DbAssumption DEF DbAssumption
    <2>6. CallOK(none)
        BY <2>3, <2>5 DEF CallOK
    <2>7. dbPool = "open" /\ removals = 0
        BY <2>1 DEF DbInit
    <2>8. QED
        BY <2>3, <2>4, <2>5, <2>6, <2>7 DEF ConnInv, Callers
<1>2. DbInv /\ ConnInv /\ [DbNext]_wrapperVars => ConnInv'
    <2>1. CASE DbNext
        BY <2>1, ConnKept
    <2>2. CASE UNCHANGED wrapperVars
        BY <2>2 DEF wrapperVars, ConnInv
    <2>3. QED
        BY <2>1, <2>2
<1>3. DbInv /\ ConnInv => DbTypeOK
    <2>1. SUFFICES ASSUME DbInv, ConnInv PROVE DbTypeOK
        OBVIOUS
    <2>2. /\ table \subseteq Rows /\ \A r, q \in table : r.key = q.key \/ r.id = q.id => r = q
          /\ nextId \in Nat /\ \A r \in table : r.id < nextId
          /\ session \in [Conns -> Nat] /\ DOMAIN call = Callers
        BY <2>1 DEF DbInv, Shape, UniqueKeys, UniqueIds, Below
    <2>3. ASSUME NEW c \in Callers
          PROVE  /\ call[c].step \in {"none", "ready", "chunk", "stream", "commit", "delay", "done",
                                      "failed"}
                 /\ call[c].left \in 0 .. MaxRetries
                 /\ call[c].conn \in Conns \cup {NoConn} /\ (call[c].conn # NoConn <=> Connected(c))
                 /\ call[c].locked \subseteq RowKeys /\ call[c].view \subseteq Rows
        <3>1. CallOK(call[c])
            BY <2>1 DEF ConnInv
        <3>2. call[c].view \subseteq Rows
            <4>1. CASE c \in Readers
                BY <2>1, <4>1 DEF ConnInv
            <4>2. CASE c \in Writers
                BY <2>1, <4>2, ViewShape DEF Shape
            <4>3. QED
                BY <4>1, <4>2 DEF Callers
        <3>3. call[c].locked \subseteq RowKeys
            BY <2>1, LocksAreKeys
        <3>4. QED
            BY <3>1, <3>2, <3>3 DEF CallOK, Connected
    <2>4. LocksApart
        BY <2>1 DEF DbInv
    <2>5. \A c, d \in Callers :
            call[c].conn # NoConn /\ c # d =>
               call[c].conn # call[d].conn /\ call[c].locked \cap call[d].locked = {}
        BY <2>1, <2>4 DEF ConnInv, LocksApart
    <2>6. dbPool \in {"open", "none"} /\ removals \in 0 .. MaxRemovals
        BY <2>1 DEF ConnInv
    <2>7. QED
        BY <2>2, <2>3, <2>5, <2>6 DEF DbTypeOK
<1>4. QED
    BY <1>1, <1>2, <1>3, DbInvariant, PTL DEF DbSpec
=============================================================================
