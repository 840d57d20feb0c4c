------------------------------ MODULE DbWrapper ------------------------------
(***************************************************************************)
(* lib/db/mysql-db-wrapper.ts, the part that sends statements: queries     *)
(* that are sent again on a lock error, inserts that are cut in chunks and *)
(* must look like one statement, lookups that are cut in chunks and must   *)
(* look like one read, rows that are consumed while they arrive.           *)
(*                                                                         *)
(* The server (MariaDB) is external: one table with a unique key and an    *)
(* AUTO_INCREMENT id, the rows a transaction wrote are locked until it     *)
(* ends, and a transaction that waits for them may get a lock error, at    *)
(* which it is rolled back.                                                *)
(***************************************************************************)
EXTENDS Naturals, FiniteSets, SequencesExt

CONSTANTS
    Writers,        \* calls of _insertMany
    Upserts,        \* those with ON DUPLICATE KEY UPDATE and an identity; the others IGNORE
    Readers,        \* calls that look keys up
    Streams,        \* those by _queryReduce; the others by _queryOutpoints
    Conns,          \* the connections of the pool
    NoConn,
    RowKeys, RowVals,   \* the unique key of a row, and its other columns
    Inserts,        \* what writers insert: sequences of [key, val, bytes]
    Lookups,        \* what readers ask for: sequences of [key, bytes]
    StoredAtStart,  \* tables at the start: sets of rows
    ByteLimit,      \* byteLimit, less the bytes of the statement
    MaxRows,        \* MAX_OUTPOINT_BATCH_ROWS; maxRows of _insertMany
    foundRows,      \* an unchanged row of an upsert counts as affected
    MaxRetries,     \* retries after lock errors
    MaxRemovals,    \* bound: deletions by others
    MaxCallers      \* bound: calls

Callers == Writers \cup Readers
Rows == [key : RowKeys, id : Nat \ {0}, val : RowVals]

ASSUME DbAssumption ==
    /\ Upserts \subseteq Writers /\ Streams \subseteq Readers /\ Writers \cap Readers = {}
    /\ NoConn \notin Conns /\ foundRows \in BOOLEAN
    /\ {ByteLimit, MaxRows} \subseteq Nat \ {0} /\ {MaxRetries, MaxRemovals, MaxCallers} \subseteq Nat
    /\ \A rs \in Inserts : rs # <<>> /\ rs \in Seq([key : RowKeys, val : RowVals, bytes : Nat])
    /\ \A ks \in Lookups : ks # <<>> /\ ks \in Seq([key : RowKeys, bytes : Nat])
    /\ \A rows \in StoredAtStart :
         /\ rows \subseteq Rows /\ IsFiniteSet(rows)
         /\ \A r, q \in rows : r.key = q.key \/ r.id = q.id => r = q
         /\ \A r \in rows : r.id <= Cardinality(rows)

VARIABLES
    table,      \* the rows that are committed
    nextId,     \* AUTO_INCREMENT
    session,    \* LAST_INSERT_ID() of each connection
    dbPool,     \* this.pool
    call,       \* what each caller does
    removals,
    moments     \* history: the tables there were since each lookup began

wrapperVars == <<table, nextId, session, dbPool, call, removals, moments>>

NotCalled == [step |-> "none", args |-> <<>>, left |-> 0, conn |-> NoConn, i |-> 0,
              view |-> {}, locked |-> {}, affected |-> 0, first |-> 0, previous |-> 0,
              rows |-> <<>>, insertId |-> 0]

DbInit ==
    /\ table \in StoredAtStart
    /\ nextId = Cardinality(table) + 1
    /\ session = [s \in Conns |-> 0]
    /\ dbPool = "open"
    /\ call = [c \in Callers |-> NotCalled]
    /\ removals = 0
    /\ moments = [r \in Readers |-> {}]

-----------------------------------------------------------------------------
(* The server *)

RowOf(rows, k) == CHOOSE r \in rows : r.key = k
HasKey(rows, k) == \E r \in rows : r.key = k

\* One INSERT of several rows, row after row. "first" is the first id it generates, "last"
\* the id of the last row, "changed" says that it updated some row.
InsertRow(upsert, st, row) ==
    IF ~HasKey(st.rows, row.key)
    THEN [rows |-> st.rows \cup {[key |-> row.key, id |-> st.next, val |-> row.val]},
          next |-> st.next + 1, affected |-> st.affected + 1,
          first |-> IF st.first = 0 THEN st.next ELSE st.first,
          last |-> st.next, changed |-> st.changed]
    ELSE LET old == RowOf(st.rows, row.key)
             updated == upsert /\ old.val # row.val
         IN [rows |-> IF updated THEN (st.rows \ {old}) \cup {[old EXCEPT !.val = row.val]}
                      ELSE st.rows,
             next |-> st.next,
             affected |-> st.affected + (CASE updated -> 2
                                           [] upsert /\ ~updated /\ foundRows -> 1
                                           [] OTHER -> 0),
             first |-> st.first, last |-> old.id, changed |-> st.changed \/ updated]

Insert(rows, next, rs, upsert) ==
    LET after[i \in 0 .. Len(rs)] ==
            IF i = 0 THEN [rows |-> rows, next |-> next, affected |-> 0, first |-> 0,
                           last |-> 0, changed |-> FALSE]
            ELSE InsertRow(upsert, after[i - 1], rs[i])
    IN after[Len(rs)]

\* The insertId of its answer
InsertId(st, upsert) ==
    IF st.first # 0 THEN st.first ELSE IF upsert /\ st.changed THEN st.last ELSE 0

KeysIn(args) == {args[i].key : i \in DOMAIN args}

\* Nobody else holds a lock on these keys.
Unlocked(c, keys) == \A d \in Callers \ {c} : call[d].locked \cap keys = {}

Store(rows) ==
    /\ table' = rows
    /\ moments' = [r \in Readers |-> IF call[r].step \in {"none", "done", "failed"}
                                     THEN moments[r] ELSE moments[r] \cup {rows}]

\* Another statement deletes a row, such as deleteTransaction.
RemoveRow ==
    \E r \in table :
        /\ removals < MaxRemovals /\ removals' = removals + 1
        /\ \A c \in Callers : r.key \notin call[c].locked
        /\ Store(table \ {r})
        /\ UNCHANGED <<nextId, session, dbPool, call>>

-----------------------------------------------------------------------------
(* The pool and the retries *)

Free(s) == \A c \in Callers : call[c].conn # s

\* A call, and one that is made again after a delay, throws if there is no pool.
BeginCall(c, args) ==
    /\ call[c].step = "none"
    /\ Cardinality({d \in Callers : call[d].step # "none"}) < MaxCallers
    /\ call' = [call EXCEPT ![c] =
                  [NotCalled EXCEPT !.step = IF dbPool = "none" THEN "failed" ELSE "ready",
                                    !.args = args, !.left = MaxRetries]]
    /\ moments' = IF c \in Readers THEN [moments EXCEPT ![c] = {table}] ELSE moments
    /\ UNCHANGED <<table, nextId, session, dbPool, removals>>

StartCall(c) ==
    \E args \in IF c \in Writers THEN Inserts ELSE Lookups : BeginCall(c, args)

\* Fault: rows that an attempt consumed stay in the result.
Attempt_KeepsRows(c) ==
    [NotCalled EXCEPT !.args = call[c].args, !.left = call[c].left, !.rows = call[c].rows]

\* Each attempt has a result of its own.
Attempt(c) == [NotCalled EXCEPT !.args = call[c].args, !.left = call[c].left]

\* util.delay, and the same call with one retry less
Retry(c) ==
    /\ call[c].step = "delay"
    /\ call' = [call EXCEPT ![c] =
                  [Attempt(c) EXCEPT !.step = IF dbPool = "none" THEN "failed" ELSE "ready",
                                     !.left = @ - 1]]
    /\ UNCHANGED <<table, nextId, session, dbPool, removals, moments>>

\* The transaction is rolled back and the connection released; after a lock error the call
\* is made again.
AfterError(c, lockError) ==
    IF lockError /\ call[c].left > 0
    THEN [call[c] EXCEPT !.step = "delay", !.conn = NoConn, !.locked = {}, !.view = {}]
    ELSE [NotCalled EXCEPT !.step = "failed"]

Connected(c) == call[c].step \in {"chunk", "stream", "commit"}

\* Any other error, such as that of a pool that is ended: it is thrown.
OtherError(c) ==
    /\ call[c].step = "ready" \/ Connected(c)
    /\ call' = [call EXCEPT ![c] = AfterError(c, FALSE)]
    /\ UNCHANGED <<table, nextId, session, dbPool, removals, moments>>

\* disconnect: from now on connections are refused, and then there is no pool.
Disconnect ==
    /\ dbPool = "open" /\ dbPool' = "none"
    /\ UNCHANGED <<table, nextId, session, call, removals, moments>>

-----------------------------------------------------------------------------
(* Inserts and lookups in chunks *)

Fits(acc, entry) == acc.bytes + entry.bytes <= ByteLimit /\ Len(acc.chunk) < MaxRows

\* A chunk is closed before the entry that does not fit; a chunk has one entry at least.
AddEntry(acc, entry) ==
    IF acc.chunk = <<>> \/ Fits(acc, entry)
    THEN [acc EXCEPT !.chunk = Append(@, entry), !.bytes = @ + entry.bytes]
    ELSE [closed |-> Append(acc.closed, acc.chunk), chunk |-> <<entry>>, bytes |-> entry.bytes]

Cut(args) ==
    LET acc[i \in 0 .. Len(args)] ==
            IF i = 0 THEN [closed |-> <<>>, chunk |-> <<>>, bytes |-> 0]
            ELSE AddEntry(acc[i - 1], args[i])
    IN acc[Len(args)]

Chunks(args) == Append(Cut(args).closed, Cut(args).chunk)

Batched(c) == Len(Chunks(call[c].args)) > 1
Chunk(c) == Chunks(call[c].args)[call[c].i]

\* A statement that waits for a lock may get a lock error; so may any lookup.
LockError(c) ==
    /\ \/ c \in Readers /\ (call[c].step = "ready" \/ Connected(c))
       \/ c \in Writers /\ call[c].step = "ready" /\ ~Batched(c)
          /\ ~Unlocked(c, KeysIn(call[c].args))
       \/ c \in Writers /\ call[c].step = "chunk" /\ ~Unlocked(c, KeysIn(Chunk(c)))
    /\ call' = [call EXCEPT ![c] = AfterError(c, TRUE)]
    /\ UNCHANGED <<table, nextId, session, dbPool, removals, moments>>

\* One chunk: a statement of its own, on any connection
InsertOnce(w) ==
    /\ call[w].step = "ready" /\ w \in Writers /\ ~Batched(w) /\ dbPool = "open"
    /\ Unlocked(w, KeysIn(call[w].args))
    /\ \E s \in Conns :
         LET st == Insert(table, nextId, call[w].args, w \in Upserts) IN
         /\ Free(s)
         /\ Store(st.rows) /\ nextId' = st.next
         /\ session' = IF st.first # 0 THEN [session EXCEPT ![s] = st.first] ELSE session
         /\ call' = [call EXCEPT ![w] =
                       [NotCalled EXCEPT !.step = "done", !.affected = st.affected,
                                         !.insertId = InsertId(st, w \in Upserts)]]
    /\ UNCHANGED <<dbPool, removals>>

\* Several: getConnection and beginTransaction
BeginInsert(w) ==
    /\ call[w].step = "ready" /\ w \in Writers /\ Batched(w) /\ dbPool = "open"
    /\ \E s \in Conns :
         /\ Free(s)
         /\ call' = [call EXCEPT ![w] =
                       [@ EXCEPT !.step = "chunk", !.conn = s, !.i = 1,
                                 !.previous = IF w \in Upserts THEN session[s] ELSE 0]]
    /\ UNCHANGED <<table, nextId, session, dbPool, removals, moments>>

\* What the transaction sees: its own rows, and of the others those that are committed now
Visible(w) == {r \in table : r.key \notin call[w].locked} \cup call[w].view

\* A chunk: its answer gives the first id it generated; an upsert asks the session for it,
\* which was set to zero.
InsertChunk(w) ==
    /\ call[w].step = "chunk" /\ w \in Writers
    /\ Unlocked(w, KeysIn(Chunk(w)))
    /\ LET st == Insert(Visible(w), nextId, Chunk(w), w \in Upserts)
           locked == call[w].locked \cup KeysIn(Chunk(w))
       IN /\ nextId' = st.next
          /\ session' = [session EXCEPT ![call[w].conn] =
                           IF w \in Upserts \/ st.first # 0 THEN st.first ELSE @]
          /\ call' = [call EXCEPT ![w] =
                [call[w] EXCEPT !.locked = locked,
                                !.view = {r \in st.rows : r.key \in locked},
                                !.affected = @ + st.affected,
                                !.first = IF @ = 0 THEN st.first ELSE @,
                                !.i = @ + 1,
                                !.step = IF call[w].i = Len(Chunks(call[w].args)) THEN "commit"
                                         ELSE "chunk"]]
    /\ UNCHANGED <<table, dbPool, removals, moments>>

\* Fault: an upsert that only updates reports no id.
AggregateId_OnlyGenerated(w) == call[w].first

\* Of an upsert that updated some row and added none, the identity of the last row
ChangedExisting(w) ==
    IF foundRows THEN call[w].affected > Len(call[w].args) ELSE call[w].affected > 0

AggregateId(w) ==
    IF w \in Upserts /\ call[w].first = 0 /\ ChangedExisting(w)
    THEN RowOf(Visible(w), Last(call[w].args).key).id
    ELSE call[w].first

\* The session is given the id that one statement would have left, and the rows are committed.
CommitInsert(w) ==
    /\ call[w].step = "commit" /\ w \in Writers
    /\ session' = [session EXCEPT ![call[w].conn] =
                     IF call[w].first # 0 THEN call[w].first
                     ELSE IF w \in Upserts THEN call[w].previous ELSE @]
    /\ Store(Visible(w))
    /\ call' = [call EXCEPT ![w] =
                  [NotCalled EXCEPT !.step = "done", !.affected = call[w].affected,
                                    !.insertId = AggregateId(w)]]
    /\ UNCHANGED <<nextId, dbPool, removals>>

\* The rows are committed, and the answer of the server is lost.
CommitUnknown(w) ==
    /\ call[w].step = "commit" /\ w \in Writers
    /\ Store(Visible(w))
    /\ call' = [call EXCEPT ![w] = AfterError(w, FALSE)]
    /\ UNCHANGED <<nextId, session, dbPool, removals>>

Matching(rows, args) == {r \in rows : r.key \in KeysIn(args)}

\* One chunk: one SELECT, on any connection
LookUpOnce(r) ==
    /\ call[r].step = "ready" /\ r \in Readers \ Streams /\ ~Batched(r) /\ dbPool = "open"
    /\ \E s \in Conns : Free(s)
    /\ call' = [call EXCEPT ![r] =
                  [@ EXCEPT !.step = "done", !.rows = SetToSeq(Matching(table, call[r].args))]]
    /\ UNCHANGED <<table, nextId, session, dbPool, removals, moments>>

\* Several: a transaction with a snapshot. _queryReduce: one SELECT, whose rows arrive later
BeginLookup(r) ==
    /\ call[r].step = "ready" /\ r \in Readers /\ dbPool = "open"
    /\ r \in Streams \/ Batched(r)
    /\ \E s \in Conns :
         /\ Free(s)
         /\ call' = [call EXCEPT ![r] =
                       [@ EXCEPT !.step = IF r \in Streams THEN "stream" ELSE "chunk",
                                 !.conn = s, !.i = 1,
                                 !.view = Matching(table, call[r].args)]]
    /\ UNCHANGED <<table, nextId, session, dbPool, removals, moments>>

\* The rows of a chunk, without those of earlier ones; commit after the last chunk
LookUpChunk(r) ==
    /\ call[r].step = "chunk" /\ r \in Readers
    /\ LET fresh == {row \in Matching(call[r].view, Chunk(r)) :
                     \A i \in DOMAIN call[r].rows : call[r].rows[i].id # row.id}
           over == call[r].i = Len(Chunks(call[r].args))
       IN call' = [call EXCEPT ![r] =
                     [call[r] EXCEPT !.rows = @ \o SetToSeq(fresh), !.i = @ + 1,
                                     !.step = IF over THEN "done" ELSE "chunk",
                                     !.conn = IF over THEN NoConn ELSE @,
                                     !.view = IF over THEN {} ELSE @]]
    /\ UNCHANGED <<table, nextId, session, dbPool, removals, moments>>

\* The rows of a stream, one after the other, and its end
ConsumeRow(r) ==
    /\ call[r].step = "stream"
    /\ \E row \in call[r].view :
         call' = [call EXCEPT ![r].rows = Append(@, row), ![r].view = @ \ {row}]
    /\ UNCHANGED <<table, nextId, session, dbPool, removals, moments>>

EndStream(r) ==
    /\ call[r].step = "stream" /\ call[r].view = {}
    /\ call' = [call EXCEPT ![r].step = "done", ![r].conn = NoConn]
    /\ UNCHANGED <<table, nextId, session, dbPool, removals, moments>>

-----------------------------------------------------------------------------
DbNext ==
    \/ \E c \in Callers :
         \/ StartCall(c) \/ Retry(c) \/ LockError(c) \/ OtherError(c)
         \/ InsertOnce(c) \/ BeginInsert(c) \/ InsertChunk(c)
         \/ CommitInsert(c) \/ CommitUnknown(c)
         \/ LookUpOnce(c) \/ BeginLookup(c) \/ LookUpChunk(c) \/ ConsumeRow(c) \/ EndStream(c)
    \/ RemoveRow \/ Disconnect

DbSpec == DbInit /\ [][DbNext]_wrapperVars

-----------------------------------------------------------------------------
DbTypeOK ==
    /\ table \subseteq Rows /\ \A r, q \in table : r.key = q.key \/ r.id = q.id => r = q
    /\ nextId \in Nat /\ \A r \in table : r.id < nextId
    /\ session \in [Conns -> Nat]
    /\ dbPool \in {"open", "none"}
    /\ DOMAIN call = Callers
    /\ \A c \in Callers :
         /\ call[c].step \in {"none", "ready", "chunk", "stream", "commit", "delay", "done", "failed"}
         /\ call[c].left \in 0 .. MaxRetries
         /\ call[c].conn \in Conns \cup {NoConn} /\ (call[c].conn # NoConn <=> Connected(c))
         /\ call[c].locked \subseteq RowKeys /\ call[c].view \subseteq Rows
    /\ \A c, d \in Callers :
         call[c].conn # NoConn /\ c # d =>
            call[c].conn # call[d].conn /\ call[c].locked \cap call[d].locked = {}
    /\ removals \in 0 .. MaxRemovals

\* What one statement would do with all rows of an insert, and whether the tables agree on
\* everything but the ids of new rows, which others may have drawn in between
AsOneStatement(w) == Insert(table, nextId, call[w].args, w \in Upserts)

SameButNewIds(w) ==
    /\ {<<r.key, r.val>> : r \in table'} = {<<r.key, r.val>> : r \in AsOneStatement(w).rows}
    /\ \A r \in table : RowOf(table', r.key).id = r.id

\* The id that a row of the one statement has in the table
IdOf(one, id) == RowOf(table', (CHOOSE r \in one.rows : r.id = id).key).id

\* The answer, and what LAST_INSERT_ID() is from now on
SameAnswer(w, one) ==
    /\ call'[w].affected = one.affected
    /\ LET id == InsertId(one, w \in Upserts)
       IN  call'[w].insertId = IF id = 0 THEN 0 ELSE IdOf(one, id)
    /\ Batched(w) /\ w \in Upserts =>
         session'[call[w].conn] = IF one.first # 0 THEN IdOf(one, one.first) ELSE call[w].previous

\* An insert that was cut in chunks, perhaps rolled back and sent again, by several callers
\* at once, is answered only when it did all that one statement with all its rows would have
\* done, at one moment, and its answer is the one of that statement, the id and the session
\* of the connection included ("keeping the call atomic", 639; 744 and 745). One that fails
\* did all of it (the answer to the commit was lost) or nothing.
WritesAsOne ==
    [][\A w \in Writers : call'[w] # call[w] =>
         IF call'[w].step = "done" THEN SameButNewIds(w) /\ SameAnswer(w, AsOneStatement(w))
         ELSE table' = table \/ (call'[w].step = "failed" /\ SameButNewIds(w))]_wrapperVars

\* A lookup in several chunks, or whose rows arrive one by one, tells what the table was at
\* one moment since it was called, each row once, however often it was made again.
ReadsAsOne ==
    \A r \in Readers : call[r].step = "done" =>
        /\ IsInjective(call[r].rows)
        /\ \E rows \in moments[r] : ToSet(call[r].rows) = Matching(rows, call[r].args)
=============================================================================
