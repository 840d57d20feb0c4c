------------------------------- MODULE Import -------------------------------
(***************************************************************************)
(* The accounts process and one HD account (one xpub): its creation,       *)
(* restoration, rescan, lock and deletion, and the import of loose         *)
(* addresses (src/lib/bitcoin/hd-accounts-service.ts,                      *)
(* addresses-service.ts, src/lib/remote-importer/remote-importer.ts, the   *)
(* statements of src/lib/db/mysql-db-wrapper.ts), beside the tracker, which *)
(* derives new addresses for the same account                              *)
(* (src/tracker/transaction.ts).                                           *)
(*                                                                         *)
(* An action is one awaited call with the synchronous code that follows it *)
(* (an answer of the database or of the source of data). A request between *)
(* two calls is a record of program counter and locals; any number of them *)
(* run at once, and nothing is done in a database transaction. The ids of  *)
(* rows are not modelled, only whether one that was read still names its   *)
(* row: a deletion takes it from every request that holds it.              *)
(***************************************************************************)
EXTENDS Integers, FiniteSets, FiniteSetsExt

CONSTANTS
    Requests,     \* the HTTP requests to the accounts process
    Tracker,      \* the task of the tracker that checks a transaction
    Orders,       \* what a request may ask (a set of OrderType)
    Schemes,      \* the derivation schemes BIP44, BIP49, BIP84
    DefaultScheme,\* BIP44
    Gap,          \* the gap limits of chain 0 (external) and 1 (internal)
    Account,      \* the xpub, as a key of the map of imports
    NoRow,        \* the account is not in table hd
    FirstUsed,    \* addresses with transactions when the model starts
    Payable,      \* bound: the addresses paid while the model runs
    MaxFailures   \* bound: the number of failed calls

Chains == {0, 1}

Address == Schemes \X Chains \X Nat

SchemeOf(a) == a[1]
ChainOf(a) == a[2]
IndexOf(a) == a[3]

Kinds == {"new", "restore", "ensure", "rescan", "lock", "delete", "loose"}

OrderType ==
    {o \in [kind : Kinds,
            scheme : Schemes,        \* new, restore: the scheme asked for
            force : BOOLEAN,         \* restore: override a locked account
            lock : BOOLEAN,          \* lock: lock or unlock
            start : Nat,             \* rescan: first index
            keys : SUBSET Address] : \* loose: the addresses
        o.kind # "rescan" => o.start = 0}

(* A wallet within the gap limit (BIP44) that has used the addresses as    *)
(* uses a next.                                                            *)
WithinGap(a, as) ==
    \/ IndexOf(a) < Gap[ChainOf(a)]
    \/ \E b \in as : /\ SchemeOf(b) = SchemeOf(a) /\ ChainOf(b) = ChainOf(a)
                     /\ IndexOf(a) \in IndexOf(b) + 1 .. IndexOf(b) + Gap[ChainOf(a)]

ASSUME ImportAssumption ==
    /\ Gap \in [Chains -> Nat \ {0}]
    /\ DefaultScheme \in Schemes
    /\ Orders \subseteq OrderType
    /\ FirstUsed \subseteq Address /\ IsFiniteSet(FirstUsed)
    /\ \A a \in FirstUsed : WithinGap(a, FirstUsed)
    /\ Tracker \notin Requests
    /\ Account \notin Address
    /\ NoRow \notin [scheme : Schemes, locked : BOOLEAN]
    /\ Payable \subseteq Address
    /\ MaxFailures \in Nat

VARIABLES
    hd,         \* the row of table hd: scheme and lock bit of its type
    addrs,      \* the addresses of table addresses
    rows,       \* those that table hd_addresses gives to the account
    outs,       \* addresses whose transactions are in tables outputs, inputs
    importing,  \* the keys of the map of imports: xpub and addresses
    req,        \* every request, and the task of the tracker
    accountId,  \* who holds the id of the row of the account
    addrIds,    \* the addresses of which each holds the id
    used,       \* addresses with transactions, as bitcoind and indexers know
    pending,    \* transactions the tracker was told of, by address paid
    failures,   \* number of failed calls so far
    clean,      \* history: requests whose import nothing has disturbed
    exposed     \* history: see Disturbs, LeavesHole, AddRows, StoredAsLoose

tables == <<hd, addrs, rows, outs>>
ids == <<accountId, addrIds>>
chain == <<used, pending>>
history == <<clean, exposed>>

vars == <<tables, importing, req, ids, chain, failures, history>>

Actors == Requests \cup {Tracker}

-----------------------------------------------------------------------------
(* Locals of a request. *)

NoOrder == [kind |-> "none", scheme |-> DefaultScheme, force |-> FALSE,
            lock |-> FALSE, start |-> 0, keys |-> {}]

Idle == [pc |-> "idle",
         order |-> NoOrder,
         scheme |-> DefaultScheme,  \* the scheme it derives with
         locked |-> FALSE,          \* lock bit of the type it was given or read
         relock |-> FALSE,          \* isLocked of restoreHdAccount
         chain |-> 0, d |-> -1, u |-> -1,  \* c, d, u of xpubScan
         found |-> {},              \* the addresses derived
         got |-> {},                \* those whose transactions were fetched
         claims |-> {},             \* keys it has put into importing
         base |-> {},               \* history: what its import has to find
         answer |-> "none"]

Running(r) == req[r].pc \notin {"idle", "done"}

At(r, pc) == req[r].pc = pc

Becomes(r, q) == req' = [req EXCEPT ![r] = q]

Goto(r, pc) == Becomes(r, [req[r] EXCEPT !.pc = pc])

(* The answer of a request. What it no longer needs is forgotten. *)
Answer(r, q, a) ==
    Becomes(r, IF r = Tracker THEN Idle
               ELSE [Idle EXCEPT !.pc = "done", !.answer = a,
                                 !.order = q.order, !.base = q.base])

(* Another request or the tracker is between two of its calls while r      *)
(* changes the row of the account: what the tables should then hold is not *)
(* settled by the code, which has no lock on the account. exposed records  *)
(* it, and the properties of the tables are stated for histories without.  *)
Disturbs(r) == \E other \in Actors \ {r} : Running(other)

(* deriveAddresses. *)
Derived(s, c, from, to) == {<<s, c, i>> : i \in (from .. to) \cap Nat}

FirstAddresses(s) == UNION {Derived(s, c, 0, Gap[c] - 1) : c \in Chains}

-----------------------------------------------------------------------------
(* The map of imports. *)

Release(q) == importing' = importing \ q.claims

(* Mutant: the claim is not tested. *)
ClaimTaken(r, q) ==
    /\ importing' = importing \cup {Account}
    /\ Becomes(r, [q EXCEPT !.pc = "scan", !.claims = {Account},
                            !.base = {a \in used : SchemeOf(a) = q.scheme},
                            !.found = {}, !.got = {},
                            !.chain = 0, !.d = q.order.start - 1,
                            !.u = q.order.start - 1])

(* importHDAccount, up to its first await: the claim, then chain 0. *)
Claim(r, q) ==
    IF Account \in importing
    THEN Answer(r, q, "overlap") /\ UNCHANGED importing
    ELSE /\ importing' = importing \cup {Account}
         /\ Becomes(r, [q EXCEPT !.pc = "scan", !.claims = {Account},
                                 !.base = {a \in used : SchemeOf(a) = q.scheme},
                                 !.found = {}, !.got = {},
                                 !.chain = 0, !.d = q.order.start - 1,
                                 !.u = q.order.start - 1])

(* The end of an import, the finally block included. A restored account    *)
(* that was locked is locked again.                                        *)
EndImport(r, q) ==
    /\ Release(q)
    /\ IF q.relock
       THEN Becomes(r, [q EXCEPT !.pc = "lockGet", !.claims = {}])
       ELSE Answer(r, q, "ok")

(* After the check of the derivation scheme: newHdAccount derives the first *)
(* addresses once the row is there; restoreHdAccount imports.              *)
Proceed(r, q) ==
    IF q.order.kind = "new"
    THEN /\ Becomes(r, [q EXCEPT !.pc = "ensure",
                                 !.found = FirstAddresses(q.scheme)])
         /\ UNCHANGED importing
    ELSE Claim(r, q)

-----------------------------------------------------------------------------
(* The arrival of a request, up to its first await. *)

FirstStep(o) ==
    CASE o.kind = "new" -> "check"
      [] o.kind = "restore" -> "wasLocked"
      [] o.kind = "ensure" -> "exists"
      [] o.kind = "rescan" -> "account"
      [] o.kind \in {"lock", "delete"} -> "signed"

Arrive(r) ==
    /\ At(r, "idle")
    /\ \E o \in Orders :
        LET q == [Idle EXCEPT !.order = o, !.scheme = o.scheme]
            claims == o.keys \ importing
        IN  IF o.kind # "loose"
            THEN Becomes(r, [q EXCEPT !.pc = FirstStep(o)]) /\ UNCHANGED importing
            ELSE IF claims = {}
            THEN Answer(r, q, "ok") /\ UNCHANGED importing
            ELSE /\ importing' = importing \cup claims
                 /\ Becomes(r, [q EXCEPT !.pc = "query", !.claims = claims,
                                             !.found = claims])
    /\ UNCHANGED <<tables, ids, chain, failures, history>>

-----------------------------------------------------------------------------
(* restoreHdAccount, derivationOverrideCheck, deleteHDAccount. *)

Exists(r) ==
    /\ At(r, "exists")
    /\ IF hd # NoRow THEN Answer(r, req[r], "ok") ELSE Goto(r, "wasLocked")
    /\ UNCHANGED <<tables, importing, ids, chain, failures, history>>

WasLocked(r) ==
    /\ At(r, "wasLocked")
    /\ Becomes(r, [req[r] EXCEPT !.pc = "check",
                                 !.relock = hd # NoRow /\ hd.locked])
    /\ UNCHANGED <<tables, importing, ids, chain, failures, history>>

(* Mutant: the account that is overridden is not deleted. *)
CheckKeeps(r) ==
    /\ At(r, "check")
    /\ IF hd # NoRow /\ hd.scheme # req[r].scheme /\ hd.locked
            /\ ~req[r].order.force
       THEN Answer(r, req[r], "locked") /\ UNCHANGED importing
       ELSE Proceed(r, req[r])
    /\ UNCHANGED <<tables, ids, chain, failures, history>>

Check(r) ==
    /\ At(r, "check")
    /\ LET q == req[r]
       IN  IF hd = NoRow \/ hd.scheme = q.scheme
           THEN Proceed(r, q)
           ELSE /\ IF hd.locked /\ ~q.order.force
                   THEN Answer(r, q, "locked")
                   ELSE Goto(r, "deleteId")
                /\ UNCHANGED importing
    /\ UNCHANGED <<tables, ids, chain, failures, history>>

(* After deleteHDAccount, which throws nothing. *)
Deleted(r) ==
    IF req[r].order.kind = "delete"
    THEN Answer(r, req[r], "ok") /\ UNCHANGED importing
    ELSE Proceed(r, req[r])

DeleteId(r) ==
    /\ At(r, "deleteId")
    /\ IF hd = NoRow
       THEN Deleted(r)
       ELSE Goto(r, "deleteAddrs") /\ UNCHANGED importing
    /\ UNCHANGED <<tables, ids, chain, failures, history>>

(* The addresses of the account go, and by the foreign keys what refers to *)
(* them: hd_addresses, outputs, inputs.                                    *)
DeleteAddrs(r) ==
    /\ At(r, "deleteAddrs")
    /\ addrs' = addrs \ rows
    /\ outs' = outs \ rows
    /\ rows' = {}
    /\ addrIds' = [x \in Actors |-> addrIds[x] \ rows]
    /\ Goto(r, "deleteRow")
    /\ clean' = clean \cap {r}
    /\ exposed' = (exposed \/ Disturbs(r))
    /\ UNCHANGED <<hd, importing, accountId, chain, failures>>

DeleteRow(r) ==
    /\ At(r, "deleteRow")
    /\ hd' = NoRow
    /\ rows' = {}
    /\ accountId' = {}
    /\ Deleted(r)
    /\ clean' = clean \cap {r}
    /\ exposed' = (exposed \/ Disturbs(r))
    /\ UNCHANGED <<addrs, outs, addrIds, chain, failures>>

-----------------------------------------------------------------------------
(* importHDAccount: xpubScan over chain 0, then chain 1. *)

(* A rescan from an index beyond the addresses derived leaves a hole among *)
(* them. The tracker looks for one only where a payment moves the next     *)
(* unused index (TrackerUnused, TrackerHoles): exposed records it.         *)
LeavesHole(s, start) ==
    \E c \in Chains : ~(Derived(s, c, 0, start - 1) \subseteq rows)

RescanAccount(r) ==
    /\ At(r, "account")
    /\ IF hd = NoRow
       THEN Answer(r, req[r], "unknown") /\ UNCHANGED <<importing, exposed>>
       ELSE /\ Claim(r, [req[r] EXCEPT !.scheme = hd.scheme, !.locked = hd.locked])
            /\ exposed' = (exposed \/ /\ Account \notin importing
                                      /\ LeavesHole(hd.scheme, req[r].order.start))
    /\ UNCHANGED <<tables, ids, chain, failures, clean>>

(* Mutant: the range of a level is one address short. *)
LevelShort(q) == Derived(q.scheme, q.chain, q.d + 1, q.u + Gap[q.chain] - 1)

(* The addresses of a level of xpubScan. *)
Level(q) == Derived(q.scheme, q.chain, q.d + 1, q.u + Gap[q.chain])

(* One level of xpubScan: addresses d + 1 .. u + G are derived and asked to *)
(* the source, then bitcoind gives the transactions. A source that fails   *)
(* is a source that knows nothing of them (Sources.getAddresses); without  *)
(* the transactions the scan goes on. The next level is awaited in the same *)
(* call: it starts from the index of the last address that has some.       *)
Scan(r, answered, fetched) ==
    /\ At(r, "scan")
    /\ LET q == req[r]
           G == Gap[q.chain]
           A == Level(q)
           hits == IF answered THEN A \cap used ELSE {}
           more == [q EXCEPT !.found = @ \cup A,
                             !.got = IF fetched THEN @ \cup hits ELSE @]
       IN  \/ \E last \in hits :
                /\ \A a \in hits : IndexOf(a) <= IndexOf(last)
                /\ Becomes(r, [more EXCEPT !.d = q.u + G, !.u = IndexOf(last)])
           \/ /\ hits = {} /\ q.chain = 0
              /\ Becomes(r, [more EXCEPT !.chain = 1, !.d = q.order.start - 1,
                                         !.u = q.order.start - 1])
           \/ /\ hits = {} /\ q.chain = 1
              /\ Becomes(r, [more EXCEPT !.pc = "ensure"])
    /\ IF answered /\ fetched
       THEN UNCHANGED <<failures, clean>>
       ELSE /\ failures < MaxFailures
            /\ failures' = failures + 1
            /\ clean' = clean \ {r}
    /\ UNCHANGED <<tables, importing, ids, chain, exposed>>

-----------------------------------------------------------------------------
(* ensureHDAccountId, addAddressesToHDAccount, _importTransactions. An      *)
(* error of an import is logged and goes no further; that of a creation,   *)
(* which holds no claim, is the answer.                                    *)

Throw(r, q) ==
    /\ CASE r = Tracker -> Answer(r, q, "none") /\ UNCHANGED importing
         [] r # Tracker /\ q.claims = {} -> Answer(r, q, "error") /\ UNCHANGED importing
         [] OTHER -> EndImport(r, q)
    /\ clean' = clean \ {r}
    /\ accountId' = accountId \ {r}
    /\ addrIds' = [addrIds EXCEPT ![r] = {}]

EnsureSelect(r) ==
    /\ At(r, "ensure")
    /\ Goto(r, IF hd = NoRow THEN "insert" ELSE "accountId")
    /\ UNCHANGED <<tables, importing, ids, chain, failures, history>>

EnsureInsert(r) ==
    /\ At(r, "insert")
    /\ IF hd = NoRow
       THEN /\ hd' = [scheme |-> req[r].scheme, locked |-> req[r].locked]
            /\ Goto(r, "accountId")
            /\ exposed' = (exposed \/ Disturbs(r))
            /\ UNCHANGED <<importing, ids, clean>>
       ELSE Throw(r, req[r]) /\ UNCHANGED <<hd, exposed>>
    /\ UNCHANGED <<addrs, rows, outs, chain, failures>>

AccountId(r) ==
    /\ At(r, "accountId")
    /\ IF hd = NoRow
       THEN Throw(r, req[r])
       ELSE /\ accountId' = accountId \cup {r}
            /\ Goto(r, "addAddrs")
            /\ UNCHANGED <<importing, addrIds, clean>>
    /\ UNCHANGED <<tables, chain, failures, exposed>>

AddAddresses(r) ==
    /\ At(r, "addAddrs")
    /\ addrs' = addrs \cup req[r].found
    /\ Goto(r, "addrIds")
    /\ UNCHANGED <<hd, rows, outs, importing, ids, chain, failures, history>>

AddressesIds(r) ==
    /\ At(r, "addrIds")
    /\ addrIds' = [addrIds EXCEPT ![r] = @ \cup (req[r].found \cap addrs)]
    /\ Goto(r, "addRows")
    /\ UNCHANGED <<tables, importing, accountId, chain, failures, history>>

(* Mutant: rows of an account that is gone are not left out. *)
AddRowsOfNone(r) ==
    /\ At(r, "addRows")
    /\ LET added == req[r].found \cap addrIds[r]
       IN  /\ rows' = rows \cup added
           /\ exposed' = (exposed \/ ~((added \ rows) \cap outs \subseteq req[r].got))
    /\ accountId' = accountId \ {r}
    /\ LET q == req[r]
       IN  IF r = Tracker
           THEN Goto(r, "outputs") /\ UNCHANGED addrIds
           ELSE /\ addrIds' = [addrIds EXCEPT ![r] = {}]
                /\ IF q.claims = {} THEN Answer(r, q, "ok")
                                   ELSE Goto(r, "txIds")
    /\ UNCHANGED <<hd, addrs, outs, importing, chain, failures, clean>>

(* INSERT IGNORE leaves out the rows whose account or address is gone. An  *)
(* address that joins the account with transactions the request did not    *)
(* find was a loose address when they were stored.                         *)
AddRows(r) ==
    /\ At(r, "addRows")
    /\ LET added == IF r \in accountId THEN req[r].found \cap addrIds[r] ELSE {}
       IN  /\ rows' = rows \cup added
           /\ exposed' = (exposed \/ ~((added \ rows) \cap outs \subseteq req[r].got))
    /\ accountId' = accountId \ {r}
    /\ LET q == req[r]
       IN  IF r = Tracker
           THEN Goto(r, "outputs") /\ UNCHANGED addrIds
           ELSE /\ addrIds' = [addrIds EXCEPT ![r] = {}]
                /\ IF q.claims = {} THEN Answer(r, q, "ok")
                                   ELSE Goto(r, "txIds")
    /\ UNCHANGED <<hd, addrs, outs, importing, chain, failures, clean>>

TransactionAddressesIds(r) ==
    /\ At(r, "txIds")
    /\ addrIds' = [addrIds EXCEPT ![r] = req[r].found \cap addrs]
    /\ Goto(r, "outputs")
    /\ UNCHANGED <<tables, importing, accountId, chain, failures, history>>

(* The transactions of an address of the account are stored as those of a  *)
(* loose address: no address is derived after it, then or later.           *)
StoredAsLoose(r, as) ==
    /\ as \cap rows # {}
    /\ \/ r = Tracker /\ req[r].u = -1
       \/ r # Tracker /\ req[r].order.kind = "loose"

(* The statements of _addTransactions, _addOutputs and _addInputs. *)
AddOutputs(r) ==
    /\ At(r, "outputs")
    /\ outs' = outs \cup (req[r].got \cap addrIds[r])
    /\ addrIds' = [addrIds EXCEPT ![r] = {}]
    /\ IF r = Tracker THEN Answer(r, req[r], "none") /\ UNCHANGED importing
                      ELSE EndImport(r, req[r])
    /\ exposed' = (exposed \/ StoredAsLoose(r, req[r].got \cap addrIds[r]))
    /\ UNCHANGED <<hd, addrs, rows, accountId, chain, failures, clean>>

-----------------------------------------------------------------------------
(* importAddresses. *)

Query(r, answered, fetched) ==
    /\ At(r, "query")
    /\ LET q == req[r]
       IN  IF ~answered
           THEN Goto(r, "txIds") /\ UNCHANGED importing
           ELSE IF ~fetched
           THEN EndImport(r, q)
           ELSE /\ Becomes(r, [q EXCEPT !.pc = "addLoose",
                                        !.got = q.found \cap used])
                /\ UNCHANGED importing
    /\ IF answered /\ fetched
       THEN UNCHANGED failures
       ELSE failures < MaxFailures /\ failures' = failures + 1
    /\ UNCHANGED <<tables, ids, chain, history>>

AddLoose(r) ==
    /\ At(r, "addLoose")
    /\ addrs' = addrs \cup req[r].found
    /\ Goto(r, "txIds")
    /\ UNCHANGED <<hd, rows, outs, importing, ids, chain, failures, history>>

-----------------------------------------------------------------------------
(* lockHdAccount, setLockHDAccountType, and the first step of the requests *)
(* that are signed (verifyXpubSignature).                                  *)

Signed(r) ==
    /\ At(r, "signed")
    /\ IF hd = NoRow
       THEN Answer(r, req[r], "unknown")
       ELSE Goto(r, IF req[r].order.kind = "lock" THEN "lockGet" ELSE "deleteId")
    /\ UNCHANGED <<tables, importing, ids, chain, failures, history>>

LockAsked(r) == req[r].relock \/ req[r].order.lock

LockGet(r, pc, next) ==
    /\ At(r, pc)
    /\ CASE hd = NoRow -> Answer(r, req[r], "unknown")
         [] hd # NoRow /\ hd.locked = LockAsked(r) -> Answer(r, req[r], "ok")
         [] OTHER -> Becomes(r, [req[r] EXCEPT !.pc = next, !.scheme = hd.scheme])
    /\ UNCHANGED <<tables, importing, ids, chain, failures, history>>

(* The type written is the one read before, with the other lock bit. *)
LockWrite(r) ==
    /\ At(r, "lockWrite")
    /\ IF hd = NoRow
       THEN UNCHANGED <<hd, exposed>>
       ELSE /\ hd' = [scheme |-> req[r].scheme, locked |-> LockAsked(r)]
            /\ exposed' = (exposed \/ hd.scheme # req[r].scheme)
    /\ Answer(r, req[r], "ok")
    /\ UNCHANGED <<addrs, rows, outs, importing, ids, chain, failures, clean>>

-----------------------------------------------------------------------------
(* A query that fails (after its retries). *)

Imports == {"ensure", "insert", "accountId", "addAddrs", "addrIds", "addRows",
            "txIds", "outputs", "addLoose", "derived", "unused", "holes"}

Locks == {"account", "signed", "lockGet", "lockRead", "lockWrite"}

StatementFails(r) == req[r].pc \in Imports /\ Throw(r, req[r]) /\ UNCHANGED exposed

Fail(r) ==
    /\ failures < MaxFailures
    /\ failures' = failures + 1
    /\ \/ StatementFails(r)
       \/ /\ At(r, "wasLocked")
          /\ Goto(r, "check")
          /\ UNCHANGED <<importing, ids, history>>
       \/ /\ At(r, "check")
          /\ Proceed(r, req[r])
          /\ exposed' = TRUE
          /\ UNCHANGED <<ids, clean>>
       \/ /\ req[r].pc \in {"deleteId", "deleteAddrs", "deleteRow"}
          /\ Deleted(r)
          /\ exposed' = TRUE
          /\ UNCHANGED <<ids, clean>>
       \/ /\ At(r, "exists")
          /\ Answer(r, req[r], "ok")
          /\ UNCHANGED <<importing, ids, history>>
       \/ /\ req[r].pc \in Locks
          /\ Answer(r, req[r], "error")
          /\ UNCHANGED <<importing, ids, history>>
    /\ UNCHANGED <<tables, chain>>

-----------------------------------------------------------------------------
(* bitcoind, the wallets, and the tracker. *)

(* A wallet pays an address. *)
Pay(a) ==
    /\ a \notin used
    /\ WithinGap(a, used)
    /\ used' = used \cup {a}
    /\ pending' = pending \cup {a}
    /\ UNCHANGED <<tables, importing, req, ids, failures, history>>

(* processOutputs: the addresses known, and their accounts. *)
TrackerFind(a) ==
    /\ At(Tracker, "idle")
    /\ a \in pending
    /\ pending' = pending \ {a}
    /\ IF a \notin addrs
       THEN UNCHANGED <<req, addrIds>>
       ELSE /\ addrIds' = [addrIds EXCEPT ![Tracker] = {a}]
            /\ Becomes(Tracker,
                 IF a \in rows
                 THEN [Idle EXCEPT !.pc = "derived", !.scheme = hd.scheme,
                                   !.chain = ChainOf(a), !.u = IndexOf(a),
                                   !.got = {a}]
                 ELSE [Idle EXCEPT !.pc = "outputs", !.got = {a}])
    /\ UNCHANGED <<tables, importing, accountId, used, failures, history>>

IndicesOn(c, as) == {IndexOf(a) : a \in {x \in as : ChainOf(x) = c}}

(* Mutant: one beyond it. *)
NextUnusedPlus(c) == Max(IndicesOn(c, rows \cap outs) \cup {-1}) + 2

(* getHDAccountNextUnusedIndices. *)
NextUnused(c) == Max(IndicesOn(c, rows \cap outs) \cup {-1}) + 1

(* getHDAccountNbDerivedIndices. *)
NbDerived(c, from, to) ==
    Cardinality({a \in rows : ChainOf(a) = c /\ IndexOf(a) \in from .. to})

(* _deriveNewAddresses, for the chain of the address paid, of index u: the *)
(* last index derived, then the next unused one, then, if nothing is       *)
(* missing at the end, the number of those derived after u.                *)
TrackerDerived ==
    /\ At(Tracker, "derived")
    /\ LET derived == IndicesOn(req[Tracker].chain, rows) \cup {-1}
       IN  \E last \in derived :
             /\ \A i \in derived : i <= last
             /\ Becomes(Tracker, [req[Tracker] EXCEPT !.pc = "unused", !.d = last])
    /\ UNCHANGED <<tables, importing, ids, chain, failures, history>>

LastNeeded(q) == q.u + Gap[q.chain]

Derive(q, from) ==
    Becomes(Tracker, [q EXCEPT !.pc = "accountId",
                               !.found = Derived(q.scheme, q.chain, from, LastNeeded(q))])

TrackerUnused ==
    /\ At(Tracker, "unused")
    /\ LET q == req[Tracker]
       IN  CASE q.u < NextUnused(q.chain) -> Goto(Tracker, "outputs")
             [] q.u >= NextUnused(q.chain) /\ q.d >= LastNeeded(q) ->
                  Goto(Tracker, "holes")
             [] OTHER -> Derive(q, q.d + 1)
    /\ UNCHANGED <<tables, importing, ids, chain, failures, history>>

TrackerHoles ==
    /\ At(Tracker, "holes")
    /\ LET q == req[Tracker]
       IN  IF NbDerived(q.chain, q.u, LastNeeded(q)) < Gap[q.chain] + 1
           THEN Derive(q, q.u + 1)
           ELSE Goto(Tracker, "outputs")
    /\ UNCHANGED <<tables, importing, ids, chain, failures, history>>

TrackerFails ==
    /\ failures < MaxFailures
    /\ failures' = failures + 1
    /\ StatementFails(Tracker)
    /\ UNCHANGED <<tables, chain>>

-----------------------------------------------------------------------------
FirstRow(locked) == [scheme |-> DefaultScheme, locked |-> locked]

(* The account is not known, or it was created and nothing has been paid to *)
(* it that the tables do not show.                                         *)
Init ==
    /\ hd \in {NoRow, FirstRow(FALSE), FirstRow(TRUE)}
    /\ rows = IF hd = NoRow THEN {}
              ELSE UNION {Derived(DefaultScheme, c, 0,
                     Max(IndicesOn(c, {a \in FirstUsed : SchemeOf(a) = DefaultScheme})
                         \cup {-1}) + Gap[c]) : c \in Chains}
    /\ addrs = rows
    /\ outs = rows \cap FirstUsed
    /\ importing = {}
    /\ req = [r \in Actors |-> Idle]
    /\ accountId = {} /\ addrIds = [r \in Actors |-> {}]
    /\ used = FirstUsed /\ pending = {}
    /\ failures = 0
    /\ clean = Requests /\ exposed = FALSE

(* The calls that requests and the tracker share. *)
Statement(r) ==
    \/ AccountId(r) \/ AddAddresses(r) \/ AddressesIds(r) \/ AddRows(r)
    \/ AddOutputs(r)

Step(r) ==
    \/ Exists(r) \/ WasLocked(r) \/ Check(r)
    \/ DeleteId(r) \/ DeleteAddrs(r) \/ DeleteRow(r)
    \/ RescanAccount(r)
    \/ \E answered, fetched \in BOOLEAN :
         Scan(r, answered, fetched) \/ Query(r, answered, fetched)
    \/ EnsureSelect(r) \/ EnsureInsert(r) \/ Statement(r)
    \/ TransactionAddressesIds(r) \/ AddLoose(r)
    \/ Signed(r) \/ LockWrite(r)
    \/ LockGet(r, "lockGet", "lockRead") \/ LockGet(r, "lockRead", "lockWrite")

Track ==
    \/ \E a \in pending : TrackerFind(a)
    \/ TrackerDerived \/ TrackerUnused \/ TrackerHoles
    \/ Statement(Tracker)

Next ==
    \/ \E r \in Requests : Arrive(r) \/ Step(r) \/ Fail(r)
    \/ Track \/ TrackerFails
    \/ \E a \in Payable : Pay(a)

Spec == Init /\ [][Next]_vars

-----------------------------------------------------------------------------
(* Properties. *)

Steps == {"idle", "exists", "wasLocked", "check", "deleteId", "deleteAddrs",
          "deleteRow", "account", "scan", "ensure", "insert", "accountId",
          "addAddrs", "addrIds", "addRows", "txIds", "outputs", "query",
          "addLoose", "signed", "lockGet", "lockRead", "lockWrite", "derived",
          "unused", "holes", "done"}

RequestType ==
    [pc : Steps, order : OrderType \cup {NoOrder}, scheme : Schemes,
     locked : BOOLEAN, relock : BOOLEAN, chain : Chains,
     d : Int, u : Int, found : SUBSET Address, got : SUBSET Address,
     claims : SUBSET (Address \cup {Account}), base : SUBSET Address,
     answer : {"none", "ok", "overlap", "locked", "unknown", "error"}]

(* The types, and the foreign keys of hd_addresses and of outputs: nothing *)
(* belongs to an account or to an address that is not there.               *)
TypeOK ==
    /\ hd \in [scheme : Schemes, locked : BOOLEAN] \cup {NoRow}
    /\ addrs \subseteq Address /\ rows \subseteq addrs /\ outs \subseteq addrs
    /\ hd = NoRow => rows = {} /\ accountId = {}
    /\ req \in [Actors -> RequestType]
    /\ accountId \subseteq Actors
    /\ addrIds \in [Actors -> SUBSET addrs]
    /\ used \subseteq Address /\ pending \subseteq used
    /\ clean \subseteq Requests /\ exposed \in BOOLEAN

(* The keys of the map of imports are those of the imports that run, each  *)
(* of exactly one; a request that was answered holds none, whatever failed *)
(* (claimImport and the finally blocks of importHDAccount and              *)
(* importAddresses).                                                       *)
ClaimsAreExclusive ==
    /\ importing = UNION {req[r].claims : r \in Actors}
    /\ \A r, x \in Actors : r # x => req[r].claims \cap req[x].claims = {}
    /\ \A r \in Actors : ~Running(r) => req[r].claims = {}

(* A restoration, or a rescan from index 0, that was answered without a    *)
(* failure has stored every transaction that the addresses of its scheme   *)
(* had when it started, whatever gaps a wallet within the gap limit has    *)
(* left, as long as the account is not deleted (xpubScan).                 *)
ImportIsComplete ==
    \A r \in clean :
        /\ At(r, "done") /\ req[r].answer = "ok"
        /\ req[r].order.kind \in {"restore", "ensure", "rescan"}
        /\ req[r].order.start = 0
        => req[r].base \subseteq outs

(* After an address that has transactions in the tables come as many       *)
(* addresses of the account as the gap limit says: the next payments of    *)
(* the wallet are seen (xpubScan, _deriveNewAddresses).                    *)
GapIsAhead ==
    ~exposed =>
        \A a \in rows \cap outs :
            Derived(SchemeOf(a), ChainOf(a), IndexOf(a),
                    IndexOf(a) + Gap[ChainOf(a)]) \subseteq rows

(* The addresses of an account are derived under its scheme: an override   *)
(* of the scheme leaves none of the old ones (derivationOverrideCheck).    *)
AddressesMatchScheme ==
    ~exposed => \A a \in rows : SchemeOf(a) = hd.scheme

(* A locked account is deleted, or gets another scheme, only by a request  *)
(* to delete it or to force the override (doc/POST_xpub_lock.md,           *)
(* doc/POST_xpub.md).                                                      *)
LockedSchemeIsKept ==
    [][hd # NoRow /\ hd.locked /\ (hd' = NoRow \/ hd'.scheme # hd.scheme)
         => \E r \in Requests : /\ req'[r] # req[r]
                               /\ \/ req[r].order.kind = "delete"
                                  \/ req[r].order.force]_vars
=============================================================================
