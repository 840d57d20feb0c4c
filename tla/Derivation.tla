------------------------------- MODULE Derivation -------------------------------
(***************************************************************************)
(* lib/bitcoin: the derivation of the addresses of HD accounts, in the     *)
(* process or in a pool of threads, from the types that the database keeps *)
(* (hd-accounts-helper.ts, parallel-address-derivation.ts), and what rests *)
(* on it: the reading of an xpub by the API (xpub-rest-api.ts), and the    *)
(* requests that the owner of an account signs (verifyXpubSignature). What *)
(* becomes of the addresses, statement by statement, is in module Import.  *)
(*                                                                         *)
(* An address is the tuple of the key, the chain, the index and the scheme *)
(* that it encodes; a text is a prefix and a key.                          *)
(***************************************************************************)
EXTENDS Integers, Sequences

CONSTANTS
    HdKeys,         \* extended public keys
    PostmixKeys,    \* those of Postmix accounts (account 2^31 - 2)
    BrokenKeys,     \* texts that no node is parsed from
    FirstTypes,     \* what table hd may be at first: a type or NoHdRow, by key
    Deriving,       \* calls that run at once
    IndexRanges,    \* ranges of indices that are asked for (sequences)
    ParallelThreshold,  \* thresholdParallelDerivation
    MaxPoolErrors   \* bound: derivations that fail in the pool

BIP44 == 0
BIP49 == 1
BIP84 == 2
LOCKED == 128
NoScheme == -1
NoHdRow == -2
Schemes == {BIP44, BIP49, BIP84}

HdTexts == [prefix : {"xpub", "ypub", "zpub", "other"}, key : HdKeys \cup BrokenKeys]

ASSUME DerivationAssumption ==
    /\ PostmixKeys \subseteq HdKeys /\ HdKeys \cap BrokenKeys = {}
    /\ FirstTypes \subseteq [HdKeys -> Schemes \cup {LOCKED + t : t \in Schemes} \cup {NoHdRow}]
    /\ IndexRanges \subseteq Seq(Nat) /\ <<0>> \in IndexRanges
    /\ ParallelThreshold \in Nat \ {0} /\ MaxPoolErrors \in Nat

VARIABLES
    external,       \* externalDerivationActivated
    nodes,          \* the cache of nodes, by text
    hdTypes,        \* table hd: the type of each account, or NoHdRow
    derivations,    \* the calls
    poolErrors      \* number of failures of the pool

derivationVars == <<external, nodes, hdTypes, derivations, poolErrors>>

-----------------------------------------------------------------------------
(* Types and texts *)

Classify(v) ==
    LET p == IF v >= LOCKED THEN v - LOCKED ELSE v
    IN  [type |-> IF p \in {BIP44, BIP49, BIP84} THEN p ELSE NoScheme, locked |-> v >= LOCKED]

MakeType(type, locked) ==
    (IF type >= LOCKED THEN type - LOCKED ELSE type) + (IF locked THEN LOCKED ELSE 0)

\* xlatXPUB
XlatXpub(text) == [text EXCEPT !.prefix = "xpub"]

\* isValid: a node that is cached was valid.
IsValid(text) ==
    text \in nodes \/ (text.prefix \in {"xpub", "ypub", "zpub"} /\ text.key \notin BrokenKeys)

\* The cache takes a node that is valid, and may drop the older ones.
Cache(text) == nodes' \in {nodes \cup {text}, {text}}

\* xlatHdAccount: the xpub, and the scheme that the prefix stands for
XlatHdAccount(text) ==
    [xpub |-> IF text.prefix \in {"ypub", "zpub"} THEN XlatXpub(text) ELSE text,
     scheme |-> CASE text.prefix = "ypub" -> BIP49
                  [] text.prefix = "zpub" -> BIP84
                  [] OTHER -> BIP44]

-----------------------------------------------------------------------------
(* Derivation *)

DeriveAddress(key, chain, index, type) ==
    [chain |-> chain, index |-> index, address |-> <<key, chain, index, type>>]

IsPostmixAcct(key) == key \in PostmixKeys

\* One address of each index under the scheme
OfScheme(key, chain, indices, type) ==
    [i \in DOMAIN indices |-> DeriveAddress(key, chain, indices[i], type)]

\* The change of a Postmix account has two other types, index by index.
LikeTypes(key, chain, indices) ==
    [i \in 1 .. 2 * Len(indices) |->
        DeriveAddress(key, chain, indices[(i + 1) \div 2], IF i % 2 = 1 THEN BIP44 ELSE BIP49)]

\* deriveAddresses in the process
InProcess(key, chain, indices, type) ==
    OfScheme(key, chain, indices, type)
    \o IF IsPostmixAcct(key) /\ chain = 1 THEN LikeTypes(key, chain, indices) ELSE <<>>

\* What is sent to the pool
Message(text, chain, indices, info) ==
    [xpub |-> XlatXpub(text), chain |-> chain, indices |-> indices, type |-> info.type,
     isPostmixChange |-> IsPostmixAcct(text.key) /\ chain = 1]

\* Fault: the pool does not know of Postmix.
InChild_SchemeOnly(msg) == OfScheme(msg.xpub.key, msg.chain, msg.indices, msg.type)

\* deriveAddresses in a thread of the pool
InChild(msg) ==
    OfScheme(msg.xpub.key, msg.chain, msg.indices, msg.type)
    \o IF msg.isPostmixChange THEN LikeTypes(msg.xpub.key, msg.chain, msg.indices) ELSE <<>>

-----------------------------------------------------------------------------
(* Calls *)

NoCall == [state |-> "idle"]

CallBecomes(c, call) == derivations' = [derivations EXCEPT ![c] = call]

DerivationCall(text, chain, indices, type, state, addresses) ==
    [state |-> state, text |-> text, chain |-> chain, indices |-> indices, type |-> type,
     addresses |-> addresses]

\* deriveAddresses, up to its first await: invalid text or type, the pool when there are
\* many indices, or here.
DeriveAddresses(c, text, chain, indices, type) ==
    LET info == Classify(type)
        Next(state, addresses) == CallBecomes(c, DerivationCall(text, chain, indices, type, state, addresses))
    IN  /\ derivations[c] = NoCall
        /\ IF IsValid(text) THEN Cache(text) ELSE UNCHANGED nodes
        /\ IF ~IsValid(text) \/ info.type = NoScheme
           THEN Next("threw", <<>>)
           ELSE IF external /\ Len(indices) > ParallelThreshold
           THEN Next("inPool", <<>>)
           ELSE Next("derived", InProcess(text.key, chain, indices, info.type))
        /\ UNCHANGED <<external, poolErrors>>

\* An answer of the pool: the addresses, an error (an empty list), or a thread that died
PoolAnswers(c) ==
    /\ derivations[c].state = "inPool"
    /\ LET call == derivations[c]
           msg == Message(call.text, call.chain, call.indices, Classify(call.type))
       IN  CallBecomes(c, [call EXCEPT !.state = "derived", !.addresses = InChild(msg)])
    /\ UNCHANGED <<external, nodes, hdTypes, poolErrors>>

PoolFails(c) ==
    /\ derivations[c].state = "inPool" /\ poolErrors < MaxPoolErrors
    /\ poolErrors' = poolErrors + 1
    /\ \E state \in {"empty", "threw"} : CallBecomes(c, [derivations[c] EXCEPT !.state = state])
    /\ UNCHANGED <<external, nodes, hdTypes>>

\* derivationOverrideCheck and ensureHDAccountId: the row of an account that is created
\* under a scheme
LockedOut(key, scheme) == LET info == Classify(hdTypes[key]) IN info.locked /\ info.type # scheme

EnsuredRow(key, scheme) ==
    IF hdTypes[key] # NoHdRow /\ Classify(hdTypes[key]).type = scheme THEN hdTypes[key] ELSE scheme

\* newHdAccount derives under the scheme asked for: the addresses of one of the two chains
Create(c) ==
    \E text \in HdTexts, chain \in {0, 1}, indices \in IndexRanges, scheme \in Schemes :
        LET xpub == XlatHdAccount(text).xpub
        IN  IF IsValid(xpub) /\ LockedOut(xpub.key, scheme)
            THEN /\ derivations[c] = NoCall
                 /\ Cache(xpub)
                 /\ CallBecomes(c, DerivationCall(xpub, chain, indices, scheme, "lockedOut", <<>>))
                 /\ UNCHANGED <<external, hdTypes, poolErrors>>
            ELSE /\ DeriveAddresses(c, xpub, chain, indices, scheme)
                 /\ hdTypes' = IF IsValid(xpub)
                               THEN [hdTypes EXCEPT ![xpub.key] = EnsuredRow(xpub.key, scheme)]
                               ELSE hdTypes

\* A rescan, and the tracker, derive under the type in the database.
Rescan(c) ==
    \E key \in HdKeys, chain \in {0, 1}, indices \in IndexRanges :
        /\ hdTypes[key] # NoHdRow
        /\ DeriveAddresses(c, [prefix |-> "xpub", key |-> key], chain, indices, hdTypes[key])
        /\ UNCHANGED hdTypes

-----------------------------------------------------------------------------
(* Requests that are signed: POST /xpub/:xpub/lock and DELETE /xpub/:xpub *)

\* What is signed: a word, or the text that the request names the account by
NoText == [prefix |-> "none", key |-> "none"]
Signable(text) ==
    {[word |-> "lock", text |-> NoText], [word |-> "unlock", text |-> NoText],
     [word |-> "delete", text |-> text]}

\* verifyXpubSignature: the account is known, the signature is that of the first change
\* address under BIP44, and the address given is the same under the scheme of the text.
VerifyXpubSignature(c, text, message, sig, address) ==
    LET hd == XlatHdAccount(text)
        First(type) == InProcess(hd.xpub.key, 1, <<0>>, type)[1].address
        known == hdTypes[hd.xpub.key] # NoHdRow
        valid == /\ known
                 /\ sig = [by |-> First(BIP44), of |-> message]
                 /\ address = First(hd.scheme)
    IN  /\ derivations[c] = NoCall
        /\ IsValid(hd.xpub) /\ Cache(hd.xpub)
        /\ CallBecomes(c, [state |-> IF valid THEN "verified" ELSE "refused", text |-> text,
                           known |-> known, message |-> message, sig |-> sig,
                           address |-> address])
        /\ UNCHANGED <<external, hdTypes, poolErrors>>

SignedRequest(c) ==
    \E text \in HdTexts, signer \in HdKeys, scheme \in Schemes :
        \E message, signed \in Signable(text) :
            VerifyXpubSignature(c, text, message, [by |-> <<signer, 1, 0, BIP44>>, of |-> signed],
                                <<signer, 1, 0, scheme>>)

\* lockHdAccount: the type that is read is written with the lock asked for.
LockHdAccount(key, lock) ==
    IF Classify(hdTypes[key]).locked = lock THEN UNCHANGED hdTypes
    ELSE hdTypes' = [hdTypes EXCEPT ![key] = MakeType(@, lock)]

PostLockXpub(c) ==
    /\ derivations[c].state = "verified" /\ derivations[c].message.word # "delete"
    /\ LET key == derivations[c].text.key
       IN  IF hdTypes[key] = NoHdRow
           THEN /\ CallBecomes(c, [derivations[c] EXCEPT !.state = "unknown"])
                /\ UNCHANGED hdTypes
           ELSE /\ LockHdAccount(key, derivations[c].message.word # "unlock")
                /\ CallBecomes(c, [derivations[c] EXCEPT !.state = "locked"])
    /\ UNCHANGED <<external, nodes, poolErrors>>

DeleteXpub(c) ==
    /\ derivations[c].state = "verified" /\ derivations[c].message.word = "delete"
    /\ hdTypes' = [hdTypes EXCEPT ![derivations[c].text.key] = NoHdRow]
    /\ CallBecomes(c, [derivations[c] EXCEPT !.state = "deleted"])
    /\ UNCHANGED <<external, nodes, poolErrors>>

DerivationInit ==
    /\ external \in BOOLEAN
    /\ nodes = {}
    /\ hdTypes \in FirstTypes
    /\ derivations = [c \in Deriving |-> NoCall]
    /\ poolErrors = 0

DerivationNext ==
    \E c \in Deriving : \/ Create(c) \/ Rescan(c) \/ PoolAnswers(c) \/ PoolFails(c)
                        \/ SignedRequest(c) \/ PostLockXpub(c) \/ DeleteXpub(c)

DerivationSpec == DerivationInit /\ [][DerivationNext]_derivationVars

-----------------------------------------------------------------------------
(* Properties *)

DerivationTypeOK ==
    /\ external \in BOOLEAN
    /\ nodes \subseteq HdTexts
    /\ hdTypes \in [HdKeys -> Schemes \cup {LOCKED + t : t \in Schemes} \cup {NoHdRow}]
    /\ \A c \in Deriving : derivations[c].state \in
         {"idle", "inPool", "derived", "empty", "threw", "lockedOut", "verified", "refused",
          "locked", "unknown", "deleted"}

\* What an account's addresses are: those of its scheme, and for the change of a Postmix
\* account, those of the two other types a counterparty may have used
TrueAddresses(call) ==
    {<<call.text.key, call.chain, call.indices[i], type>> :
        i \in DOMAIN call.indices,
        type \in {call.type % LOCKED}
             \cup IF call.text.key \in PostmixKeys /\ call.chain = 1 THEN {BIP44, BIP49} ELSE {}}

\* Locked or not, in the process or in the pool, whatever was cached: an account has the
\* same addresses, the ones of its scheme first, and a call that cannot give them all gives
\* none.
DerivedRight(call) ==
    /\ call.state = "derived" =>
        /\ {call.addresses[i].address : i \in DOMAIN call.addresses} = TrueAddresses(call)
        /\ \A i \in DOMAIN call.indices : call.addresses[i].address =
             <<call.text.key, call.chain, call.indices[i], call.type % LOCKED>>
    /\ call.state \in {"inPool", "empty", "threw", "lockedOut"} => call.addresses = <<>>
    /\ call.state = "threw" => call.text.key \in BrokenKeys \/ call.text.prefix = "other"
                                \/ poolErrors > 0

\* A signed request for a known account is accepted exactly if its owner signed that very
\* request, whatever text names the account and whatever its scheme, Postmix included, and the
\* address is the one of the scheme of that text; and only the owner's requests lock, unlock
\* or delete.
SignedByOwner(call) ==
    call.state \in {"verified", "refused", "locked", "unknown", "deleted"} =>
        LET owner == /\ call.sig = [by |-> <<call.text.key, 1, 0, BIP44>>, of |-> call.message]
                     /\ call.address = <<call.text.key, 1, 0, XlatHdAccount(call.text).scheme>>
        IN  call.state # "refused" <=> owner /\ call.known

\* What the other modules take for granted of an account: its addresses, and its owner
SameAddresses ==
    \A c \in Deriving :
        LET call == derivations[c]
        IN  DerivedRight(call) /\ SignedByOwner(call)
=============================================================================
