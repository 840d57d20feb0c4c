---------------------------- MODULE ImportProofs ----------------------------
(***************************************************************************)
(* What is proved of Import for any requests, schemes and gap limits, and  *)
(* any number of failed calls: the types with the foreign keys, the        *)
(* exclusion of the imports, the scheme of the addresses, the gap ahead of *)
(* them, and that imports are complete.                                    *)
(***************************************************************************)
EXTENDS Import, FiniteSetTheorems, WellFoundedInduction, TLAPS

(* The steps between a claim and its release. *)
ImportSteps == {"scan", "query", "addLoose", "ensure", "insert", "accountId",
                "addAddrs", "addrIds", "addRows", "txIds", "outputs"}

HoldsClaims(r, q) ==
    q.claims # {} => r # Tracker /\ q.pc \in ImportSteps

(* Who holds a claim is in the course of an import. *)
ClaimsInImports == \A r \in Actors : HoldsClaims(r, req[r])

ReqTyped == req \in [Actors -> RequestType]

IInv == TypeOK /\ ClaimsAreExclusive /\ ClaimsInImports

-----------------------------------------------------------------------------
(* A step of the code does one of three things to the claims. *)

Keeps(r) == \E q \in RequestType :
    /\ Becomes(r, q) /\ UNCHANGED importing
    /\ q.claims = req[r].claims
    /\ HoldsClaims(r, q)

Drops(r) == \E q \in RequestType :
    /\ Becomes(r, q) /\ importing' = importing \ req[r].claims
    /\ q.claims = {}

Takes(r) == \E q \in RequestType :
    /\ Becomes(r, q) /\ req[r].claims = {}
    /\ q.claims \cap importing = {} /\ importing' = importing \cup q.claims
    /\ HoldsClaims(r, q)

(* The map of imports and the requests stay in step. *)
LEMMA ClaimEffect ==
    ASSUME IInv, NEW r \in Actors, Keeps(r) \/ Drops(r) \/ Takes(r)
    PROVE  ReqTyped' /\ ClaimsAreExclusive' /\ ClaimsInImports'
<1> USE DEF Becomes
<1>1. ReqTyped /\ ClaimsAreExclusive /\ ClaimsInImports
  BY DEF IInv, TypeOK, ReqTyped
<1>2. PICK q \in RequestType : Becomes(r, q) /\
         \/ UNCHANGED importing /\ q.claims = req[r].claims /\ HoldsClaims(r, q)
         \/ importing' = importing \ req[r].claims /\ q.claims = {}
         \/ /\ req[r].claims = {} /\ q.claims \cap importing = {}
            /\ importing' = importing \cup q.claims /\ HoldsClaims(r, q)
  BY DEF Keeps, Drops, Takes
<1>3. ReqTyped'
  BY <1>1, <1>2 DEF ReqTyped
<1>4. req'[r] = q /\ \A x \in Actors \ {r} : req'[x] = req[x]
  BY <1>1, <1>2 DEF ReqTyped
<1>5. HoldsClaims(r, q)
  BY <1>2 DEF HoldsClaims
<1>6. ClaimsInImports'
  BY <1>1, <1>4, <1>5 DEF ClaimsInImports, HoldsClaims
<1>7. ~Running(r)' => req'[r].claims = {}
  BY <1>4, <1>5 DEF HoldsClaims, ImportSteps, Running
<1>8. \A x \in Actors : ~Running(x)' => req'[x].claims = {}
  BY <1>1, <1>4, <1>7 DEF ClaimsAreExclusive, Running
<1>9. \A x, y \in Actors : x # y => req'[x].claims \cap req'[y].claims = {}
  <2>1. \A x \in Actors \ {r} : q.claims \cap req[x].claims = {}
    BY <1>1, <1>2 DEF ClaimsAreExclusive
  <2> QED BY <1>1, <1>4, <2>1 DEF ClaimsAreExclusive
<1>10. importing' = UNION {req'[x].claims : x \in Actors}
  <2>1. importing = UNION {req[x].claims : x \in Actors}
    BY <1>1 DEF ClaimsAreExclusive
  <2>2. \A k : k \in importing' <=>
           k \in q.claims \/ \E x \in Actors \ {r} : k \in req[x].claims
    <3>1. \A k : k \in importing <=> \E x \in Actors : k \in req[x].claims
      BY <2>1
    <3>2. \A x \in Actors \ {r} : req[r].claims \cap req[x].claims = {}
      BY <1>1 DEF ClaimsAreExclusive
    <3> QED BY <1>2, <3>1, <3>2
  <2>3. \A k : k \in importing' <=> \E x \in Actors : k \in req'[x].claims
    BY <2>2, <1>4
  <2> QED BY <2>3
<1> QED BY <1>3, <1>6, <1>8, <1>9, <1>10 DEF ClaimsAreExclusive

Effect(r) == Keeps(r) \/ Drops(r) \/ Takes(r)

Answers == {"none", "ok", "overlap", "locked", "unknown", "error"}

(* The tables, the ids and the chain. *)
TablesOK ==
    /\ hd \in [scheme : Schemes, locked : BOOLEAN] \cup {NoRow}
    /\ addrs \subseteq Address /\ rows \subseteq addrs /\ outs \subseteq addrs
    /\ hd = NoRow => rows = {} /\ accountId = {}
    /\ accountId \subseteq Actors
    /\ addrIds \in [Actors -> SUBSET addrs]
    /\ used \subseteq Address /\ pending \subseteq used
    /\ clean \subseteq Requests /\ exposed \in BOOLEAN

LEMMA Split == TypeOK <=> TablesOK /\ ReqTyped
BY DEF TypeOK, TablesOK, ReqTyped

LEMMA IdleTyped == Idle \in RequestType
<1>1. DefaultScheme \in Schemes
  BY ImportAssumption
<1> QED BY <1>1 DEF Idle, RequestType, Chains, Steps

(* An answer is the end of a request without claims, or of an import. *)
LEMMA AnswerEffect ==
    ASSUME IInv, NEW r \in Actors, NEW q \in RequestType, NEW a \in Answers,
           Answer(r, q, a),
           \/ importing' = importing \ req[r].claims
           \/ UNCHANGED importing /\ req[r].claims = {}
    PROVE  Effect(r)
<1> DEFINE answer == IF r = Tracker THEN Idle
               ELSE [Idle EXCEPT !.pc = "done", !.answer = a,
                                 !.order = q.order, !.base = q.base]
<1>1. answer \in RequestType /\ answer.claims = {}
  <2>1. Idle \in RequestType /\ Idle.claims = {}
    BY IdleTyped DEF Idle
  <2>2. q.order \in OrderType \cup {NoOrder} /\ q.base \in SUBSET Address
    BY DEF RequestType
  <2>3. ASSUME NEW i \in RequestType, i.claims = {}
        PROVE  LET p == [i EXCEPT !.pc = "done", !.answer = a,
                                  !.order = q.order, !.base = q.base]
               IN  p \in RequestType /\ p.claims = {}
    BY <2>2, <2>3 DEF RequestType, Answers, Steps
  <2> QED BY <2>1, <2>3
<1>2. Becomes(r, answer)
  BY DEF Answer
<1> HIDE DEF answer
<1>3. HoldsClaims(r, answer)
  BY <1>1 DEF HoldsClaims
<1> QED BY <1>1, <1>2, <1>3 DEF Effect, Keeps, Drops

(* The next step of a request: without claims, or still in its import. *)
LEMMA GotoEffect ==
    ASSUME IInv, NEW r \in Actors, NEW pc \in Steps, Goto(r, pc),
           UNCHANGED importing,
           req[r].claims # {} => pc \in ImportSteps
    PROVE  Effect(r)
<1> DEFINE q == [req[r] EXCEPT !.pc = pc]
<1>1. req[r] \in RequestType
  BY DEF IInv, TypeOK
<1>2. q \in RequestType /\ q.claims = req[r].claims /\ q.pc = pc
         /\ q.order = req[r].order
  BY <1>1 DEF RequestType
<1>3. HoldsClaims(r, req[r])
  BY DEF IInv, ClaimsInImports
<1>4. Becomes(r, q)
  BY DEF Goto
<1> HIDE DEF q
<1>5. HoldsClaims(r, q)
  BY <1>2, <1>3 DEF HoldsClaims
<1> QED BY <1>2, <1>4, <1>5 DEF Effect, Keeps

(* A step out of the imports finds a request without claims. *)
LEMMA NoClaims ==
    ASSUME IInv, NEW r \in Actors,
           r = Tracker \/ req[r].pc \notin ImportSteps
    PROVE  req[r].claims = {}
BY DEF IInv, ClaimsInImports, HoldsClaims

LEMMA ClaimTakes ==
    ASSUME IInv, NEW r \in Requests, NEW q \in RequestType,
           req[r].claims = {}, Claim(r, q)
    PROVE  Effect(r)
<1>1. r \in Actors /\ r # Tracker
  BY ImportAssumption DEF Actors
<1>2. CASE Account \in importing
  BY <1>1, <1>2, AnswerEffect DEF Claim, Answers
<1>3. CASE Account \notin importing
  <2> DEFINE base == {a \in used : SchemeOf(a) = q.scheme}
             first == q.order.start - 1
             p == [q EXCEPT !.pc = "scan", !.claims = {Account}, !.base = base,
                            !.found = {}, !.got = {},
                            !.chain = 0, !.d = first, !.u = first]
  <2>1. Becomes(r, p) /\ importing' = importing \cup {Account}
    BY <1>3 DEF Claim
  <2>2. first \in Int
    <3>1. q.order \in OrderType \cup {NoOrder}
      BY DEF RequestType
    <3> QED BY <3>1 DEF OrderType, NoOrder
  <2>3. base \in SUBSET Address
    BY DEF IInv, TypeOK
  <2> HIDE DEF base, first
  <2>4. p \in RequestType /\ p.claims = {Account} /\ p.pc = "scan" /\ p.order = q.order
    BY <2>2, <2>3 DEF RequestType, Chains, Steps
  <2> HIDE DEF p
  <2>5. HoldsClaims(r, p)
    BY <1>1, <2>4 DEF HoldsClaims, ImportSteps
  <2> QED BY <1>3, <2>1, <2>4, <2>5 DEF Effect, Takes
<1> QED BY <1>2, <1>3

LEMMA DerivedTyped ==
    ASSUME NEW s \in Schemes, NEW c \in Chains, NEW from, NEW to
    PROVE  Derived(s, c, from, to) \subseteq Address
BY DEF Derived, Address

LEMMA FirstAddressesTyped ==
    ASSUME NEW s \in Schemes
    PROVE  FirstAddresses(s) \subseteq Address
BY DerivedTyped DEF FirstAddresses

(* The request of an actor, with the facts most steps need. *)
LEMMA Request ==
    ASSUME IInv, NEW r \in Actors
    PROVE  /\ req[r] \in RequestType
           /\ HoldsClaims(r, req[r])
           /\ req[r].order \in OrderType \cup {NoOrder}
           /\ req[r].scheme \in Schemes
           /\ req[r].found \subseteq Address
           /\ req[r].claims \subseteq Address \cup {Account}
           /\ used \subseteq Address /\ addrs \subseteq Address
BY DEF IInv, TypeOK, ClaimsInImports, RequestType

LEMMA EndImportEffect ==
    ASSUME IInv, NEW r \in Actors, NEW q \in RequestType,
           q.claims = req[r].claims, EndImport(r, q)
    PROVE  Effect(r)
<1>1. importing' = importing \ req[r].claims
  BY DEF EndImport, Release
<1>2. CASE q.relock
  <2> DEFINE p == [q EXCEPT !.pc = "lockGet", !.claims = {}]
  <2>1. p \in RequestType /\ p.claims = {}
    BY DEF RequestType, Steps
  <2>2. Becomes(r, p)
    BY <1>2 DEF EndImport
  <2> HIDE DEF p
  <2> QED BY <1>1, <2>1, <2>2 DEF Effect, Drops
<1>3. CASE ~q.relock
  BY <1>1, <1>3, AnswerEffect DEF EndImport, Answers
<1> QED BY <1>2, <1>3

LEMMA ProceedEffect ==
    ASSUME IInv, NEW r \in Requests, NEW q \in RequestType,
           req[r].claims = {}, q.claims = {}, Proceed(r, q)
    PROVE  Effect(r)
<1>1. CASE q.order.kind = "new"
  <2> DEFINE first == FirstAddresses(q.scheme)
             p == [q EXCEPT !.pc = "ensure", !.found = first]
  <2>1. q.scheme \in Schemes
    BY DEF RequestType
  <2>2. first \in SUBSET Address
    BY <2>1, FirstAddressesTyped
  <2>3. Becomes(r, p) /\ UNCHANGED importing
    BY <1>1 DEF Proceed
  <2> HIDE DEF first
  <2>4. p \in RequestType /\ p.claims = {}
    BY <2>2 DEF RequestType, Steps
  <2> HIDE DEF p
  <2> QED BY <2>3, <2>4 DEF Effect, Keeps, HoldsClaims
<1>2. CASE q.order.kind # "new"
  BY <1>2, ClaimTakes DEF Proceed
<1> QED BY <1>1, <1>2

LEMMA DeletedEffect ==
    ASSUME IInv, NEW r \in Requests, req[r].claims = {}, Deleted(r)
    PROVE  Effect(r)
<1>1. r \in Actors /\ req[r] \in RequestType
  BY Request DEF Actors
<1>2. CASE req[r].order.kind = "delete"
  BY <1>1, <1>2, AnswerEffect DEF Deleted, Answers
<1>3. CASE req[r].order.kind # "delete"
  BY <1>1, <1>3, ProceedEffect DEF Deleted
<1> QED BY <1>2, <1>3

LEMMA ThrowEffect ==
    ASSUME IInv, NEW r \in Actors, Throw(r, req[r])
    PROVE  Effect(r)
<1>1. req[r] \in RequestType
  BY Request
<1>2. CASE r = Tracker
  BY <1>1, <1>2, NoClaims, AnswerEffect DEF Throw, Answers
<1>3. CASE r # Tracker /\ req[r].claims = {}
  <2>1. Answer(r, req[r], "error") /\ UNCHANGED importing
    BY <1>3 DEF Throw
  <2> QED BY <1>1, <1>3, <2>1, AnswerEffect DEF Answers
<1>4. CASE r # Tracker /\ req[r].claims # {}
  <2>1. EndImport(r, req[r])
    BY <1>4 DEF Throw
  <2> QED BY <1>1, <2>1, EndImportEffect
<1> QED BY <1>2, <1>3, <1>4

LEMMA ArriveEffect ==
    ASSUME IInv, NEW r \in Requests, Arrive(r)
    PROVE  Effect(r)
<1>1. r \in Actors /\ r # Tracker
  BY ImportAssumption DEF Actors
<1>2. PICK o \in Orders :
        LET q == [Idle EXCEPT !.order = o, !.scheme = o.scheme]
            claims == o.keys \ importing
        IN  IF o.kind # "loose"
            THEN Becomes(r, [q EXCEPT !.pc = FirstStep(o)]) /\ UNCHANGED importing
            ELSE IF claims = {}
            THEN Answer(r, q, "ok") /\ UNCHANGED importing
            ELSE /\ importing' = importing \cup claims
                 /\ Becomes(r, [q EXCEPT !.pc = "query", !.claims = claims,
                                             !.found = claims])
  BY DEF Arrive
<1> DEFINE q == [Idle EXCEPT !.order = o, !.scheme = o.scheme]
           claims == o.keys \ importing
<1>3. o \in OrderType /\ o.scheme \in Schemes /\ o.kind \in Kinds
        /\ o.keys \in SUBSET Address
  BY ImportAssumption DEF OrderType
<1>4. Idle \in RequestType /\ Idle.claims = {}
  BY IdleTyped DEF Idle
<1>5. q \in RequestType /\ q.claims = {} /\ q.order = o
  BY <1>3, <1>4 DEF RequestType
<1>6. req[r].claims = {}
  BY <1>1, NoClaims DEF Arrive, At, ImportSteps
<1>7. CASE o.kind # "loose"
  <2> DEFINE p == [q EXCEPT !.pc = FirstStep(o)]
  <2>1. FirstStep(o) \in Steps
    BY <1>3, <1>7 DEF FirstStep, Kinds, Steps
  <2>2. Becomes(r, p) /\ UNCHANGED importing
    BY <1>2, <1>7
  <2> HIDE DEF q
  <2>3. p \in RequestType /\ p.claims = {}
    BY <1>5, <2>1 DEF RequestType
  <2> HIDE DEF p
  <2> QED BY <1>1, <1>6, <2>2, <2>3 DEF Effect, Keeps, HoldsClaims
<1>8. CASE o.kind = "loose" /\ claims = {}
  <2>1. Answer(r, q, "ok") /\ UNCHANGED importing
    BY <1>2, <1>8
  <2> HIDE DEF q
  <2> QED BY <1>1, <1>5, <1>6, <2>1, AnswerEffect DEF Answers
<1>9. CASE o.kind = "loose" /\ claims # {}
  <2> DEFINE p == [q EXCEPT !.pc = "query", !.claims = claims, !.found = claims]
  <2>1. importing' = importing \cup claims /\ Becomes(r, p)
    BY <1>2, <1>9
  <2>2. claims \in SUBSET Address /\ claims \cap importing = {}
    BY <1>3
  <2> HIDE DEF q, claims
  <2>3. p \in RequestType /\ p.claims = claims /\ p.pc = "query" /\ p.order = o
    BY <1>5, <2>2 DEF RequestType, Steps
  <2> HIDE DEF p
  <2>4. HoldsClaims(r, p)
    BY <1>1, <1>9, <2>3 DEF HoldsClaims, ImportSteps
  <2> QED BY <1>6, <2>1, <2>2, <2>3, <2>4 DEF Effect, Takes
<1> QED BY <1>7, <1>8, <1>9

(* The steps before the import, and those of lock and delete, where no     *)
(* claim is held.                                                          *)
LEMMA OverrideEffect ==
    ASSUME IInv, NEW r \in Requests,
           \/ Exists(r) \/ WasLocked(r) \/ Check(r)
           \/ DeleteId(r) \/ DeleteAddrs(r) \/ DeleteRow(r) \/ RescanAccount(r)
    PROVE  Effect(r)
<1>1. r \in Actors /\ req[r] \in RequestType
  BY Request DEF Actors
<1>2. req[r].claims = {}
  BY <1>1, NoClaims DEF Exists, WasLocked, Check, DeleteId, DeleteAddrs,
     DeleteRow, RescanAccount, At, ImportSteps
<1>3. CASE Exists(r)
  <2>1. CASE hd # NoRow
    BY <1>1, <1>2, <1>3, <2>1, AnswerEffect DEF Exists, Answers
  <2>2. CASE hd = NoRow
    <3>1. Goto(r, "wasLocked") /\ UNCHANGED importing
      BY <1>3, <2>2 DEF Exists
    <3> QED BY <1>1, <1>2, <3>1, GotoEffect DEF Steps
  <2> QED BY <2>1, <2>2
<1>4. CASE WasLocked(r)
  <2> DEFINE relock == hd # NoRow /\ hd.locked
             p == [req[r] EXCEPT !.pc = "check", !.relock = relock]
  <2>1. relock \in BOOLEAN
    BY DEF IInv, TypeOK
  <2>2. Becomes(r, p) /\ UNCHANGED importing
    BY <1>4 DEF WasLocked
  <2> HIDE DEF relock
  <2>3. p \in RequestType /\ p.claims = {}
    BY <1>1, <1>2, <2>1 DEF RequestType, Steps
  <2> HIDE DEF p
  <2> QED BY <1>2, <2>2, <2>3 DEF Effect, Keeps, HoldsClaims
<1>5. CASE Check(r)
  <2>1. CASE hd = NoRow \/ hd.scheme = req[r].scheme
    BY <1>1, <1>2, <1>5, <2>1, ProceedEffect DEF Check
  <2>2. CASE hd # NoRow /\ hd.scheme # req[r].scheme
    <3>1. UNCHANGED importing /\ (Answer(r, req[r], "locked") \/ Goto(r, "deleteId"))
      BY <1>5, <2>2 DEF Check
    <3> QED BY <1>1, <1>2, <3>1, AnswerEffect, GotoEffect DEF Answers, Steps
  <2> QED BY <2>1, <2>2
<1>6. CASE DeleteId(r)
  <2>1. Deleted(r) \/ (Goto(r, "deleteAddrs") /\ UNCHANGED importing)
    BY <1>6 DEF DeleteId
  <2> QED BY <1>1, <1>2, <2>1, DeletedEffect, GotoEffect DEF Steps
<1>7. CASE DeleteAddrs(r)
  <2>1. Goto(r, "deleteRow") /\ UNCHANGED importing
    BY <1>7 DEF DeleteAddrs
  <2> QED BY <1>1, <1>2, <2>1, GotoEffect DEF Steps
<1>8. CASE DeleteRow(r)
  BY <1>2, <1>8, DeletedEffect DEF DeleteRow
<1>9. CASE RescanAccount(r)
  <2>1. CASE hd = NoRow
    BY <1>1, <1>2, <1>9, <2>1, AnswerEffect DEF RescanAccount, Answers
  <2>2. CASE hd # NoRow
    <3> DEFINE q == [req[r] EXCEPT !.scheme = hd.scheme, !.locked = hd.locked]
    <3>1. hd.scheme \in Schemes /\ hd.locked \in BOOLEAN
      BY <2>2 DEF IInv, TypeOK
    <3>2. Claim(r, q)
      BY <1>9, <2>2 DEF RescanAccount
    <3>3. q \in RequestType /\ q.order = req[r].order
      BY <1>1, <3>1 DEF RequestType
    <3> HIDE DEF q
    <3> QED BY <1>2, <3>2, <3>3, ClaimTakes
  <2> QED BY <2>1, <2>2
<1> QED BY <1>3, <1>4, <1>5, <1>6, <1>7, <1>8, <1>9

LEMMA LockEffect ==
    ASSUME IInv, NEW r \in Requests,
           \/ Signed(r) \/ LockWrite(r)
           \/ LockGet(r, "lockGet", "lockRead") \/ LockGet(r, "lockRead", "lockWrite")
    PROVE  Effect(r)
<1>1. r \in Actors /\ req[r] \in RequestType
  BY Request DEF Actors
<1>2. req[r].claims = {} /\ UNCHANGED importing
  BY <1>1, NoClaims DEF Signed, LockWrite, LockGet, At, ImportSteps
<1>3. CASE Signed(r)
  <2>1. \/ Answer(r, req[r], "unknown")
        \/ Goto(r, "lockGet") \/ Goto(r, "deleteId")
    BY <1>3 DEF Signed
  <2> QED BY <1>1, <1>2, <2>1, AnswerEffect, GotoEffect DEF Answers, Steps
<1>4. CASE LockWrite(r)
  BY <1>1, <1>2, <1>4, AnswerEffect DEF LockWrite, Answers
<1>5. ASSUME NEW pc, NEW next \in Steps, LockGet(r, pc, next) PROVE Effect(r)
  <2>1. CASE hd = NoRow
    BY <1>1, <1>2, <1>5, <2>1, AnswerEffect DEF LockGet, Answers
  <2>2. CASE hd # NoRow /\ hd.locked = LockAsked(r)
    BY <1>1, <1>2, <1>5, <2>2, AnswerEffect DEF LockGet, Answers
  <2>3. CASE hd # NoRow /\ hd.locked # LockAsked(r)
    <3> DEFINE p == [req[r] EXCEPT !.pc = next, !.scheme = hd.scheme]
    <3>1. hd.scheme \in Schemes
      BY <2>3 DEF IInv, TypeOK
    <3>2. Becomes(r, p)
      BY <1>5, <2>3 DEF LockGet
    <3>3. p \in RequestType /\ p.claims = {}
      BY <1>1, <1>2, <1>5, <3>1 DEF RequestType
    <3> HIDE DEF p
    <3> QED BY <1>2, <3>2, <3>3 DEF Effect, Keeps, HoldsClaims
  <2> QED BY <2>1, <2>2, <2>3
<1> QED BY <1>3, <1>4, <1>5 DEF Steps

LEMMA ScanEffect ==
    ASSUME IInv, NEW r \in Requests, NEW answered \in BOOLEAN,
           NEW fetched \in BOOLEAN, Scan(r, answered, fetched)
    PROVE  Effect(r)
<1> DEFINE q == req[r]
           G == Gap[q.chain]
           A == Derived(q.scheme, q.chain, q.d + 1, q.u + G)
           hits == IF answered THEN A \cap used ELSE {}
           got == IF fetched THEN q.got \cup hits ELSE q.got
           more == [q EXCEPT !.found = @ \cup A,
                             !.got = IF fetched THEN @ \cup hits ELSE @]
           deeper(last) == [more EXCEPT !.d = q.u + G, !.u = IndexOf(last)]
           other == [more EXCEPT !.chain = 1, !.d = q.order.start - 1,
                                 !.u = q.order.start - 1]
           end == [more EXCEPT !.pc = "ensure"]
<1>1. r \in Actors /\ q \in RequestType /\ HoldsClaims(r, q)
  BY Request DEF Actors
<1>2. q.scheme \in Schemes /\ q.chain \in Chains /\ q.d \in Int /\ q.u \in Int
        /\ q.found \in SUBSET Address /\ q.got \in SUBSET Address
        /\ q.order \in OrderType \cup {NoOrder}
  BY <1>1 DEF RequestType
<1>3. A \in SUBSET Address
  BY <1>2, DerivedTyped
<1>4. G \in Nat
  BY <1>2, ImportAssumption
<1>5. hits \in SUBSET Address
  BY <1>3
<1>6. q.order.start - 1 \in Int
  BY <1>2 DEF OrderType, NoOrder
<1>7. \/ \E last \in hits : Becomes(r, deeper(last))
      \/ Becomes(r, other) \/ Becomes(r, end)
  BY DEF Scan, Level
<1>8. UNCHANGED importing /\ q.pc = "scan"
  BY DEF Scan, At
<1> HIDE DEF q, G, A, hits
<1>9. more \in RequestType /\ more.claims = q.claims /\ more.pc = q.pc
  BY <1>1, <1>2, <1>3, <1>5 DEF RequestType
<1> HIDE DEF more
<1>10. ASSUME NEW p \in RequestType, p.claims = q.claims,
              p.pc = q.pc \/ p.pc = "ensure", Becomes(r, p)
       PROVE  Effect(r)
  <2>1. HoldsClaims(r, p)
    BY <1>1, <1>8, <1>10 DEF HoldsClaims, ImportSteps
  <2> QED BY <1>8, <1>10, <2>1 DEF Effect, Keeps, q
<1>11. ASSUME NEW last \in hits, Becomes(r, deeper(last)) PROVE Effect(r)
  <2>1. IndexOf(last) \in Int
    BY <1>5 DEF IndexOf, Address
  <2>3. q.u + G \in Int
    BY <1>2, <1>4
  <2>4. ASSUME NEW x \in Int, NEW y \in Int
        PROVE  LET p == [more EXCEPT !.d = x, !.u = y]
               IN  p \in RequestType /\ p.claims = q.claims /\ p.pc = q.pc
    BY <1>9 DEF RequestType
  <2>2. deeper(last) \in RequestType /\ deeper(last).claims = q.claims
          /\ deeper(last).pc = q.pc
    BY <2>1, <2>3, <2>4
  <2> HIDE DEF deeper
  <2> QED BY <1>10, <1>11, <2>2
<1>12. ASSUME Becomes(r, other) PROVE Effect(r)
  <2>1. other \in RequestType /\ other.claims = q.claims /\ other.pc = q.pc
    BY <1>6, <1>9 DEF RequestType, Chains
  <2> HIDE DEF other
  <2> QED BY <1>10, <1>12, <2>1
<1>13. ASSUME Becomes(r, end) PROVE Effect(r)
  <2>1. end \in RequestType /\ end.claims = q.claims /\ end.pc = "ensure"
    BY <1>9 DEF RequestType, Steps
  <2> HIDE DEF end
  <2> QED BY <1>10, <1>13, <2>1
<1> QED BY <1>7, <1>11, <1>12, <1>13

(* ensureHDAccountId, addAddressesToHDAccount, _importTransactions and the *)
(* import of loose addresses.                                              *)
LEMMA StoreEffect ==
    ASSUME IInv, NEW r \in Actors,
           \/ EnsureSelect(r) \/ EnsureInsert(r) \/ Statement(r)
           \/ TransactionAddressesIds(r) \/ AddLoose(r)
    PROVE  Effect(r)
<1>1. req[r] \in RequestType /\ HoldsClaims(r, req[r])
  BY Request
<1> USE DEF Steps, ImportSteps
<1>2. CASE EnsureSelect(r)
  <2>1. UNCHANGED importing /\ (Goto(r, "insert") \/ Goto(r, "accountId"))
    BY <1>2 DEF EnsureSelect
  <2> QED BY <2>1, GotoEffect
<1>3. CASE EnsureInsert(r)
  <2>1. Throw(r, req[r]) \/ (Goto(r, "accountId") /\ UNCHANGED importing)
    BY <1>3 DEF EnsureInsert
  <2> QED BY <2>1, ThrowEffect, GotoEffect
<1>4. CASE AccountId(r)
  <2>1. Throw(r, req[r]) \/ (Goto(r, "addAddrs") /\ UNCHANGED importing)
    BY <1>4 DEF AccountId
  <2> QED BY <2>1, ThrowEffect, GotoEffect
<1>5. CASE AddAddresses(r)
  BY <1>5, GotoEffect DEF AddAddresses
<1>6. CASE AddressesIds(r)
  BY <1>6, GotoEffect DEF AddressesIds
<1>7. CASE AddRows(r)
  <2>1. CASE r = Tracker
    BY <1>7, <2>1, GotoEffect DEF AddRows
  <2>2. CASE r # Tracker /\ req[r].claims = {}
    BY <1>1, <1>7, <2>2, AnswerEffect DEF AddRows, Answers
  <2>3. CASE r # Tracker /\ req[r].claims # {}
    BY <1>7, <2>3, GotoEffect DEF AddRows
  <2> QED BY <2>1, <2>2, <2>3
<1>8. CASE TransactionAddressesIds(r)
  BY <1>8, GotoEffect DEF TransactionAddressesIds
<1>9. CASE AddOutputs(r)
  <2>1. CASE r = Tracker
    BY <1>1, <1>9, <2>1, NoClaims, AnswerEffect DEF AddOutputs, Answers
  <2>2. CASE r # Tracker
    BY <1>1, <1>9, <2>2, EndImportEffect DEF AddOutputs
  <2> QED BY <2>1, <2>2
<1>10. CASE AddLoose(r)
  BY <1>10, GotoEffect DEF AddLoose
<1> QED BY <1>2, <1>3, <1>4, <1>5, <1>6, <1>7, <1>8, <1>9, <1>10 DEF Statement

LEMMA QueryEffect ==
    ASSUME IInv, NEW r \in Requests, NEW answered \in BOOLEAN,
           NEW fetched \in BOOLEAN, Query(r, answered, fetched)
    PROVE  Effect(r)
<1> DEFINE got == req[r].found \cap used
           p == [req[r] EXCEPT !.pc = "addLoose", !.got = got]
<1>1. r \in Actors /\ req[r] \in RequestType /\ HoldsClaims(r, req[r])
        /\ got \in SUBSET Address
  BY Request DEF Actors
<1>2. CASE ~answered
  BY <1>1, <1>2, GotoEffect DEF Query, Steps, ImportSteps
<1>3. CASE answered /\ ~fetched
  BY <1>1, <1>3, EndImportEffect DEF Query
<1>4. CASE answered /\ fetched
  <2>1. Becomes(r, p) /\ UNCHANGED importing
    BY <1>4 DEF Query
  <2> HIDE DEF got
  <2>2. p \in RequestType /\ p.claims = req[r].claims /\ p.pc = "addLoose"
    BY <1>1 DEF RequestType, Steps
  <2> HIDE DEF p
  <2>3. HoldsClaims(r, p)
    BY <1>1, <2>2 DEF HoldsClaims, ImportSteps
  <2> QED BY <2>1, <2>2, <2>3 DEF Effect, Keeps
<1> QED BY <1>2, <1>3, <1>4

LEMMA StepEffect ==
    ASSUME IInv, NEW r \in Requests, Step(r)
    PROVE  Effect(r)
BY OverrideEffect, LockEffect, StoreEffect, ScanEffect, QueryEffect DEF Step, Actors

LEMMA FailEffect ==
    ASSUME IInv, NEW r \in Requests, Fail(r)
    PROVE  Effect(r)
<1>1. r \in Actors /\ req[r] \in RequestType
  BY Request DEF Actors
<1>2. CASE At(r, "wasLocked") /\ Goto(r, "check") /\ UNCHANGED importing
  BY <1>1, <1>2, NoClaims, GotoEffect DEF At, Steps, ImportSteps
<1>3. CASE At(r, "check") /\ Proceed(r, req[r])
  <2>1. req[r].claims = {}
    BY <1>1, <1>3, NoClaims DEF At, ImportSteps
  <2> QED BY <1>1, <1>3, <2>1, ProceedEffect
<1>4. CASE req[r].pc \in {"deleteId", "deleteAddrs", "deleteRow"} /\ Deleted(r)
  BY <1>1, <1>4, NoClaims, DeletedEffect DEF ImportSteps
<1>5. CASE Throw(r, req[r])
  BY <1>1, <1>5, ThrowEffect
<1>6. CASE /\ req[r].pc \in {"exists"} \cup Locks
           /\ Answer(r, req[r], "ok") \/ Answer(r, req[r], "error")
           /\ UNCHANGED importing
  <2>1. req[r].claims = {}
    BY <1>1, <1>6, NoClaims DEF ImportSteps, Locks
  <2> QED BY <1>1, <1>6, <2>1, AnswerEffect DEF Answers
<1> QED BY <1>2, <1>3, <1>4, <1>5, <1>6 DEF Fail, At, StatementFails

(* The indices are integers, and the reads of the tracker only choose its  *)
(* next call and the addresses to derive.                                  *)
LEMMA IndicesTyped ==
    ASSUME IInv, NEW c \in Chains
    PROVE  IndicesOn(c, rows) \cup {-1} \subseteq Int
<1>1. rows \subseteq Address
  BY DEF IInv, TypeOK
<1> QED BY <1>1 DEF IndicesOn, IndexOf, Address

LEMMA TrackerReads ==
    ASSUME IInv, req[Tracker] \in RequestType,
           TrackerDerived \/ TrackerUnused \/ TrackerHoles
    PROVE  \E new \in SUBSET Address, d \in Int, pc \in Steps \ {"idle", "done"} :
             /\ Becomes(Tracker, [req[Tracker] EXCEPT !.pc = pc, !.d = d, !.found = new])
             /\ UNCHANGED importing
<1> DEFINE q == req[Tracker]
<1>1. /\ q.scheme \in Schemes /\ q.chain \in Chains /\ q.d \in Int
      /\ q.found \in SUBSET Address
  BY DEF RequestType
<1>2. \A from, to : Derived(q.scheme, q.chain, from, to) \in SUBSET Address
  BY <1>1, DerivedTyped
<1>3. CASE TrackerDerived
  <2>1. PICK last \in Int : Becomes(Tracker, [q EXCEPT !.pc = "unused", !.d = last])
    BY <1>1, <1>3, IndicesTyped DEF TrackerDerived
  <2>2. [q EXCEPT !.pc = "unused", !.d = last]
          = [q EXCEPT !.pc = "unused", !.d = last, !.found = q.found]
    BY DEF RequestType
  <2>3. "unused" \in Steps \ {"idle", "done"}
    BY DEF Steps
  <2> QED BY <1>1, <1>3, <2>1, <2>2, <2>3 DEF TrackerDerived
<1>4. CASE TrackerUnused \/ TrackerHoles
  <2>1. UNCHANGED importing
    BY <1>4 DEF TrackerUnused, TrackerHoles
  <2>2. \/ Goto(Tracker, "outputs") \/ Goto(Tracker, "holes")
        \/ \E from : Derive(q, from)
    BY <1>4 DEF TrackerUnused, TrackerHoles
  <2>3. ASSUME NEW pc \in {"outputs", "holes"}, Goto(Tracker, pc)
        PROVE  Becomes(Tracker, [q EXCEPT !.pc = pc, !.d = q.d, !.found = q.found])
    <3>1. [q EXCEPT !.pc = pc] = [q EXCEPT !.pc = pc, !.d = q.d, !.found = q.found]
      BY DEF RequestType
    <3> QED BY <2>3, <3>1 DEF Goto
  <2>4. ASSUME NEW from, Derive(q, from)
        PROVE  Becomes(Tracker, [q EXCEPT !.pc = "accountId", !.d = q.d,
                                   !.found = Derived(q.scheme, q.chain, from, LastNeeded(q))])
    <3>1. [q EXCEPT !.pc = "accountId",
                    !.found = Derived(q.scheme, q.chain, from, LastNeeded(q))]
            = [q EXCEPT !.pc = "accountId", !.d = q.d,
                        !.found = Derived(q.scheme, q.chain, from, LastNeeded(q))]
      BY DEF RequestType
    <3> QED BY <2>4, <3>1 DEF Derive
  <2>5. {"outputs", "holes", "accountId"} \subseteq Steps \ {"idle", "done"}
    BY DEF Steps
  <2> QED BY <1>1, <1>2, <2>1, <2>2, <2>3, <2>4, <2>5
<1> QED BY <1>3, <1>4

LEMMA TrackerEffect ==
    ASSUME IInv, Track \/ TrackerFails
    PROVE  Effect(Tracker) \/ UNCHANGED <<req, importing>>
<1>1. Tracker \in Actors /\ req[Tracker] \in RequestType /\ req[Tracker].claims = {}
  BY Request, NoClaims DEF Actors
<1>2. ASSUME NEW a \in pending, TrackerFind(a)
      PROVE  Effect(Tracker) \/ UNCHANGED <<req, importing>>
  <2> DEFINE known == [Idle EXCEPT !.pc = "derived", !.scheme = hd.scheme,
                                   !.chain = ChainOf(a), !.u = IndexOf(a),
                                   !.got = {a}]
             loose == [Idle EXCEPT !.pc = "outputs", !.got = {a}]
  <2>1. Idle \in RequestType /\ Idle.claims = {}
    BY IdleTyped DEF Idle
  <2>2. a \in Address /\ ChainOf(a) \in Chains /\ IndexOf(a) \in Int
    <3>1. a \in Address
      BY DEF IInv, TypeOK
    <3> QED BY <3>1 DEF Address, ChainOf, IndexOf
  <2>3. loose \in RequestType /\ loose.claims = {}
    BY <2>1, <2>2 DEF RequestType, Steps
  <2>4. CASE a \in addrs /\ a \in rows
    <3>1. hd.scheme \in Schemes
      BY <2>4 DEF IInv, TypeOK
    <3>2. known \in RequestType /\ known.claims = {}
      BY <2>1, <2>2, <3>1 DEF RequestType, Steps
    <3>3. Becomes(Tracker, known) /\ UNCHANGED importing
      BY <1>2, <2>4 DEF TrackerFind
    <3> HIDE DEF known
    <3> QED BY <1>1, <3>2, <3>3 DEF Effect, Keeps, HoldsClaims
  <2>5. CASE a \in addrs /\ a \notin rows
    <3>1. Becomes(Tracker, loose) /\ UNCHANGED importing
      BY <1>2, <2>5 DEF TrackerFind
    <3> HIDE DEF loose
    <3> QED BY <1>1, <2>3, <3>1 DEF Effect, Keeps, HoldsClaims
  <2>6. CASE a \notin addrs
    BY <1>2, <2>6 DEF TrackerFind
  <2> QED BY <2>4, <2>5, <2>6
<1>3. CASE TrackerDerived \/ TrackerUnused \/ TrackerHoles
  <2>1. PICK new \in SUBSET Address, d \in Int, pc \in Steps \ {"idle", "done"} :
          /\ Becomes(Tracker, [req[Tracker] EXCEPT !.pc = pc, !.d = d, !.found = new])
          /\ UNCHANGED importing
    BY <1>1, <1>3, TrackerReads
  <2> DEFINE p == [req[Tracker] EXCEPT !.pc = pc, !.d = d, !.found = new]
  <2>2. p \in RequestType /\ p.claims = {}
    BY <1>1 DEF RequestType
  <2> HIDE DEF p
  <2> QED BY <1>1, <2>1, <2>2 DEF Effect, Keeps, HoldsClaims, p
<1>4. CASE Statement(Tracker)
  BY <1>1, <1>4, StoreEffect
<1>5. CASE TrackerFails
  BY <1>1, <1>5, ThrowEffect DEF TrackerFails, StatementFails
<1> QED BY <1>2, <1>3, <1>4, <1>5 DEF Track

-----------------------------------------------------------------------------
(* The tables. *)

LEMMA ThrowTables ==
    ASSUME IInv, NEW r \in Actors, Throw(r, req[r]), UNCHANGED <<tables, chain>>,
           exposed' \in BOOLEAN
    PROVE  TablesOK'
<1>1. TablesOK
  BY Split DEF IInv
<1>2. /\ clean' = clean \ {r} /\ accountId' = accountId \ {r}
      /\ addrIds' = [addrIds EXCEPT ![r] = {}]
  BY DEF Throw
<1> QED BY <1>1, <1>2 DEF TablesOK, tables, chain

LEMMA StoreTables ==
    ASSUME IInv, NEW r \in Actors,
           \/ EnsureSelect(r) \/ EnsureInsert(r) \/ Statement(r)
           \/ TransactionAddressesIds(r) \/ AddLoose(r)
    PROVE  TablesOK'
<1>1. TablesOK
  BY Split DEF IInv
<1>2. req[r] \in RequestType /\ req[r].found \in SUBSET Address
  BY Request
<1>3. addrIds[r] \subseteq addrs
  BY <1>1 DEF TablesOK
<1> USE DEF ids, chain, history, tables
<1>4. CASE EnsureSelect(r)
  BY <1>1, <1>4 DEF EnsureSelect, TablesOK
<1>5. CASE EnsureInsert(r)
  <2>1. CASE hd = NoRow
    <3>1. [scheme |-> req[r].scheme, locked |-> req[r].locked]
            \in [scheme : Schemes, locked : BOOLEAN]
      BY <1>2 DEF RequestType
    <3>2. hd' \in [scheme : Schemes, locked : BOOLEAN] /\ hd' # NoRow
      BY <1>5, <2>1, <3>1, ImportAssumption DEF EnsureInsert
    <3>3. exposed' \in BOOLEAN
      BY <1>1, <1>5, <2>1 DEF EnsureInsert, TablesOK, Disturbs
    <3> QED BY <1>1, <1>5, <2>1, <3>2, <3>3 DEF EnsureInsert, TablesOK
  <2>2. CASE hd # NoRow
    <3>1. UNCHANGED <<tables, chain, exposed>> /\ Throw(r, req[r])
      BY <1>5, <2>2 DEF EnsureInsert
    <3>2. exposed' \in BOOLEAN
      BY <1>1, <3>1 DEF TablesOK
    <3> QED BY <3>1, <3>2, ThrowTables
  <2> QED BY <2>1, <2>2
<1>6. CASE AccountId(r)
  <2>1. CASE hd = NoRow
    <3>1. UNCHANGED <<tables, chain, exposed>> /\ Throw(r, req[r])
      BY <1>6, <2>1 DEF AccountId
    <3>2. exposed' \in BOOLEAN
      BY <1>1, <3>1 DEF TablesOK
    <3> QED BY <3>1, <3>2, ThrowTables
  <2>2. CASE hd # NoRow
    BY <1>1, <1>6, <2>2 DEF AccountId, TablesOK
  <2> QED BY <2>1, <2>2
<1>7. CASE AddAddresses(r)
  <2>1. addrs' = addrs \cup req[r].found /\ addrIds' = addrIds
    BY <1>7 DEF AddAddresses
  <2>2. addrIds' \in [Actors -> SUBSET addrs']
    BY <1>1, <2>1 DEF TablesOK
  <2> QED BY <1>1, <1>2, <1>7, <2>1, <2>2 DEF AddAddresses, TablesOK
<1>8. CASE AddressesIds(r)
  BY <1>1, <1>3, <1>8 DEF AddressesIds, TablesOK
<1>9. CASE AddRows(r)
  <2> DEFINE added == IF r \in accountId THEN req[r].found \cap addrIds[r] ELSE {}
  <2>1. /\ rows' = rows \cup added /\ accountId' = accountId \ {r}
        /\ UNCHANGED <<hd, addrs, outs, used, pending, clean>>
    BY <1>9 DEF AddRows
  <2>2. added \subseteq addrs /\ (hd = NoRow => added = {})
    BY <1>1, <1>3 DEF TablesOK
  <2>3. addrIds' \in [Actors -> SUBSET addrs]
    BY <1>1, <1>9 DEF AddRows, TablesOK
  <2>4. exposed' \in BOOLEAN
    BY <1>1, <1>9 DEF AddRows, TablesOK
  <2> HIDE DEF added
  <2> QED BY <1>1, <2>1, <2>2, <2>3, <2>4 DEF TablesOK
<1>10. CASE TransactionAddressesIds(r)
  BY <1>1, <1>10 DEF TransactionAddressesIds, TablesOK
<1>11. CASE AddOutputs(r)
  <2>1. outs' \subseteq addrs
    BY <1>1, <1>3, <1>11 DEF AddOutputs, TablesOK
  <2>2. exposed' \in BOOLEAN
    BY <1>1, <1>11 DEF AddOutputs, TablesOK, StoredAsLoose
  <2> QED BY <1>1, <1>11, <2>1, <2>2 DEF AddOutputs, TablesOK
<1>12. CASE AddLoose(r)
  <2>1. addrs' = addrs \cup req[r].found /\ addrIds' = addrIds
    BY <1>12 DEF AddLoose
  <2>2. addrIds' \in [Actors -> SUBSET addrs']
    BY <1>1, <2>1 DEF TablesOK
  <2> QED BY <1>1, <1>2, <1>12, <2>1, <2>2 DEF AddLoose, TablesOK
<1> QED BY <1>4, <1>5, <1>6, <1>7, <1>8, <1>9, <1>10, <1>11, <1>12 DEF Statement

LEMMA DeleteTables ==
    ASSUME IInv, NEW r \in Requests, DeleteAddrs(r) \/ DeleteRow(r)
    PROVE  TablesOK'
<1>1. TablesOK
  BY Split DEF IInv
<1>2. exposed' \in BOOLEAN
  BY <1>1 DEF TablesOK, DeleteAddrs, DeleteRow, Disturbs
<1> USE DEF chain
<1>3. CASE DeleteAddrs(r)
  <2>1. addrs' = addrs \ rows /\ addrIds' = [x \in Actors |-> addrIds[x] \ rows]
    BY <1>3 DEF DeleteAddrs
  <2>2. addrIds' \in [Actors -> SUBSET addrs']
    BY <1>1, <2>1 DEF TablesOK
  <2> QED BY <1>1, <1>2, <1>3, <2>2 DEF DeleteAddrs, TablesOK
<1>4. CASE DeleteRow(r)
  BY <1>1, <1>2, <1>4 DEF DeleteRow, TablesOK
<1> QED BY <1>3, <1>4

LEMMA StepTables ==
    ASSUME IInv, NEW r \in Requests, Arrive(r) \/ Step(r) \/ Fail(r)
    PROVE  TablesOK'
<1>1. r \in Actors /\ TablesOK
  BY Split DEF IInv, Actors
<1>2. CASE UNCHANGED <<hd, addrs, rows, outs, ids, chain, clean, exposed>>
  BY <1>1, <1>2 DEF TablesOK, ids, chain
<1>3. CASE Arrive(r)
  BY <1>2, <1>3 DEF Arrive, tables, history
<1>4. CASE Step(r)
  <2>1. CASE Exists(r) \/ WasLocked(r) \/ Check(r) \/ DeleteId(r)
    BY <1>2, <2>1 DEF Exists, WasLocked, Check, DeleteId, tables, history
  <2>5. CASE RescanAccount(r)
    <3>1. UNCHANGED <<tables, ids, chain, clean>>
      BY <2>5 DEF RescanAccount
    <3>2. exposed' \in BOOLEAN
      BY <1>1, <2>5 DEF RescanAccount, TablesOK
    <3> QED BY <1>1, <3>1, <3>2 DEF TablesOK, tables, ids, chain
  <2>2. CASE \/ Signed(r) \/ LockGet(r, "lockGet", "lockRead")
             \/ LockGet(r, "lockRead", "lockWrite")
    BY <1>2, <2>2 DEF Signed, LockGet, tables, history
  <2>3. CASE LockWrite(r)
    <3>1. CASE hd = NoRow
      BY <1>2, <2>3, <3>1 DEF LockWrite
    <3>2. CASE hd # NoRow
      <4>1. req[r].scheme \in Schemes /\ LockAsked(r) \in BOOLEAN
        <5>1. req[r] \in RequestType /\ req[r].order \in OrderType \cup {NoOrder}
          BY <1>1, Request
        <5>2. req[r].relock \in BOOLEAN /\ req[r].scheme \in Schemes
          BY <5>1 DEF RequestType
        <5>3. ASSUME NEW o \in OrderType PROVE o.lock \in BOOLEAN
          BY DEF OrderType
        <5>4. NoOrder.lock \in BOOLEAN
          BY DEF NoOrder
        <5>5. req[r].order.lock \in BOOLEAN
          BY <5>1, <5>3, <5>4
        <5> QED BY <5>2, <5>5 DEF LockAsked
      <4>2. hd' \in [scheme : Schemes, locked : BOOLEAN] /\ hd' # NoRow
        BY <2>3, <3>2, <4>1, ImportAssumption DEF LockWrite
      <4>3. exposed' \in BOOLEAN
        BY <1>1, <2>3, <3>2 DEF LockWrite, TablesOK
      <4> QED BY <1>1, <2>3, <4>2, <4>3 DEF LockWrite, TablesOK, ids, chain
    <3> QED BY <3>1, <3>2
  <2>4. ASSUME NEW answered \in BOOLEAN, NEW fetched \in BOOLEAN,
               Scan(r, answered, fetched) \/ Query(r, answered, fetched)
        PROVE  TablesOK'
    <3>1. /\ UNCHANGED <<tables, ids, chain, exposed>>
          /\ clean' = clean \/ clean' = clean \ {r}
      BY <2>4 DEF Scan, Query, history
    <3> QED BY <1>1, <3>1 DEF TablesOK, tables, ids, chain
  <2> QED BY <1>1, <1>4, <2>1, <2>2, <2>3, <2>4, <2>5, StoreTables, DeleteTables DEF Step
<1>5. CASE Fail(r)
  <2>1. UNCHANGED <<tables, chain>>
    BY <1>5 DEF Fail
  <2>2. exposed' \in BOOLEAN
    BY <1>1, <1>5 DEF Fail, StatementFails, history, TablesOK
  <2>3. CASE Throw(r, req[r])
    BY <1>1, <2>1, <2>2, <2>3, ThrowTables
  <2>4. CASE UNCHANGED <<ids, clean>>
    BY <1>1, <2>1, <2>2, <2>4 DEF TablesOK, tables, ids, chain
  <2> QED BY <1>5, <2>3, <2>4 DEF Fail, StatementFails, history
<1> QED BY <1>3, <1>4, <1>5

LEMMA TrackerTables ==
    ASSUME IInv, Track \/ TrackerFails
    PROVE  TablesOK'
<1>1. Tracker \in Actors /\ TablesOK
  BY Split DEF IInv, Actors
<1>2. ASSUME NEW a \in pending, TrackerFind(a) PROVE TablesOK'
  <2>1. addrIds' \in [Actors -> SUBSET addrs]
    BY <1>1, <1>2 DEF TrackerFind, TablesOK
  <2> QED BY <1>1, <1>2, <2>1 DEF TrackerFind, TablesOK, tables, history
<1>3. CASE TrackerDerived \/ TrackerUnused \/ TrackerHoles
  BY <1>1, <1>3 DEF TrackerDerived, TrackerUnused, TrackerHoles, TablesOK, tables, ids, chain, history
<1>4. CASE Statement(Tracker)
  BY <1>1, <1>4, StoreTables
<1>5. CASE TrackerFails
  <2>1. UNCHANGED <<tables, chain, exposed>> /\ Throw(Tracker, req[Tracker])
    BY <1>5 DEF TrackerFails, StatementFails
  <2>2. exposed' \in BOOLEAN
    BY <1>1, <2>1 DEF TablesOK
  <2> QED BY <1>1, <2>1, <2>2, ThrowTables
<1> QED BY <1>2, <1>3, <1>4, <1>5 DEF Track

-----------------------------------------------------------------------------
LEMMA Invariance ==
    ASSUME IInv, [Next]_vars
    PROVE  IInv'
<1>1. TablesOK /\ ReqTyped /\ ClaimsAreExclusive /\ ClaimsInImports
  BY Split DEF IInv
<1> SUFFICES TablesOK' /\ ReqTyped' /\ ClaimsAreExclusive' /\ ClaimsInImports'
  BY DEF IInv, TypeOK, TablesOK, ReqTyped
<1>2. ASSUME NEW r \in Requests, Arrive(r) \/ Step(r) \/ Fail(r)
      PROVE  TablesOK' /\ ReqTyped' /\ ClaimsAreExclusive' /\ ClaimsInImports'
  <2>1. r \in Actors /\ Effect(r)
    BY <1>2, ArriveEffect, StepEffect, FailEffect DEF Actors
  <2> QED BY <1>2, <2>1, ClaimEffect, StepTables DEF Effect
<1>3. CASE Track \/ TrackerFails
  <2>1. Tracker \in Actors
    BY DEF Actors
  <2>2. Effect(Tracker) \/ UNCHANGED <<req, importing>>
    BY <1>3, TrackerEffect
  <2>3. TablesOK'
    BY <1>3, TrackerTables
  <2>4. CASE Effect(Tracker)
    BY <2>1, <2>3, <2>4, ClaimEffect DEF Effect
  <2>5. CASE UNCHANGED <<req, importing>>
    BY <1>1, <2>3, <2>5 DEF ReqTyped, ClaimsAreExclusive, ClaimsInImports, Running
  <2> QED BY <2>2, <2>4, <2>5
<1>4. ASSUME NEW a \in Payable, Pay(a)
      PROVE  TablesOK' /\ ReqTyped' /\ ClaimsAreExclusive' /\ ClaimsInImports'
  <2>1. a \in Address
    BY ImportAssumption
  <2>2. TablesOK'
    BY <1>1, <1>4, <2>1 DEF Pay, TablesOK, tables, ids, history
  <2>3. UNCHANGED <<req, importing>>
    BY <1>4 DEF Pay
  <2> QED BY <1>1, <2>2, <2>3 DEF ReqTyped, ClaimsAreExclusive, ClaimsInImports, Running
<1>5. CASE UNCHANGED vars
  BY <1>1, <1>5 DEF vars, tables, ids, chain, history, TablesOK, ReqTyped,
     ClaimsAreExclusive, ClaimsInImports, Running
<1> QED BY <1>2, <1>3, <1>4, <1>5 DEF Next

LEMMA Initially ==
    ASSUME Init
    PROVE  IInv
<1>1. Idle \in RequestType /\ Idle.claims = {} /\ Idle.pc = "idle"
  BY IdleTyped DEF Idle
<1>2. req = [r \in Actors |-> Idle] /\ importing = {}
  BY DEF Init
<1>3. ReqTyped
  BY <1>1, <1>2 DEF ReqTyped
<1>4. ClaimsAreExclusive /\ ClaimsInImports
  BY <1>1, <1>2 DEF ClaimsAreExclusive, ClaimsInImports, HoldsClaims, Running
<1>5. DefaultScheme \in Schemes /\ FirstUsed \subseteq Address
  BY ImportAssumption
<1>6. rows \subseteq Address /\ (hd = NoRow => rows = {})
  <2>1. CASE hd = NoRow
    BY <2>1 DEF Init
  <2>2. CASE hd # NoRow
    <3>1. \A c \in Chains : \A to : Derived(DefaultScheme, c, 0, to) \subseteq Address
      BY <1>5, DerivedTyped
    <3> QED BY <2>2, <3>1 DEF Init
  <2> QED BY <2>1, <2>2
<1>7. hd \in [scheme : Schemes, locked : BOOLEAN] \cup {NoRow}
  <2>1. ASSUME NEW b \in BOOLEAN
        PROVE  FirstRow(b) \in [scheme : Schemes, locked : BOOLEAN]
    BY <1>5 DEF FirstRow
  <2>2. hd \in {NoRow, FirstRow(FALSE), FirstRow(TRUE)}
    BY DEF Init
  <2> QED BY <2>1, <2>2
<1>8. TablesOK
  BY <1>5, <1>6, <1>7 DEF Init, TablesOK
<1> QED BY <1>3, <1>4, <1>8, Split DEF IInv

(* The types, and the foreign keys of the tables of accounts, addresses and *)
(* outputs, hold whatever the requests and however they interleave.        *)
THEOREM TypeCorrect == Spec => []TypeOK
<1>1. Init => IInv
  BY Initially
<1>2. IInv /\ [Next]_vars => IInv'
  BY Invariance
<1>3. IInv => TypeOK
  BY DEF IInv
<1> QED BY <1>1, <1>2, <1>3, PTL DEF Spec

(* Two imports never hold the same xpub or address, and none is held by a  *)
(* request that was answered, for any number of requests and failures.     *)
THEOREM ImportsExclude == Spec => []ClaimsAreExclusive
<1>1. Init => IInv
  BY Initially
<1>2. IInv /\ [Next]_vars => IInv'
  BY Invariance
<1>3. IInv => ClaimsAreExclusive
  BY DEF IInv
<1> QED BY <1>1, <1>2, <1>3, PTL DEF Spec

-----------------------------------------------------------------------------
(* The tables of an account whose history nothing has disturbed.           *)

(* An address and those before it; an address and the gap after it.        *)
Upto(a) == Derived(SchemeOf(a), ChainOf(a), 0, IndexOf(a))

Ahead(a) == Derived(SchemeOf(a), ChainOf(a), IndexOf(a), IndexOf(a) + Gap[ChainOf(a)])

Closed(as) == \A a \in as : Upto(a) \subseteq as

Bounded(as) == \E n \in Nat : \A a \in as : IndexOf(a) <= n

(* The addresses of an account with row h, those of os having transactions: *)
(* of one scheme, without holes, with the gap after each that is used.     *)
RowsGood(h, as, os) ==
    /\ \A a \in as : SchemeOf(a) = h.scheme
    /\ Closed(as) /\ Bounded(as)
    /\ \A a \in as \cap os : Ahead(a) \subseteq as

PrepSteps == {"idle", "exists", "wasLocked", "check", "signed",
              "deleteId", "deleteAddrs", "deleteRow"}

StoreSteps == {"ensure", "insert", "accountId", "addAddrs", "addrIds", "addRows"}

TrackSteps == {"derived", "unused", "holes"}

DeriveSteps == {"scan"} \cup StoreSteps \cup TrackSteps

(* A request that derives does so under the scheme of the account.         *)
OfScheme(q, h) ==
    /\ h # NoRow => h.scheme = q.scheme
    /\ \A a \in q.found \cup q.got : SchemeOf(a) = q.scheme

(* In the course of a scan, R being the addresses of the account and those *)
(* it has found: no hole up to d, and the gap is ahead of what was paid,   *)
(* but for the addresses up to u of the chain it is at.                    *)
Scanned(q, R) ==
    /\ q.order.start - 1 <= q.u /\ q.u <= q.d
    /\ Derived(q.scheme, q.chain, 0, q.d) \subseteq R
    /\ q.chain = 0 => /\ Derived(q.scheme, 1, 0, q.order.start - 1) \subseteq R
                      /\ \A a \in q.got : ChainOf(a) = 0
    /\ \A a \in q.found : Upto(a) \subseteq R
    /\ \A a \in q.got : \/ ChainOf(a) = q.chain /\ IndexOf(a) <= q.u
                        \/ Ahead(a) \subseteq R

Ready(q, R) ==
    /\ \A a \in q.found : Upto(a) \subseteq R
    /\ \A a \in q.got : Ahead(a) \subseteq R

(* It stores transactions of addresses that belong to no account.          *)
ForLoose(x, q) == IF x = Tracker THEN q.u = -1 ELSE q.order.kind = "loose"

(* The address paid, of which the tracker was told.                        *)
Paid(q) == <<q.scheme, q.chain, q.u>>

(* What the locals q of x say of the tables: h is the row of the account,  *)
(* as its addresses, ad those of table addresses; own says whether x holds *)
(* the id of the account, mine of which addresses it holds the id.         *)
Good(x, q, h, as, ad, own, mine) ==
    /\ q.pc \in PrepSteps => q.order.kind # "rescan" /\ q.got = {}
    /\ q.pc \in DeriveSteps => OfScheme(q, h) /\ Bounded(q.found)
    /\ q.pc = "scan" => Scanned(q, as \cup q.found)
    /\ q.pc \in {"query", "addLoose"} => ForLoose(x, q)
    /\ q.pc \in StoreSteps => Ready(q, as \cup q.found)
    /\ q.pc \in {"addAddrs", "addrIds", "addRows"} => x \in own
    /\ q.pc \in {"addrIds", "addRows"} => q.found \subseteq ad
    /\ q.pc = "addRows" => q.found \subseteq mine
    /\ q.pc \in {"txIds", "outputs"} /\ ~ForLoose(x, q) =>
         \A a \in q.got : Ahead(a) \subseteq as
    /\ q.pc \in TrackSteps => /\ x = Tracker /\ q.u \in Nat
                              /\ q.got = {Paid(q)} /\ Paid(q) \in as
    /\ q.pc \in {"unused", "holes"} => Derived(q.scheme, q.chain, 0, q.d) \subseteq as
    /\ q.pc = "holes" => q.u + Gap[q.chain] <= q.d

TasksGood == \A x \in Actors : Good(x, req[x], hd, rows, addrs, accountId, addrIds[x])

GapInv == ~exposed => RowsGood(hd, rows, outs) /\ TasksGood

(* The tables may grow under a request that is at work.                    *)
LEMMA GoodGrows ==
    ASSUME NEW x, NEW q, NEW h, NEW as, NEW ad, NEW own, NEW mine,
           NEW h2, NEW as2, NEW ad2, NEW own2, NEW mine2,
           Good(x, q, h, as, ad, own, mine),
           h2 # NoRow => h # NoRow /\ h2.scheme = h.scheme,
           as \subseteq as2, ad \subseteq ad2, x \in own => x \in own2,
           mine \subseteq mine2
    PROVE  Good(x, q, h2, as2, ad2, own2, mine2)
<1>1. OfScheme(q, h) => OfScheme(q, h2)
  BY DEF OfScheme
<1>2. Scanned(q, as \cup q.found) => Scanned(q, as2 \cup q.found)
  BY DEF Scanned
<1>3. Ready(q, as \cup q.found) => Ready(q, as2 \cup q.found)
  BY DEF Ready
<1> QED BY <1>1, <1>2, <1>3 DEF Good

(* Nothing is said of a request that does not run.                         *)
LEMMA GoodAtRest ==
    ASSUME NEW x, NEW q, NEW h, NEW as, NEW ad, NEW own, NEW mine,
           NEW h2, NEW as2, NEW ad2, NEW own2, NEW mine2,
           Good(x, q, h, as, ad, own, mine), q.pc \in {"idle", "done"}
    PROVE  Good(x, q, h2, as2, ad2, own2, mine2)
BY DEF Good, PrepSteps, DeriveSteps, StoreSteps, TrackSteps

(* A request that was answered, or that only has the lock bit to write.    *)
FreeSteps == {"done", "account", "lockGet", "lockRead", "lockWrite"}

LEMMA GoodFree ==
    ASSUME NEW x, NEW q, NEW h, NEW as, NEW ad, NEW own, NEW mine, q.pc \in FreeSteps
    PROVE  Good(x, q, h, as, ad, own, mine)
BY DEF Good, PrepSteps, DeriveSteps, StoreSteps, TrackSteps, FreeSteps

LEMMA GoodPrep ==
    ASSUME NEW x, NEW q, NEW h, NEW as, NEW ad, NEW own, NEW mine, q.pc \in PrepSteps,
           q.order.kind # "rescan", q.got = {}
    PROVE  Good(x, q, h, as, ad, own, mine)
BY DEF Good, PrepSteps, DeriveSteps, StoreSteps, TrackSteps

(* The locals of the one that acts, and of the others.                     *)
LEMMA BecomesIs ==
    ASSUME ReqTyped, NEW r \in Actors, NEW q, Becomes(r, q)
    PROVE  req'[r] = q /\ \A x \in Actors \ {r} : req'[x] = req[x]
BY DEF ReqTyped, Becomes

LEMMA AnswerGood ==
    ASSUME ReqTyped, NEW r \in Actors, NEW q, NEW a, Answer(r, q, a)
    PROVE  /\ \A h, as, ad, own, mine : Good(r, req'[r], h, as, ad, own, mine)
           /\ \A x \in Actors \ {r} : req'[x] = req[x]
<1>1. CASE r = Tracker
  <2>1. Becomes(r, Idle)
    BY <1>1 DEF Answer
  <2>2. req'[r] = Idle /\ \A x \in Actors \ {r} : req'[x] = req[x]
    BY <2>1, BecomesIs
  <2>3. Idle.pc \in PrepSteps /\ Idle.order.kind # "rescan" /\ Idle.got = {}
    BY DEF Idle, NoOrder, PrepSteps
  <2> QED BY <2>2, <2>3, GoodPrep
<1>2. CASE r # Tracker
  <2> DEFINE p == [Idle EXCEPT !.pc = "done", !.answer = a,
                                 !.order = q.order, !.base = q.base]
  <2>1. Becomes(r, p)
    BY <1>2 DEF Answer
  <2>2. p.pc \in FreeSteps
    BY DEF Idle, FreeSteps
  <2> HIDE DEF p
  <2>3. req'[r] = p /\ \A x \in Actors \ {r} : req'[x] = req[x]
    BY <2>1, BecomesIs
  <2> QED BY <2>2, <2>3, GoodFree
<1> QED BY <1>1, <1>2

LEMMA EndImportGood ==
    ASSUME ReqTyped, NEW r \in Actors, NEW q \in RequestType, EndImport(r, q)
    PROVE  /\ \A h, as, ad, own, mine : Good(r, req'[r], h, as, ad, own, mine)
           /\ \A x \in Actors \ {r} : req'[x] = req[x]
<1>1. CASE q.relock
  <2> DEFINE p == [q EXCEPT !.pc = "lockGet", !.claims = {}]
  <2>1. Becomes(r, p)
    BY <1>1 DEF EndImport
  <2>2. p.pc \in FreeSteps
    BY DEF RequestType, FreeSteps
  <2> HIDE DEF p
  <2>3. req'[r] = p /\ \A x \in Actors \ {r} : req'[x] = req[x]
    BY <2>1, BecomesIs
  <2> QED BY <2>2, <2>3, GoodFree
<1>2. CASE ~q.relock
  BY <1>2, AnswerGood DEF EndImport
<1> QED BY <1>1, <1>2

LEMMA ThrowGood ==
    ASSUME ReqTyped, NEW r \in Actors, Throw(r, req[r])
    PROVE  /\ \A h, as, ad, own, mine : Good(r, req'[r], h, as, ad, own, mine)
           /\ \A x \in Actors \ {r} : req'[x] = req[x]
<1>1. req[r] \in RequestType
  BY DEF ReqTyped
<1>2. CASE r = Tracker \/ req[r].claims = {}
  <2>1. Answer(r, req[r], "none") \/ Answer(r, req[r], "error")
    BY <1>2 DEF Throw
  <2> QED BY <2>1, AnswerGood
<1>3. CASE r # Tracker /\ req[r].claims # {}
  <2>1. EndImport(r, req[r])
    BY <1>3 DEF Throw
  <2> QED BY <1>1, <2>1, EndImportGood
<1> QED BY <1>2, <1>3

LEMMA AddressParts ==
    ASSUME NEW a \in Address
    PROVE  /\ a = <<SchemeOf(a), ChainOf(a), IndexOf(a)>>
           /\ SchemeOf(a) \in Schemes /\ ChainOf(a) \in Chains /\ IndexOf(a) \in Nat
           /\ Gap[ChainOf(a)] \in Nat /\ Gap[ChainOf(a)] # 0
<1>1. PICK s \in Schemes, c \in Chains, i \in Nat : a = <<s, c, i>>
  BY DEF Address
<1> QED BY <1>1, ImportAssumption DEF SchemeOf, ChainOf, IndexOf

LEMMA DerivedParts ==
    ASSUME NEW s, NEW c, NEW from \in Int, NEW to \in Int
    PROVE  /\ \A a \in Derived(s, c, from, to) :
                /\ a = <<s, c, IndexOf(a)>> /\ SchemeOf(a) = s /\ ChainOf(a) = c
                /\ IndexOf(a) \in Nat /\ from <= IndexOf(a) /\ IndexOf(a) <= to
           /\ \A i \in Nat : from <= i /\ i <= to => <<s, c, i>> \in Derived(s, c, from, to)
BY DEF Derived, SchemeOf, ChainOf, IndexOf

LEMMA DerivedMonotone ==
    ASSUME NEW s, NEW c, NEW from \in Int, NEW to \in Int,
           NEW from2 \in Int, NEW to2 \in Int, from2 <= from, to <= to2
    PROVE  Derived(s, c, from, to) \subseteq Derived(s, c, from2, to2)
BY DEF Derived

LEMMA DerivedBounded ==
    ASSUME NEW s, NEW c, NEW from \in Int, NEW to \in Int
    PROVE  Bounded(Derived(s, c, from, to))
<1> DEFINE n == IF to < 0 THEN 0 ELSE to
<1>1. n \in Nat /\ to <= n
  OBVIOUS
<1>2. \A a \in Derived(s, c, from, to) : IndexOf(a) \in Nat /\ IndexOf(a) <= to
  BY DerivedParts
<1>3. \A a \in Derived(s, c, from, to) : IndexOf(a) <= n
  BY <1>1, <1>2
<1> QED BY <1>1, <1>3 DEF Bounded

LEMMA BoundedUnion ==
    ASSUME NEW A \in SUBSET Address, NEW B \in SUBSET Address, Bounded(A), Bounded(B)
    PROVE  Bounded(A \cup B)
<1>1. PICK m \in Nat : \A a \in A : IndexOf(a) <= m
  BY DEF Bounded
<1>2. PICK n \in Nat : \A a \in B : IndexOf(a) <= n
  BY DEF Bounded
<1>3. \A a \in A \cup B : IndexOf(a) \in Nat
  BY AddressParts
<1>4. \A a \in A \cup B : IndexOf(a) <= m + n
  BY <1>1, <1>2, <1>3
<1> QED BY <1>4 DEF Bounded

LEMMA OrderStarts ==
    ASSUME NEW q \in RequestType
    PROVE  q.order.start \in Nat /\ (q.order.kind # "rescan" => q.order.start = 0)
<1>1. q.order \in OrderType \cup {NoOrder}
  BY DEF RequestType
<1> QED BY <1>1 DEF OrderType, NoOrder

(* A claim starts a scan from an index that has no hole before it.         *)
LEMMA ClaimGood ==
    ASSUME ReqTyped, NEW r \in Requests, NEW q \in RequestType, Claim(r, q)
    PROVE  /\ \A h, as, ad, own, mine :
                /\ h # NoRow => h.scheme = q.scheme
                /\ Account \notin importing =>
                     \A c \in Chains : Derived(q.scheme, c, 0, q.order.start - 1) \subseteq as
                => Good(r, req'[r], h, as, ad, own, mine)
           /\ \A x \in Actors \ {r} : req'[x] = req[x]
<1>1. r \in Actors
  BY DEF Actors
<1>2. CASE Account \in importing
  BY <1>1, <1>2, AnswerGood DEF Claim
<1>3. CASE Account \notin importing
  <2> DEFINE base == {a \in used : SchemeOf(a) = q.scheme}
             first == q.order.start - 1
             p == [q EXCEPT !.pc = "scan", !.claims = {Account}, !.base = base,
                            !.found = {}, !.got = {},
                            !.chain = 0, !.d = first, !.u = first]
  <2>1. Becomes(r, p)
    BY <1>3 DEF Claim
  <2>2. first \in Int
    BY OrderStarts
  <2> HIDE DEF base
  <2>3. /\ p.pc = "scan" /\ p.found = {} /\ p.got = {} /\ p.chain = 0
        /\ p.d = first /\ p.u = first /\ p.order = q.order /\ p.scheme = q.scheme
    BY DEF RequestType
  <2>4. first <= first /\ q.order.start - 1 = first
    BY <2>2
  <2> HIDE DEF p, first
  <2>5. req'[r] = p /\ \A x \in Actors \ {r} : req'[x] = req[x]
    BY <1>1, <2>1, BecomesIs
  <2>6. Bounded({})
    BY DEF Bounded
  <2>7. ASSUME NEW h, NEW as, NEW ad, NEW own, NEW mine,
               h # NoRow => h.scheme = q.scheme,
               \A c \in Chains : Derived(q.scheme, c, 0, q.order.start - 1) \subseteq as
        PROVE  Good(r, p, h, as, ad, own, mine)
    <3>1. Scanned(p, as \cup p.found)
      BY <2>3, <2>4, <2>7 DEF Scanned, Chains
    <3>2. OfScheme(p, h)
      BY <2>3, <2>7 DEF OfScheme
    <3> QED BY <2>3, <2>6, <3>1, <3>2 DEF Good, PrepSteps, StoreSteps, TrackSteps
  <2> QED BY <1>3, <2>5, <2>7
<1> QED BY <1>2, <1>3

LEMMA FirstAddressesReady ==
    ASSUME NEW s \in Schemes
    PROVE  /\ \A a \in FirstAddresses(s) : SchemeOf(a) = s /\ Upto(a) \subseteq FirstAddresses(s)
           /\ Bounded(FirstAddresses(s))
<1> DEFINE D(c) == Derived(s, c, 0, Gap[c] - 1)
<1>1. Gap[0] \in Nat /\ Gap[1] \in Nat
  BY ImportAssumption DEF Chains
<1>2. FirstAddresses(s) = D(0) \cup D(1)
  BY DEF FirstAddresses, Chains
<1>3. ASSUME NEW c \in Chains, NEW a \in D(c)
      PROVE  SchemeOf(a) = s /\ Upto(a) \subseteq D(c)
  <2>1. Gap[c] - 1 \in Int
    BY <1>1 DEF Chains
  <2>2. SchemeOf(a) = s /\ ChainOf(a) = c /\ IndexOf(a) \in Int /\ IndexOf(a) <= Gap[c] - 1
    BY <2>1, DerivedParts
  <2>3. Derived(s, c, 0, IndexOf(a)) \subseteq D(c)
    BY <2>1, <2>2, DerivedMonotone
  <2> QED BY <2>2, <2>3 DEF Upto
<1>4. D(0) \in SUBSET Address /\ D(1) \in SUBSET Address
  BY DerivedTyped DEF Chains
<1>5. Bounded(D(0)) /\ Bounded(D(1))
  BY <1>1, DerivedBounded
<1> HIDE DEF D
<1>6. Bounded(D(0) \cup D(1))
  BY <1>4, <1>5, BoundedUnion
<1> QED BY <1>2, <1>3, <1>6 DEF Chains

LEMMA ProceedGood ==
    ASSUME ReqTyped, NEW r \in Requests, NEW q \in RequestType, Proceed(r, q),
           q.order.kind # "rescan", q.got = {}
    PROVE  /\ \A h, as, ad, own, mine :
                (h # NoRow => h.scheme = q.scheme) => Good(r, req'[r], h, as, ad, own, mine)
           /\ \A x \in Actors \ {r} : req'[x] = req[x]
<1>1. r \in Actors /\ q.scheme \in Schemes
  BY DEF Actors, RequestType
<1>2. CASE q.order.kind = "new"
  <2> DEFINE first == FirstAddresses(q.scheme)
             p == [q EXCEPT !.pc = "ensure", !.found = first]
  <2>1. Becomes(r, p)
    BY <1>2 DEF Proceed
  <2>2. /\ \A a \in first : SchemeOf(a) = q.scheme /\ Upto(a) \subseteq first
        /\ Bounded(first)
    BY <1>1, FirstAddressesReady
  <2> HIDE DEF first
  <2>3. p.pc = "ensure" /\ p.found = first /\ p.got = {} /\ p.scheme = q.scheme
    BY DEF RequestType
  <2> HIDE DEF p
  <2>4. req'[r] = p /\ \A x \in Actors \ {r} : req'[x] = req[x]
    BY <1>1, <2>1, BecomesIs
  <2>5. ASSUME NEW h, NEW as, NEW ad, NEW own, NEW mine, h # NoRow => h.scheme = q.scheme
        PROVE  Good(r, p, h, as, ad, own, mine)
    <3>1. OfScheme(p, h) /\ Ready(p, as \cup p.found)
      BY <2>2, <2>3, <2>5 DEF OfScheme, Ready
    <3> QED BY <2>2, <2>3, <3>1 DEF Good, PrepSteps, StoreSteps, TrackSteps
  <2> QED BY <2>4, <2>5
<1>3. CASE q.order.kind # "new"
  <2>1. Claim(r, q)
    BY <1>3 DEF Proceed
  <2>2. q.order.start - 1 = -1
    BY OrderStarts
  <2>3. \A c : Derived(q.scheme, c, 0, q.order.start - 1) = {}
    BY <2>2 DEF Derived
  <2> QED BY <2>1, <2>3, ClaimGood
<1> QED BY <1>2, <1>3

LEMMA DeletedGood ==
    ASSUME ReqTyped, NEW r \in Requests, Deleted(r),
           req[r].order.kind # "rescan", req[r].got = {}
    PROVE  /\ \A h, as, ad, own, mine :
                (h # NoRow => h.scheme = req[r].scheme)
                   => Good(r, req'[r], h, as, ad, own, mine)
           /\ \A x \in Actors \ {r} : req'[x] = req[x]
<1>1. r \in Actors /\ req[r] \in RequestType
  BY DEF Actors, ReqTyped
<1>2. CASE req[r].order.kind = "delete"
  BY <1>1, <1>2, AnswerGood DEF Deleted
<1>3. CASE req[r].order.kind # "delete"
  BY <1>1, <1>3, ProceedGood DEF Deleted
<1> QED BY <1>2, <1>3

-----------------------------------------------------------------------------
(* The steps, each with what it leaves to the others.                      *)

LEMMA GotoIs ==
    ASSUME ReqTyped, NEW r \in Actors, NEW pc, Goto(r, pc)
    PROVE  /\ req'[r].pc = pc /\ req'[r].order = req[r].order
           /\ req'[r].scheme = req[r].scheme /\ req'[r].chain = req[r].chain
           /\ req'[r].d = req[r].d /\ req'[r].u = req[r].u
           /\ req'[r].found = req[r].found /\ req'[r].got = req[r].got
           /\ req'[r].claims = req[r].claims /\ req'[r].base = req[r].base
           /\ \A x \in Actors \ {r} : req'[x] = req[x]
<1> DEFINE p == [req[r] EXCEPT !.pc = pc]
<1>1. req[r] \in RequestType
  BY DEF ReqTyped
<1>2. /\ p.pc = pc /\ p.order = req[r].order /\ p.scheme = req[r].scheme
      /\ p.chain = req[r].chain /\ p.d = req[r].d /\ p.u = req[r].u
      /\ p.found = req[r].found /\ p.got = req[r].got
      /\ p.claims = req[r].claims /\ p.base = req[r].base
  BY <1>1 DEF RequestType
<1>3. Becomes(r, p)
  BY DEF Goto
<1> HIDE DEF p
<1>4. req'[r] = p /\ \A x \in Actors \ {r} : req'[x] = req[x]
  BY <1>3, BecomesIs
<1> QED BY <1>2, <1>4

(* The others keep what they know where the tables only grow, ...          *)
LEMMA OthersKept ==
    ASSUME TasksGood, NEW r \in Actors,
           \A x \in Actors \ {r} : req'[x] = req[x],
           \A x \in Actors \ {r} : x \in accountId => x \in accountId',
           \A x \in Actors \ {r} : addrIds[x] \subseteq addrIds'[x],
           hd' # NoRow => hd # NoRow /\ hd'.scheme = hd.scheme,
           rows \subseteq rows', addrs \subseteq addrs'
    PROVE  \A x \in Actors \ {r} :
             Good(x, req'[x], hd', rows', addrs', accountId', addrIds'[x])
<1> TAKE x \in Actors \ {r}
<1>1. Good(x, req[x], hd, rows, addrs, accountId, addrIds[x])
  BY DEF TasksGood
<1>2. Good(x, req[x], hd', rows', addrs', accountId', addrIds'[x])
  BY <1>1, GoodGrows
<1> QED BY <1>2

(* ... and where nobody else runs nothing is said of them.                 *)
LEMMA OthersRest ==
    ASSUME TasksGood, NEW r \in Actors, ~Disturbs(r),
           \A x \in Actors \ {r} : req'[x] = req[x]
    PROVE  \A x \in Actors \ {r} :
             Good(x, req'[x], hd', rows', addrs', accountId', addrIds'[x])
<1> TAKE x \in Actors \ {r}
<1>1. Good(x, req[x], hd, rows, addrs, accountId, addrIds[x])
  BY DEF TasksGood
<1>2. req[x].pc \in {"idle", "done"}
  BY DEF Disturbs, Running
<1>3. Good(x, req[x], hd', rows', addrs', accountId', addrIds'[x])
  BY <1>1, <1>2, GoodAtRest
<1> QED BY <1>3

TasksGoodNext ==
    \A x \in Actors : Good(x, req'[x], hd', rows', addrs', accountId', addrIds'[x])

(* Where the tables stay as they are.                                      *)
LEMMA TablesKept ==
    ASSUME IInv, TasksGood, NEW r \in Actors,
           \A x \in Actors \ {r} : req'[x] = req[x],
           UNCHANGED <<hd, rows, accountId>>, addrs \subseteq addrs',
           \A x \in Actors \ {r} : addrIds'[x] = addrIds[x],
           Good(r, req'[r], hd, rows, addrs', accountId, addrIds'[r])
    PROVE  TasksGoodNext
<1>1. \A x \in Actors \ {r} :
        Good(x, req'[x], hd', rows', addrs', accountId', addrIds'[x])
  BY OthersKept
<1> QED BY <1>1 DEF TasksGoodNext

LEMMA NoRowsGood ==
    ASSUME NEW h, NEW os
    PROVE  RowsGood(h, {}, os)
BY DEF RowsGood, Closed, Bounded

(* The steps before the import.                                            *)
LEMMA PrepGood ==
    ASSUME IInv, TasksGood, RowsGood(hd, rows, outs), ~exposed', NEW r \in Requests,
           \/ Exists(r) \/ WasLocked(r) \/ Check(r)
           \/ DeleteId(r) \/ DeleteAddrs(r) \/ DeleteRow(r) \/ RescanAccount(r)
    PROVE  TasksGoodNext /\ RowsGood(hd', rows', outs')
<1>1. r \in Actors /\ ReqTyped /\ req[r] \in RequestType
  BY Request DEF Actors, IInv, TypeOK, ReqTyped
<1>2. Good(r, req[r], hd, rows, addrs, accountId, addrIds[r])
  BY <1>1 DEF TasksGood
<1>3. req[r].pc \in PrepSteps => req[r].order.kind # "rescan" /\ req[r].got = {}
  BY <1>2 DEF Good
<1> USE DEF ids, tables
<1>4. CASE Exists(r)
  <2>1. UNCHANGED <<tables, ids>> /\ req[r].pc = "exists"
          /\ (Answer(r, req[r], "ok") \/ Goto(r, "wasLocked"))
    BY <1>4 DEF Exists, At
  <2>2. Good(r, req'[r], hd, rows, addrs, accountId, addrIds[r])
          /\ \A x \in Actors \ {r} : req'[x] = req[x]
    BY <1>1, <1>3, <2>1, AnswerGood, GotoIs, GoodPrep DEF PrepSteps
  <2> QED BY <1>1, <2>1, <2>2, TablesKept
<1>5. CASE WasLocked(r)
  <2> DEFINE p == [req[r] EXCEPT !.pc = "check", !.relock = hd # NoRow /\ hd.locked]
  <2>1. UNCHANGED <<tables, ids>> /\ req[r].pc = "wasLocked" /\ Becomes(r, p)
    BY <1>5 DEF WasLocked, At
  <2>2. p.pc = "check" /\ p.order = req[r].order /\ p.got = req[r].got
    BY <1>1 DEF RequestType
  <2> HIDE DEF p
  <2>3. req'[r] = p /\ \A x \in Actors \ {r} : req'[x] = req[x]
    BY <1>1, <2>1, BecomesIs
  <2>4. Good(r, req'[r], hd, rows, addrs, accountId, addrIds[r])
    BY <1>3, <2>1, <2>2, <2>3, GoodPrep DEF PrepSteps
  <2> QED BY <1>1, <2>1, <2>3, <2>4, TablesKept
<1>6. CASE Check(r)
  <2>1. UNCHANGED <<tables, ids>> /\ req[r].pc = "check"
    BY <1>6 DEF Check, At
  <2>2. Good(r, req'[r], hd, rows, addrs, accountId, addrIds[r])
          /\ \A x \in Actors \ {r} : req'[x] = req[x]
    <3>1. CASE hd = NoRow \/ hd.scheme = req[r].scheme
      <4>1. Proceed(r, req[r])
        BY <1>6, <3>1 DEF Check
      <4> QED BY <1>1, <1>3, <2>1, <3>1, <4>1, ProceedGood DEF PrepSteps
    <3>2. CASE hd # NoRow /\ hd.scheme # req[r].scheme
      <4>1. Answer(r, req[r], "locked") \/ Goto(r, "deleteId")
        BY <1>6, <3>2 DEF Check
      <4> QED BY <1>1, <1>3, <2>1, <4>1, AnswerGood, GotoIs, GoodPrep DEF PrepSteps
    <3> QED BY <3>1, <3>2
  <2> QED BY <1>1, <2>1, <2>2, TablesKept
<1>7. CASE DeleteId(r)
  <2>1. UNCHANGED <<tables, ids>> /\ req[r].pc = "deleteId"
    BY <1>7 DEF DeleteId, At
  <2>2. (hd = NoRow /\ Deleted(r)) \/ Goto(r, "deleteAddrs")
    BY <1>7 DEF DeleteId
  <2>3. Good(r, req'[r], hd, rows, addrs, accountId, addrIds[r])
          /\ \A x \in Actors \ {r} : req'[x] = req[x]
    BY <1>1, <1>3, <2>1, <2>2, DeletedGood, GotoIs, GoodPrep DEF PrepSteps
  <2> QED BY <1>1, <2>1, <2>3, TablesKept
<1>8. CASE DeleteAddrs(r)
  <2>1. req[r].pc = "deleteAddrs" /\ Goto(r, "deleteRow") /\ rows' = {} /\ ~Disturbs(r)
    BY <1>8 DEF DeleteAddrs, At
  <2>2. Good(r, req'[r], hd', rows', addrs', accountId', addrIds'[r])
          /\ \A x \in Actors \ {r} : req'[x] = req[x]
    BY <1>1, <1>3, <2>1, GotoIs, GoodPrep DEF PrepSteps
  <2>3. RowsGood(hd', rows', outs')
    BY <2>1, NoRowsGood
  <2> QED BY <1>1, <2>1, <2>2, <2>3, OthersRest DEF TasksGoodNext
<1>9. CASE DeleteRow(r)
  <2>1. /\ req[r].pc = "deleteRow" /\ Deleted(r) /\ rows' = {} /\ hd' = NoRow
        /\ ~Disturbs(r)
    BY <1>9 DEF DeleteRow, At
  <2>2. Good(r, req'[r], hd', rows', addrs', accountId', addrIds'[r])
          /\ \A x \in Actors \ {r} : req'[x] = req[x]
    BY <1>1, <1>3, <2>1, DeletedGood DEF PrepSteps
  <2>3. RowsGood(hd', rows', outs')
    BY <2>1, NoRowsGood
  <2> QED BY <1>1, <2>1, <2>2, <2>3, OthersRest DEF TasksGoodNext
<1>10. CASE RescanAccount(r)
  <2>1. UNCHANGED <<tables, ids>>
    BY <1>10 DEF RescanAccount
  <2>2. Good(r, req'[r], hd, rows, addrs, accountId, addrIds[r])
          /\ \A x \in Actors \ {r} : req'[x] = req[x]
    <3>1. CASE hd = NoRow
      BY <1>1, <1>10, <3>1, AnswerGood DEF RescanAccount
    <3>2. CASE hd # NoRow
      <4> DEFINE q == [req[r] EXCEPT !.scheme = hd.scheme, !.locked = hd.locked]
      <4>1. hd.scheme \in Schemes /\ hd.locked \in BOOLEAN
        BY <3>2 DEF IInv, TypeOK
      <4>2. q \in RequestType /\ q.scheme = hd.scheme /\ q.order = req[r].order
        BY <1>1, <4>1 DEF RequestType
      <4>3. /\ Claim(r, q)
            /\ ~(Account \notin importing /\ LeavesHole(hd.scheme, req[r].order.start))
        BY <1>10, <3>2 DEF RescanAccount
      <4> HIDE DEF q
      <4>4. Account \notin importing =>
              \A c \in Chains : Derived(q.scheme, c, 0, q.order.start - 1) \subseteq rows
        BY <4>2, <4>3 DEF LeavesHole
      <4> QED BY <1>1, <4>2, <4>3, <4>4, ClaimGood
    <3> QED BY <3>1, <3>2
  <2> QED BY <1>1, <2>1, <2>2, TablesKept
<1> QED BY <1>4, <1>5, <1>6, <1>7, <1>8, <1>9, <1>10

(* A level of the scan has no hole, and what comes before it neither; the  *)
(* gap is then ahead of every address of the chain up to u.                *)
LEMMA LevelGood ==
    ASSUME NEW q \in RequestType, NEW as, NEW h, Scanned(q, as \cup q.found), OfScheme(q, h)
    PROVE  LET R == as \cup (q.found \cup Level(q))
           IN  /\ \A a \in q.found \cup Level(q) : SchemeOf(a) = q.scheme /\ Upto(a) \subseteq R
               /\ Derived(q.scheme, q.chain, 0, q.u + Gap[q.chain]) \subseteq R
               /\ \A a \in Level(q) : /\ ChainOf(a) = q.chain
                                      /\ q.d + 1 <= IndexOf(a)
                                      /\ IndexOf(a) <= q.u + Gap[q.chain]
               /\ \A a \in q.got : ChainOf(a) = q.chain /\ IndexOf(a) <= q.u
                                      => Ahead(a) \subseteq R
               /\ Level(q) \in SUBSET Address /\ Bounded(Level(q))
<1> DEFINE s == q.scheme
           c == q.chain
           to == q.u + Gap[q.chain]
           R == as \cup (q.found \cup Level(q))
<1>1. /\ s \in Schemes /\ c \in Chains /\ q.d \in Int /\ q.u \in Int
      /\ q.got \in SUBSET Address /\ q.found \in SUBSET Address
  BY DEF RequestType
<1>2. Gap[c] \in Nat
  BY <1>1, ImportAssumption
<1>3. to \in Int /\ q.d + 1 \in Int
  BY <1>1, <1>2
<1>4. Level(q) = Derived(s, c, q.d + 1, to)
  BY DEF Level
<1>5. Derived(s, c, 0, q.d) \subseteq as \cup q.found
  BY DEF Scanned
<1>6. Derived(s, c, 0, to) \subseteq R
  <2> SUFFICES ASSUME NEW a \in Derived(s, c, 0, to) PROVE a \in R
    OBVIOUS
  <2>1. a = <<s, c, IndexOf(a)>> /\ IndexOf(a) \in Nat /\ IndexOf(a) <= to
    BY <1>3, DerivedParts
  <2>2. CASE IndexOf(a) <= q.d
    <3>1. a \in Derived(s, c, 0, q.d)
      BY <1>1, <2>1, <2>2, DerivedParts
    <3> QED BY <1>5, <3>1
  <2>3. CASE q.d + 1 <= IndexOf(a)
    <3>1. a \in Derived(s, c, q.d + 1, to)
      BY <1>3, <2>1, <2>3, DerivedParts
    <3> QED BY <1>4, <3>1
  <2>4. IndexOf(a) <= q.d \/ q.d + 1 <= IndexOf(a)
    BY <1>1, <2>1
  <2> QED BY <2>2, <2>3, <2>4
<1>7. \A a \in Level(q) : /\ SchemeOf(a) = s /\ ChainOf(a) = c /\ IndexOf(a) \in Nat
                          /\ q.d + 1 <= IndexOf(a) /\ IndexOf(a) <= to
  BY <1>3, <1>4, DerivedParts
<1>8. \A a \in Level(q) : Upto(a) \subseteq R
  <2> SUFFICES ASSUME NEW a \in Level(q) PROVE Upto(a) \subseteq R
    OBVIOUS
  <2>1. IndexOf(a) \in Int /\ IndexOf(a) <= to /\ Upto(a) = Derived(s, c, 0, IndexOf(a))
    BY <1>7 DEF Upto
  <2>2. Derived(s, c, 0, IndexOf(a)) \subseteq Derived(s, c, 0, to)
    BY <1>3, <2>1, DerivedMonotone
  <2> QED BY <1>6, <2>1, <2>2
<1>9. \A a \in q.found : SchemeOf(a) = s /\ Upto(a) \subseteq R
  BY DEF Scanned, OfScheme
<1>10. ASSUME NEW a \in q.got, ChainOf(a) = c, IndexOf(a) <= q.u
       PROVE  Ahead(a) \subseteq R
  <2>1. IndexOf(a) \in Nat /\ SchemeOf(a) = s
    BY <1>1, AddressParts DEF OfScheme
  <2>2. Ahead(a) = Derived(s, c, IndexOf(a), IndexOf(a) + Gap[c])
    BY <1>10, <2>1 DEF Ahead
  <2>3. IndexOf(a) + Gap[c] \in Int /\ IndexOf(a) + Gap[c] <= to /\ 0 <= IndexOf(a)
    BY <1>1, <1>2, <1>10, <2>1
  <2>4. Derived(s, c, IndexOf(a), IndexOf(a) + Gap[c]) \subseteq Derived(s, c, 0, to)
    BY <1>3, <2>1, <2>3, DerivedMonotone
  <2> QED BY <1>6, <2>2, <2>4
<1>11. Level(q) \in SUBSET Address /\ Bounded(Level(q))
  BY <1>1, <1>3, <1>4, DerivedTyped, DerivedBounded
<1> QED BY <1>6, <1>7, <1>8, <1>9, <1>10, <1>11

LEMMA ScanKeepsGood ==
    ASSUME IInv, TasksGood, NEW r \in Requests, NEW answered \in BOOLEAN,
           NEW fetched \in BOOLEAN, Scan(r, answered, fetched)
    PROVE  TasksGoodNext
<1> DEFINE q == req[r]
           G == Gap[q.chain]
           A == Level(q)
           hits == IF answered THEN A \cap used ELSE {}
           found == q.found \cup A
           got == IF fetched THEN q.got \cup hits ELSE q.got
           more == [q EXCEPT !.found = @ \cup A,
                             !.got = IF fetched THEN @ \cup hits ELSE @]
           deeper(last) == [more EXCEPT !.d = q.u + G, !.u = IndexOf(last)]
           other == [more EXCEPT !.chain = 1, !.d = q.order.start - 1,
                                 !.u = q.order.start - 1]
           end == [more EXCEPT !.pc = "ensure"]
           R == rows \cup found
<1>1. r \in Actors /\ q \in RequestType /\ ReqTyped
  BY Request DEF Actors, IInv, TypeOK, ReqTyped
<1>2. Good(r, q, hd, rows, addrs, accountId, addrIds[r]) /\ q.pc = "scan"
  BY <1>1 DEF TasksGood, Scan, At
<1>3. OfScheme(q, hd) /\ Scanned(q, rows \cup q.found) /\ Bounded(q.found)
  BY <1>2 DEF Good, DeriveSteps
<1>4. \/ \E last \in hits : /\ \A a \in hits : IndexOf(a) <= IndexOf(last)
                            /\ Becomes(r, deeper(last))
      \/ hits = {} /\ q.chain = 0 /\ Becomes(r, other)
      \/ hits = {} /\ q.chain = 1 /\ Becomes(r, end)
  BY DEF Scan
<1>5. /\ more.found = found /\ more.got = got /\ more.pc = "scan" /\ more.chain = q.chain
      /\ more.scheme = q.scheme /\ more.order = q.order /\ more.d = q.d /\ more.u = q.u
      /\ DOMAIN more = DOMAIN q
  BY <1>1, <1>2 DEF RequestType
<1>6. /\ \A a \in found : SchemeOf(a) = q.scheme /\ Upto(a) \subseteq R
      /\ Derived(q.scheme, q.chain, 0, q.u + G) \subseteq R
      /\ \A a \in A : /\ ChainOf(a) = q.chain /\ q.d + 1 <= IndexOf(a)
                      /\ IndexOf(a) <= q.u + G
      /\ \A a \in q.got : ChainOf(a) = q.chain /\ IndexOf(a) <= q.u => Ahead(a) \subseteq R
      /\ A \in SUBSET Address /\ Bounded(A)
  BY <1>1, <1>3, LevelGood
<1>7. /\ q.scheme \in Schemes /\ q.chain \in Chains /\ q.d \in Int /\ q.u \in Int
      /\ q.got \in SUBSET Address /\ q.found \in SUBSET Address
      /\ q.order.start - 1 \in Int
  BY <1>1, OrderStarts DEF RequestType
<1>8. G \in Nat
  BY <1>7, ImportAssumption
<1>9. hits \subseteq A /\ got \subseteq q.got \cup hits /\ A \subseteq found
  OBVIOUS
<1>10. Bounded(found)
  BY <1>3, <1>6, <1>7, BoundedUnion
<1>11. \A a \in q.got : SchemeOf(a) = q.scheme
  BY <1>3 DEF OfScheme
<1>12. hd # NoRow => hd.scheme = q.scheme
  BY <1>3 DEF OfScheme
<1>13. /\ q.order.start - 1 <= q.u /\ q.u <= q.d
       /\ q.chain = 0 => /\ Derived(q.scheme, 1, 0, q.order.start - 1) \subseteq rows \cup q.found
                         /\ \A a \in q.got : ChainOf(a) = 0
       /\ \A a \in q.got : \/ ChainOf(a) = q.chain /\ IndexOf(a) <= q.u
                           \/ Ahead(a) \subseteq rows \cup q.found
  BY <1>3 DEF Scanned
<1>14. more \in [DOMAIN q -> UNION {{more[f]} : f \in DOMAIN q}]
  BY <1>1 DEF RequestType
<1> HIDE DEF more, found, got, hits, A, G, q, R
<1>15. rows \cup q.found \subseteq R /\ rows \cup found = R
  BY DEF R, found
(* What is left to show of the locals it goes on with. *)
<1>16. ASSUME NEW p, Becomes(r, p), p.found = found, p.got = got,
              p.scheme = q.scheme, p.order = q.order,
              \/ p.pc = "scan" /\ Scanned(p, R)
              \/ p.pc = "ensure" /\ Ready(p, R)
       PROVE  TasksGoodNext
  <2>1. req'[r] = p /\ \A x \in Actors \ {r} : req'[x] = req[x]
    BY <1>1, <1>16, BecomesIs
  <2>2. OfScheme(p, hd)
    BY <1>6, <1>9, <1>11, <1>12, <1>16 DEF OfScheme
  <2>3. \A mine : Good(r, p, hd, rows, addrs, accountId, mine)
    BY <1>10, <1>15, <1>16, <2>2 DEF Good, PrepSteps, StoreSteps, TrackSteps
  <2>4. UNCHANGED <<tables, ids>>
    BY DEF Scan
  <2> QED BY <1>1, <2>1, <2>3, <2>4, TablesKept DEF tables, ids
<1>17. ASSUME NEW last \in hits, \A a \in hits : IndexOf(a) <= IndexOf(last),
              Becomes(r, deeper(last))
       PROVE  TasksGoodNext
  <2> DEFINE p == deeper(last)
  <2>1. /\ p.found = found /\ p.got = got /\ p.scheme = q.scheme /\ p.order = q.order
        /\ p.pc = "scan" /\ p.chain = q.chain /\ p.d = q.u + G /\ p.u = IndexOf(last)
    <3>1. q \in RequestType
      BY <1>1 DEF q
    <3> QED BY <1>5, <1>14, <3>1 DEF RequestType
  <2> HIDE DEF p, deeper
  <2>2. IndexOf(last) \in Nat /\ q.d + 1 <= IndexOf(last) /\ IndexOf(last) <= q.u + G
    BY <1>6, <1>9, AddressParts
  <2>3. q.order.start - 1 <= IndexOf(last) /\ q.u <= IndexOf(last)
    BY <1>7, <1>13, <2>2
  <2>4. \A a \in got : \/ ChainOf(a) = q.chain /\ IndexOf(a) <= IndexOf(last)
                       \/ Ahead(a) \subseteq R
    <3> SUFFICES ASSUME NEW a \in got, ~(Ahead(a) \subseteq R)
                 PROVE  ChainOf(a) = q.chain /\ IndexOf(a) <= IndexOf(last)
      OBVIOUS
    <3>1. CASE a \in q.got
      <4>1. ChainOf(a) = q.chain /\ IndexOf(a) <= q.u
        BY <1>13, <1>15, <3>1
      <4>2. IndexOf(a) \in Nat
        BY <1>7, <3>1, AddressParts
      <4> QED BY <1>7, <2>2, <2>3, <4>1, <4>2
    <3>2. CASE a \in hits
      BY <1>6, <1>9, <1>17, <3>2
    <3> QED BY <1>9, <3>1, <3>2
  <2>5. q.chain = 0 => /\ Derived(q.scheme, 1, 0, q.order.start - 1) \subseteq R
                       /\ \A a \in got : ChainOf(a) = 0
    BY <1>6, <1>9, <1>13, <1>15
  <2>6. Scanned(p, R)
    BY <1>6, <2>1, <2>2, <2>3, <2>4, <2>5 DEF Scanned
  <2> QED BY <1>16, <1>17, <2>1, <2>6 DEF p
<1>18. ASSUME hits = {}, q.chain = 0, Becomes(r, other) PROVE TasksGoodNext
  <2>1. /\ other.found = found /\ other.got = got /\ other.scheme = q.scheme
        /\ other.order = q.order /\ other.pc = "scan" /\ other.chain = 1
        /\ other.d = q.order.start - 1 /\ other.u = q.order.start - 1
    <3>1. q \in RequestType
      BY <1>1 DEF q
    <3> QED BY <1>5, <1>14, <3>1 DEF RequestType
  <2> HIDE DEF other
  <2>2. \A a \in got : Ahead(a) \subseteq R
    BY <1>6, <1>9, <1>13, <1>15, <1>18
  <2>3. q.order.start - 1 <= q.order.start - 1
    BY <1>7
  <2>4. Derived(q.scheme, 1, 0, q.order.start - 1) \subseteq R
    BY <1>13, <1>15, <1>18
  <2>5. Scanned(other, R)
    BY <1>6, <2>1, <2>2, <2>3, <2>4 DEF Scanned
  <2> QED BY <1>16, <1>18, <2>1, <2>5
<1>19. ASSUME hits = {}, q.chain = 1, Becomes(r, end) PROVE TasksGoodNext
  <2>1. /\ end.found = found /\ end.got = got /\ end.scheme = q.scheme
        /\ end.order = q.order /\ end.pc = "ensure"
    <3>1. q \in RequestType
      BY <1>1 DEF q
    <3> QED BY <1>5, <1>14, <3>1 DEF RequestType
  <2> HIDE DEF end
  <2>2. \A a \in got : Ahead(a) \subseteq R
    BY <1>6, <1>9, <1>13, <1>15, <1>19
  <2>3. Ready(end, R)
    BY <1>6, <2>1, <2>2 DEF Ready
  <2> QED BY <1>16, <1>19, <2>1, <2>3
<1> QED BY <1>4, <1>17, <1>18, <1>19

(* ensureHDAccountId, addAddressesToHDAccount, _importTransactions: the    *)
(* addresses join the account with no hole and with the gap ahead of those *)
(* whose transactions are then stored.                                     *)
LEMMA StoreGood ==
    ASSUME IInv, TasksGood, RowsGood(hd, rows, outs), ~exposed, ~exposed', NEW r \in Actors,
           \/ EnsureSelect(r) \/ EnsureInsert(r) \/ Statement(r)
           \/ TransactionAddressesIds(r) \/ AddLoose(r)
    PROVE  TasksGoodNext /\ RowsGood(hd', rows', outs')
<1> DEFINE q == req[r]
<1>1. ReqTyped /\ TablesOK /\ q \in RequestType
  BY Split, Request DEF IInv
<1>2. Good(r, q, hd, rows, addrs, accountId, addrIds[r])
  BY DEF TasksGood
<1>3. addrIds \in [Actors -> SUBSET addrs]
  BY <1>1 DEF TablesOK
<1> USE DEF ids, tables
<1>4. CASE EnsureSelect(r)
  <2>1. /\ UNCHANGED <<tables, ids>> /\ q.pc = "ensure"
        /\ Goto(r, "insert") \/ Goto(r, "accountId")
    BY <1>4 DEF EnsureSelect, At
  <2>2. Good(r, req'[r], hd, rows, addrs, accountId, addrIds[r])
          /\ \A x \in Actors \ {r} : req'[x] = req[x]
    BY <1>1, <1>2, <2>1, GotoIs DEF Good, PrepSteps, DeriveSteps, StoreSteps,
       TrackSteps, OfScheme, Ready
  <2> QED BY <2>1, <2>2, TablesKept
<1>5. CASE EnsureInsert(r)
  <2>1. CASE hd = NoRow
    <3>1. /\ hd' = [scheme |-> q.scheme, locked |-> q.locked]
          /\ Goto(r, "accountId") /\ ~Disturbs(r)
          /\ UNCHANGED <<addrs, rows, outs, ids>> /\ q.pc = "insert"
      BY <1>5, <2>1 DEF EnsureInsert, At
    <3>2. rows = {} /\ hd'.scheme = q.scheme
      BY <1>1, <2>1, <3>1 DEF TablesOK
    <3>3. Good(r, req'[r], hd', rows', addrs', accountId', addrIds'[r])
            /\ \A x \in Actors \ {r} : req'[x] = req[x]
      BY <1>1, <1>2, <3>1, <3>2, GotoIs DEF Good, PrepSteps, DeriveSteps, StoreSteps,
         TrackSteps, OfScheme, Ready
    <3>4. \A x \in Actors \ {r} :
            Good(x, req'[x], hd', rows', addrs', accountId', addrIds'[x])
      BY <3>1, <3>3, OthersRest
    <3> QED BY <3>1, <3>2, <3>3, <3>4, NoRowsGood DEF TasksGoodNext
  <2>2. CASE hd # NoRow
    <3>1. Throw(r, q) /\ UNCHANGED tables
      BY <1>5, <2>2 DEF EnsureInsert
    <3>2. accountId' = accountId \ {r} /\ addrIds' = [addrIds EXCEPT ![r] = {}]
      BY <3>1 DEF Throw
    <3>3. Good(r, req'[r], hd', rows', addrs', accountId', addrIds'[r])
            /\ \A x \in Actors \ {r} : req'[x] = req[x]
      BY <1>1, <3>1, ThrowGood
    <3>4. \A x \in Actors \ {r} :
            Good(x, req'[x], hd', rows', addrs', accountId', addrIds'[x])
      BY <1>3, <2>2, <3>1, <3>2, <3>3, OthersKept
    <3> QED BY <3>1, <3>3, <3>4 DEF TasksGoodNext
  <2> QED BY <2>1, <2>2
<1>6. CASE AccountId(r)
  <2>1. CASE hd = NoRow
    <3>1. Throw(r, q) /\ UNCHANGED tables
      BY <1>6, <2>1 DEF AccountId
    <3>2. accountId' = accountId \ {r} /\ addrIds' = [addrIds EXCEPT ![r] = {}]
      BY <3>1 DEF Throw
    <3>3. Good(r, req'[r], hd', rows', addrs', accountId', addrIds'[r])
            /\ \A x \in Actors \ {r} : req'[x] = req[x]
      BY <1>1, <3>1, ThrowGood
    <3>4. \A x \in Actors \ {r} :
            Good(x, req'[x], hd', rows', addrs', accountId', addrIds'[x])
      BY <1>3, <2>1, <3>1, <3>2, <3>3, OthersKept
    <3> QED BY <3>1, <3>3, <3>4 DEF TasksGoodNext
  <2>2. CASE hd # NoRow
    <3>1. /\ accountId' = accountId \cup {r} /\ Goto(r, "addAddrs")
          /\ UNCHANGED <<tables, addrIds>> /\ q.pc = "accountId"
      BY <1>6, <2>2 DEF AccountId, At
    <3>2. Good(r, req'[r], hd', rows', addrs', accountId', addrIds'[r])
            /\ \A x \in Actors \ {r} : req'[x] = req[x]
      BY <1>1, <1>2, <3>1, GotoIs DEF Good, PrepSteps, DeriveSteps, StoreSteps,
         TrackSteps, OfScheme, Ready
    <3>3. \A x \in Actors \ {r} :
            Good(x, req'[x], hd', rows', addrs', accountId', addrIds'[x])
      BY <2>2, <3>1, <3>2, OthersKept
    <3> QED BY <3>1, <3>2, <3>3 DEF TasksGoodNext
  <2> QED BY <2>1, <2>2
<1>7. CASE AddAddresses(r)
  <2>1. /\ addrs' = addrs \cup q.found /\ Goto(r, "addrIds")
        /\ UNCHANGED <<hd, rows, outs, ids>> /\ q.pc = "addAddrs"
    BY <1>7 DEF AddAddresses, At
  <2>2. Good(r, req'[r], hd, rows, addrs', accountId, addrIds'[r])
          /\ \A x \in Actors \ {r} : req'[x] = req[x]
    BY <1>1, <1>2, <2>1, GotoIs DEF Good, PrepSteps, DeriveSteps, StoreSteps,
       TrackSteps, OfScheme, Ready
  <2> QED BY <2>1, <2>2, TablesKept
<1>8. CASE AddressesIds(r)
  <2>1. /\ addrIds' = [addrIds EXCEPT ![r] = @ \cup (q.found \cap addrs)]
        /\ Goto(r, "addRows") /\ UNCHANGED <<tables, accountId>> /\ q.pc = "addrIds"
    BY <1>8 DEF AddressesIds, At
  <2>2. addrIds'[r] = addrIds[r] \cup (q.found \cap addrs)
          /\ \A x \in Actors \ {r} : addrIds'[x] = addrIds[x]
    BY <1>3, <2>1
  <2>3. Good(r, req'[r], hd, rows, addrs, accountId, addrIds'[r])
          /\ \A x \in Actors \ {r} : req'[x] = req[x]
    BY <1>1, <1>2, <2>1, <2>2, GotoIs DEF Good, PrepSteps, DeriveSteps, StoreSteps,
       TrackSteps, OfScheme, Ready
  <2> QED BY <2>1, <2>2, <2>3, TablesKept
<1>9. CASE AddRows(r)
  <2>1. q.pc = "addRows"
    BY <1>9 DEF AddRows, At
  <2>2. /\ r \in accountId /\ q.found \subseteq addrIds[r] /\ OfScheme(q, hd)
        /\ Bounded(q.found) /\ Ready(q, rows \cup q.found)
    BY <1>2, <2>1 DEF Good, DeriveSteps, StoreSteps
  <2>3. /\ rows' = rows \cup q.found
        /\ (q.found \ rows) \cap outs \subseteq q.got
        /\ accountId' = accountId \ {r} /\ UNCHANGED <<hd, addrs, outs>>
        /\ \/ r = Tracker /\ Goto(r, "outputs") /\ UNCHANGED addrIds
           \/ r # Tracker /\ addrIds' = [addrIds EXCEPT ![r] = {}]
                /\ (Answer(r, q, "ok") \/ Goto(r, "txIds"))
    BY <1>9, <2>2 DEF AddRows
  <2>4. hd # NoRow
    BY <1>1, <2>2 DEF TablesOK
  <2>5. rows \in SUBSET Address /\ q.found \in SUBSET Address
    BY <1>1 DEF TablesOK, RequestType
  <2>6. RowsGood(hd, rows \cup q.found, outs)
    <3>1. Closed(rows \cup q.found)
      BY <2>2 DEF RowsGood, Closed, Ready
    <3>2. Bounded(rows \cup q.found)
      BY <2>2, <2>5, BoundedUnion DEF RowsGood
    <3>3. \A a \in rows \cup q.found : SchemeOf(a) = hd.scheme
      BY <2>2, <2>4 DEF RowsGood, OfScheme
    <3>4. \A a \in (rows \cup q.found) \cap outs : Ahead(a) \subseteq rows \cup q.found
      BY <2>2, <2>3 DEF RowsGood, Ready
    <3> QED BY <3>1, <3>2, <3>3, <3>4 DEF RowsGood
  <2>7. Good(r, req'[r], hd', rows', addrs', accountId', addrIds'[r])
          /\ \A x \in Actors \ {r} : req'[x] = req[x]
    <3>1. CASE Answer(r, q, "ok")
      BY <1>1, <3>1, AnswerGood
    <3>2. ASSUME NEW pc \in {"txIds", "outputs"}, Goto(r, pc)
          PROVE  Good(r, req'[r], hd', rows', addrs', accountId', addrIds'[r])
                   /\ \A x \in Actors \ {r} : req'[x] = req[x]
      BY <1>1, <2>2, <2>3, <3>2, GotoIs DEF Good, PrepSteps, DeriveSteps, StoreSteps,
         TrackSteps, Ready
    <3> QED BY <2>3, <3>1, <3>2
  <2>8. \A x \in Actors \ {r} : addrIds[x] \subseteq addrIds'[x]
    BY <1>3, <2>3
  <2>9. \A x \in Actors \ {r} :
          Good(x, req'[x], hd', rows', addrs', accountId', addrIds'[x])
    BY <2>3, <2>4, <2>7, <2>8, OthersKept
  <2> QED BY <2>3, <2>6, <2>7, <2>9 DEF TasksGoodNext
<1>10. CASE TransactionAddressesIds(r)
  <2>1. /\ addrIds' = [addrIds EXCEPT ![r] = q.found \cap addrs]
        /\ Goto(r, "outputs") /\ UNCHANGED <<tables, accountId>> /\ q.pc = "txIds"
    BY <1>10 DEF TransactionAddressesIds, At
  <2>2. \A x \in Actors \ {r} : addrIds'[x] = addrIds[x]
    BY <1>3, <2>1
  <2>3. Good(r, req'[r], hd, rows, addrs, accountId, addrIds'[r])
          /\ \A x \in Actors \ {r} : req'[x] = req[x]
    BY <1>1, <1>2, <2>1, GotoIs DEF Good, PrepSteps, DeriveSteps, StoreSteps,
       TrackSteps, ForLoose
  <2> QED BY <2>1, <2>2, <2>3, TablesKept
<1>11. CASE AddOutputs(r)
  <2>1. /\ q.pc = "outputs" /\ outs' = outs \cup (q.got \cap addrIds[r])
        /\ addrIds' = [addrIds EXCEPT ![r] = {}]
        /\ UNCHANGED <<hd, addrs, rows, accountId>>
        /\ ~StoredAsLoose(r, q.got \cap addrIds[r])
        /\ Answer(r, q, "none") \/ EndImport(r, q)
    BY <1>11 DEF AddOutputs, At
  <2>2. Good(r, req'[r], hd, rows, addrs', accountId, addrIds'[r])
          /\ \A x \in Actors \ {r} : req'[x] = req[x]
    BY <1>1, <2>1, AnswerGood, EndImportGood
  <2>3. \A x \in Actors \ {r} : addrIds'[x] = addrIds[x]
    BY <1>3, <2>1
  <2>4. RowsGood(hd, rows, outs')
    <3>1. ASSUME NEW a \in rows \cap (q.got \cap addrIds[r])
          PROVE  Ahead(a) \subseteq rows
      <4>1. ~ForLoose(r, q)
        BY <2>1, <3>1 DEF StoredAsLoose, ForLoose
      <4> QED BY <1>2, <2>1, <3>1, <4>1 DEF Good
    <3> QED BY <2>1, <3>1 DEF RowsGood
  <2> QED BY <2>1, <2>2, <2>3, <2>4, TablesKept
<1>12. CASE AddLoose(r)
  <2>1. /\ addrs' = addrs \cup q.found /\ Goto(r, "txIds")
        /\ UNCHANGED <<hd, rows, outs, ids>> /\ q.pc = "addLoose"
    BY <1>12 DEF AddLoose, At
  <2>2. Good(r, req'[r], hd, rows, addrs', accountId, addrIds'[r])
          /\ \A x \in Actors \ {r} : req'[x] = req[x]
    BY <1>1, <1>2, <2>1, GotoIs DEF Good, PrepSteps, DeriveSteps, StoreSteps,
       TrackSteps, ForLoose
  <2> QED BY <2>1, <2>2, TablesKept
<1> QED BY <1>4, <1>5, <1>6, <1>7, <1>8, <1>9, <1>10, <1>11, <1>12 DEF Statement

LEMMA ArriveGood ==
    ASSUME IInv, TasksGood, NEW r \in Requests, Arrive(r)
    PROVE  TasksGoodNext
<1>1. r \in Actors /\ r # Tracker /\ ReqTyped
  BY ImportAssumption DEF Actors, IInv, TypeOK, ReqTyped
<1>2. PICK o \in Orders :
        LET q == [Idle EXCEPT !.order = o, !.scheme = o.scheme]
            claims == o.keys \ importing
        IN  IF o.kind # "loose"
            THEN Becomes(r, [q EXCEPT !.pc = FirstStep(o)]) /\ UNCHANGED importing
            ELSE IF claims = {}
            THEN Answer(r, q, "ok") /\ UNCHANGED importing
            ELSE /\ importing' = importing \cup claims
                 /\ Becomes(r, [q EXCEPT !.pc = "query", !.claims = claims,
                                             !.found = claims])
  BY DEF Arrive
<1> DEFINE q == [Idle EXCEPT !.order = o, !.scheme = o.scheme]
           claims == o.keys \ importing
           first == [q EXCEPT !.pc = FirstStep(o)]
           query == [q EXCEPT !.pc = "query", !.claims = claims, !.found = claims]
<1>3. o.kind \in Kinds
  BY ImportAssumption DEF OrderType
<1>4. first.pc = FirstStep(o) /\ first.order = o /\ first.got = {}
  BY DEF Idle
<1>5. query.pc = "query" /\ query.order = o
  BY DEF Idle
<1>6. UNCHANGED <<tables, ids>>
  BY DEF Arrive
<1>7. \/ o.kind # "loose" /\ Becomes(r, first)
      \/ o.kind = "loose" /\ Answer(r, q, "ok")
      \/ o.kind = "loose" /\ Becomes(r, query)
  BY <1>2
<1> HIDE DEF first, query, q
<1>8. Good(r, req'[r], hd, rows, addrs, accountId, addrIds[r])
        /\ \A x \in Actors \ {r} : req'[x] = req[x]
  <2>1. CASE o.kind # "loose" /\ Becomes(r, first)
    <3>1. req'[r] = first /\ \A x \in Actors \ {r} : req'[x] = req[x]
      BY <1>1, <2>1, BecomesIs
    <3>2. CASE o.kind = "rescan"
      <4>1. first.pc \in FreeSteps
        BY <1>4, <3>2 DEF FirstStep, FreeSteps
      <4> QED BY <3>1, <4>1, GoodFree
    <3>3. CASE o.kind # "rescan"
      <4>1. first.pc \in PrepSteps
        BY <1>3, <1>4, <2>1, <3>3 DEF FirstStep, Kinds, PrepSteps
      <4> QED BY <1>4, <3>1, <3>3, <4>1, GoodPrep
    <3> QED BY <3>2, <3>3
  <2>2. CASE Answer(r, q, "ok")
    BY <1>1, <2>2, AnswerGood
  <2>3. CASE o.kind = "loose" /\ Becomes(r, query)
    <3>1. req'[r] = query /\ \A x \in Actors \ {r} : req'[x] = req[x]
      BY <1>1, <2>3, BecomesIs
    <3>2. Good(r, query, hd, rows, addrs, accountId, addrIds[r])
      BY <1>1, <1>5, <2>3 DEF Good, PrepSteps, DeriveSteps, StoreSteps, TrackSteps, ForLoose
    <3> QED BY <3>1, <3>2
  <2> QED BY <1>7, <2>1, <2>2, <2>3
<1> QED BY <1>1, <1>6, <1>8, TablesKept DEF tables, ids

LEMMA QueryGood ==
    ASSUME IInv, TasksGood, NEW r \in Requests, NEW answered \in BOOLEAN,
           NEW fetched \in BOOLEAN, Query(r, answered, fetched)
    PROVE  TasksGoodNext
<1>1. r \in Actors /\ r # Tracker /\ ReqTyped /\ req[r] \in RequestType
  BY ImportAssumption, Request DEF Actors, IInv, TypeOK, ReqTyped
<1>2. Good(r, req[r], hd, rows, addrs, accountId, addrIds[r]) /\ req[r].pc = "query"
  BY <1>1 DEF TasksGood, Query, At
<1>3. req[r].order.kind = "loose"
  BY <1>1, <1>2 DEF Good, ForLoose
<1>4. UNCHANGED <<tables, ids>>
  BY DEF Query
<1>5. Good(r, req'[r], hd, rows, addrs, accountId, addrIds[r])
        /\ \A x \in Actors \ {r} : req'[x] = req[x]
  <2>1. CASE ~answered
    <3>1. Goto(r, "txIds")
      BY <2>1 DEF Query
    <3> QED BY <1>1, <1>3, <3>1, GotoIs DEF Good, PrepSteps, DeriveSteps, StoreSteps,
        TrackSteps, ForLoose
  <2>2. CASE answered /\ ~fetched
    <3>1. EndImport(r, req[r])
      BY <2>2 DEF Query
    <3> QED BY <1>1, <3>1, EndImportGood
  <2>3. CASE answered /\ fetched
    <3> DEFINE p == [req[r] EXCEPT !.pc = "addLoose", !.got = req[r].found \cap used]
    <3>1. Becomes(r, p)
      BY <2>3 DEF Query
    <3>2. p.pc = "addLoose" /\ p.order = req[r].order
      BY <1>1 DEF RequestType
    <3> HIDE DEF p
    <3>3. req'[r] = p /\ \A x \in Actors \ {r} : req'[x] = req[x]
      BY <1>1, <3>1, BecomesIs
    <3> QED BY <1>1, <1>3, <3>2, <3>3 DEF Good, PrepSteps, DeriveSteps, StoreSteps,
        TrackSteps, ForLoose
  <2> QED BY <2>1, <2>2, <2>3
<1> QED BY <1>1, <1>4, <1>5, TablesKept DEF tables, ids

LEMMA LockGood ==
    ASSUME IInv, TasksGood, RowsGood(hd, rows, outs), ~exposed', NEW r \in Requests,
           \/ Signed(r) \/ LockWrite(r)
           \/ LockGet(r, "lockGet", "lockRead") \/ LockGet(r, "lockRead", "lockWrite")
    PROVE  TasksGoodNext /\ RowsGood(hd', rows', outs')
<1>1. r \in Actors /\ ReqTyped /\ req[r] \in RequestType
  BY Request DEF Actors, IInv, TypeOK, ReqTyped
<1>2. Good(r, req[r], hd, rows, addrs, accountId, addrIds[r])
  BY <1>1 DEF TasksGood
<1> USE DEF ids, tables
<1>3. CASE Signed(r)
  <2>1. /\ UNCHANGED <<tables, ids>> /\ req[r].pc = "signed"
        /\ Answer(r, req[r], "unknown") \/ Goto(r, "lockGet") \/ Goto(r, "deleteId")
    BY <1>3 DEF Signed, At
  <2>2. req[r].order.kind # "rescan" /\ req[r].got = {}
    BY <1>2, <2>1 DEF Good, PrepSteps
  <2>3. Good(r, req'[r], hd, rows, addrs, accountId, addrIds[r])
          /\ \A x \in Actors \ {r} : req'[x] = req[x]
    <3>1. CASE Answer(r, req[r], "unknown")
      BY <1>1, <3>1, AnswerGood
    <3>2. CASE Goto(r, "lockGet")
      BY <1>1, <3>2, GotoIs, GoodFree DEF FreeSteps
    <3>3. CASE Goto(r, "deleteId")
      BY <1>1, <2>2, <3>3, GotoIs, GoodPrep DEF PrepSteps
    <3> QED BY <2>1, <3>1, <3>2, <3>3
  <2> QED BY <1>1, <2>1, <2>3, TablesKept
<1>4. CASE LockWrite(r)
  <2>1. Answer(r, req[r], "ok") /\ UNCHANGED <<addrs, rows, outs, ids>>
    BY <1>4 DEF LockWrite
  <2>3. hd = NoRow => rows = {} /\ hd' = NoRow
    BY <1>4 DEF IInv, TypeOK, LockWrite
  <2>4. ASSUME hd # NoRow PROVE hd'.scheme = hd.scheme
    <3>1. hd' = [scheme |-> req[r].scheme, locked |-> LockAsked(r)]
      BY <1>4, <2>4 DEF LockWrite
    <3>2. exposed' = (exposed \/ hd.scheme # req[r].scheme)
      BY <1>4, <2>4 DEF LockWrite
    <3>3. hd.scheme = req[r].scheme
      BY <3>2
    <3> QED BY <3>1, <3>3
  <2>2. hd' # NoRow => hd # NoRow /\ hd'.scheme = hd.scheme
    BY <2>3, <2>4
  <2>5. RowsGood(hd', rows, outs)
    BY <2>3, <2>4, NoRowsGood DEF RowsGood
  <2>6. \A x \in Actors \ {r} :
          Good(x, req'[x], hd', rows', addrs', accountId', addrIds'[x])
    BY <1>1, <2>1, <2>2, AnswerGood, OthersKept
  <2>7. Good(r, req'[r], hd', rows', addrs', accountId', addrIds'[r])
    BY <1>1, <2>1, AnswerGood
  <2> QED BY <2>1, <2>5, <2>6, <2>7 DEF TasksGoodNext
<1>5. ASSUME NEW pc, NEW next \in {"lockRead", "lockWrite"}, LockGet(r, pc, next)
      PROVE  TasksGoodNext /\ RowsGood(hd', rows', outs')
  <2>1. UNCHANGED <<tables, ids>>
    BY <1>5 DEF LockGet
  <2>2. Good(r, req'[r], hd, rows, addrs, accountId, addrIds[r])
          /\ \A x \in Actors \ {r} : req'[x] = req[x]
    <3> DEFINE p == [req[r] EXCEPT !.pc = next, !.scheme = hd.scheme]
    <3>1. Answer(r, req[r], "unknown") \/ Answer(r, req[r], "ok") \/ Becomes(r, p)
      BY <1>5 DEF LockGet
    <3>2. p.pc \in FreeSteps
      BY <1>1 DEF RequestType, FreeSteps
    <3> HIDE DEF p
    <3>3. CASE Becomes(r, p)
      <4>1. req'[r] = p /\ \A x \in Actors \ {r} : req'[x] = req[x]
        BY <1>1, <3>3, BecomesIs
      <4> QED BY <3>2, <4>1, GoodFree
    <3> QED BY <1>1, <3>1, <3>3, AnswerGood
  <2> QED BY <1>1, <2>1, <2>2, TablesKept
<1> QED BY <1>3, <1>4, <1>5

(* A failure of the override leaves the tables unsettled; any other drops  *)
(* what the request was about.                                             *)
LEMMA FailGood ==
    ASSUME IInv, TasksGood, ~exposed', NEW r \in Requests, Fail(r)
    PROVE  TasksGoodNext
<1>1. r \in Actors /\ ReqTyped /\ req[r] \in RequestType
  BY Request DEF Actors, IInv, TypeOK, ReqTyped
<1>2. Good(r, req[r], hd, rows, addrs, accountId, addrIds[r])
  BY <1>1 DEF TasksGood
<1>3. addrIds \in [Actors -> SUBSET addrs]
  BY DEF IInv, TypeOK
<1>4. UNCHANGED tables
  BY DEF Fail
<1>5. CASE Throw(r, req[r])
  <2>1. accountId' = accountId \ {r} /\ addrIds' = [addrIds EXCEPT ![r] = {}]
    BY <1>5 DEF Throw
  <2>2. \A x \in Actors \ {r} : addrIds[x] \subseteq addrIds'[x]
    BY <1>3, <2>1
  <2>3. Good(r, req'[r], hd', rows', addrs', accountId', addrIds'[r])
          /\ \A x \in Actors \ {r} : req'[x] = req[x]
    BY <1>1, <1>5, ThrowGood
  <2>4. \A x \in Actors \ {r} :
          Good(x, req'[x], hd', rows', addrs', accountId', addrIds'[x])
    <3>1. hd' # NoRow => hd # NoRow /\ hd'.scheme = hd.scheme
      BY <1>4 DEF tables
    <3> QED BY <1>1, <1>4, <2>1, <2>2, <2>3, <3>1, OthersKept DEF tables
  <2> QED BY <2>3, <2>4 DEF TasksGoodNext
<1>6. CASE /\ \/ At(r, "wasLocked") /\ Goto(r, "check")
              \/ Answer(r, req[r], "ok") \/ Answer(r, req[r], "error")
           /\ UNCHANGED ids
  <2>1. Good(r, req'[r], hd, rows, addrs, accountId, addrIds[r])
          /\ \A x \in Actors \ {r} : req'[x] = req[x]
    <3>1. CASE At(r, "wasLocked") /\ Goto(r, "check")
      <4>1. req[r].order.kind # "rescan" /\ req[r].got = {}
        BY <1>2, <3>1 DEF Good, PrepSteps, At
      <4> QED BY <1>1, <3>1, <4>1, GotoIs, GoodPrep DEF PrepSteps
    <3> QED BY <1>1, <1>6, <3>1, AnswerGood
  <2> QED BY <1>1, <1>4, <1>6, <2>1, TablesKept DEF tables, ids
<1> QED BY <1>5, <1>6 DEF Fail, StatementFails

-----------------------------------------------------------------------------
(* The tracker. *)

LEMMA LeastNat ==
    ASSUME NEW S \in SUBSET Nat, S # {}
    PROVE  \E m \in S : \A n \in S : m <= n
<1>1. IsWellFoundedOn(OpToRel(<, Nat), Nat)
  BY NatLessThanWellFounded
<1>2. PICK m \in S : \A n \in S : ~(<<n, m>> \in OpToRel(<, Nat))
  BY <1>1, WFMin
<1>3. \A k, n \in Nat : k < n => <<k, n>> \in OpToRel(<, Nat)
  BY DEF OpToRel
<1>4. \A n \in S : ~(n < m)
  BY <1>2, <1>3
<1> QED BY <1>4

LEMMA MaxIs ==
    ASSUME NEW S \in SUBSET Int, S # {}, NEW n \in Int, \A i \in S : i <= n
    PROVE  Max(S) \in S /\ \A i \in S : i <= Max(S)
<1> DEFINE below == {k \in Nat : n - k \in S}
<1>1. below # {}
  <2>1. PICK i \in S : TRUE
    OBVIOUS
  <2>2. n - i \in Nat /\ n - (n - i) = i
    BY <2>1
  <2> QED BY <2>1, <2>2
<1>2. PICK m \in below : \A k \in below : m <= k
  BY <1>1, LeastNat
<1>3. n - m \in S /\ m \in Nat
  BY <1>2
<1>4. ASSUME NEW i \in S PROVE n - m >= i
  <2>1. n - i \in Nat /\ n - (n - i) = i
    BY <1>4
  <2>2. n - i \in below
    BY <1>4, <2>1
  <2>3. m <= n - i
    BY <1>2, <2>2
  <2> QED BY <1>3, <2>1, <2>3
<1>5. \E x \in S : \A y \in S : x >= y
  BY <1>3, <1>4
<1>6. Max(S) \in S /\ \A y \in S : Max(S) >= y
  BY <1>5 DEF Max
<1> QED BY <1>6

(* The next unused index is the one after an address of the chain that has *)
(* transactions, if there is any.                                          *)
LEMMA NextUnusedIs ==
    ASSUME NEW c, rows \subseteq Address, Bounded(rows)
    PROVE  /\ NextUnused(c) \in Int
           /\ \A u \in Nat : u < NextUnused(c) =>
                \E b \in rows \cap outs : ChainOf(b) = c /\ u <= IndexOf(b)
<1> DEFINE S == IndicesOn(c, rows \cap outs) \cup {-1}
<1>1. PICK n \in Nat : \A a \in rows : IndexOf(a) <= n
  BY DEF Bounded
<1>2. \A a \in rows : IndexOf(a) \in Nat /\ IndexOf(a) <= n
  BY <1>1, AddressParts
<1>3. S \in SUBSET Int /\ S # {} /\ \A i \in S : i <= n
  BY <1>2 DEF IndicesOn
<1>4. NextUnused(c) = Max(S) + 1
  BY DEF NextUnused
<1>5. S \subseteq {IndexOf(a) : a \in {b \in rows \cap outs : ChainOf(b) = c}} \cup {-1}
  BY DEF IndicesOn
<1> HIDE DEF S
<1>6. n \in Int
  OBVIOUS
<1>7. Max(S) \in S /\ Max(S) \in Int
  BY <1>3, <1>6, MaxIs
<1>8. ASSUME NEW u \in Nat, u < NextUnused(c)
      PROVE  \E b \in rows \cap outs : ChainOf(b) = c /\ u <= IndexOf(b)
  <2>1. u <= Max(S) /\ Max(S) # -1
    BY <1>4, <1>7, <1>8
  <2> QED BY <1>5, <1>7, <2>1
<1> QED BY <1>4, <1>7, <1>8

LEMMA FindGood ==
    ASSUME IInv, TasksGood, RowsGood(hd, rows, outs), NEW a \in pending, TrackerFind(a)
    PROVE  TasksGoodNext
<1>1. /\ Tracker \in Actors /\ ReqTyped /\ rows \subseteq Address /\ a \in Address
      /\ addrIds \in [Actors -> SUBSET addrs] /\ (hd = NoRow => rows = {})
  BY DEF Actors, IInv, TypeOK, ReqTyped
<1>2. UNCHANGED tables /\ UNCHANGED accountId
  BY DEF TrackerFind
<1>3. CASE a \notin addrs
  BY <1>2, <1>3 DEF TrackerFind, TasksGood, TasksGoodNext, tables
<1>4. CASE a \in addrs
  <2> DEFINE known == [Idle EXCEPT !.pc = "derived", !.scheme = hd.scheme,
                                   !.chain = ChainOf(a), !.u = IndexOf(a),
                                   !.got = {a}]
             loose == [Idle EXCEPT !.pc = "outputs", !.got = {a}]
  <2>1. addrIds' = [addrIds EXCEPT ![Tracker] = {a}]
    BY <1>4 DEF TrackerFind
  <2>2. \A x \in Actors \ {Tracker} : addrIds'[x] = addrIds[x]
    BY <1>1, <2>1
  <2>3. /\ a \in rows => Becomes(Tracker, known)
        /\ a \notin rows => Becomes(Tracker, loose)
    BY <1>4 DEF TrackerFind
  <2>4. /\ known.pc = "derived" /\ known.scheme = hd.scheme /\ known.chain = ChainOf(a)
        /\ known.u = IndexOf(a) /\ known.got = {a} /\ known.found = {}
        /\ loose.pc = "outputs" /\ loose.u = -1
    BY DEF Idle
  <2> HIDE DEF known, loose
  <2>5. a \in rows => Good(Tracker, known, hd, rows, addrs, accountId, addrIds'[Tracker])
    <3> SUFFICES ASSUME a \in rows
                 PROVE  Good(Tracker, known, hd, rows, addrs, accountId, addrIds'[Tracker])
      OBVIOUS
    <3>1. SchemeOf(a) = hd.scheme
      BY DEF RowsGood
    <3>2. a = Paid(known) /\ known.u \in Nat
      BY <1>1, <2>4, <3>1, AddressParts DEF Paid
    <3>3. OfScheme(known, hd) /\ Bounded(known.found)
      BY <2>4, <3>1 DEF OfScheme, Bounded
    <3> QED BY <2>4, <3>2, <3>3 DEF Good, PrepSteps, StoreSteps
  <2>6. Good(Tracker, loose, hd, rows, addrs, accountId, addrIds'[Tracker])
    BY <2>4 DEF Good, PrepSteps, DeriveSteps, StoreSteps, TrackSteps, ForLoose
  <2>7. Good(Tracker, req'[Tracker], hd, rows, addrs, accountId, addrIds'[Tracker])
          /\ \A x \in Actors \ {Tracker} : req'[x] = req[x]
    BY <1>1, <2>3, <2>5, <2>6, BecomesIs
  <2> QED BY <1>1, <1>2, <2>2, <2>7, TablesKept DEF tables
<1> QED BY <1>3, <1>4

LEMMA TrackerReadsGood ==
    ASSUME IInv, TasksGood, RowsGood(hd, rows, outs),
           TrackerDerived \/ TrackerUnused \/ TrackerHoles
    PROVE  TasksGoodNext
<1> DEFINE q == req[Tracker]
           s == q.scheme
           c == q.chain
           G == Gap[q.chain]
<1>1. /\ Tracker \in Actors /\ ReqTyped /\ rows \subseteq Address /\ q \in RequestType
      /\ s \in Schemes /\ c \in Chains /\ q.d \in Int
  BY Request DEF Actors, IInv, TypeOK, ReqTyped, RequestType
<1>2. Good(Tracker, q, hd, rows, addrs, accountId, addrIds[Tracker])
        /\ q.pc \in TrackSteps
  BY <1>1 DEF TasksGood, TrackerDerived, TrackerUnused, TrackerHoles, At, TrackSteps
<1>3. /\ OfScheme(q, hd) /\ q.u \in Nat /\ q.got = {Paid(q)} /\ Paid(q) \in rows
  BY <1>2 DEF Good, DeriveSteps
<1>4. G \in Nat /\ Paid(q) \in Address
  BY <1>1, <1>3, ImportAssumption
<1>5. SchemeOf(Paid(q)) = s /\ ChainOf(Paid(q)) = c /\ IndexOf(Paid(q)) = q.u
  BY DEF Paid, SchemeOf, ChainOf, IndexOf
<1>6. \A a \in rows : SchemeOf(a) = s
  <2>1. hd # NoRow
    BY <1>3 DEF IInv, TypeOK
  <2> QED BY <1>3, <2>1 DEF OfScheme, RowsGood
<1>7. UNCHANGED <<tables, ids>>
  BY DEF TrackerDerived, TrackerUnused, TrackerHoles
<1>8. Ahead(Paid(q)) = Derived(s, c, q.u, q.u + G)
  BY <1>5 DEF Ahead
(* It is enough to show what its locals then say.                          *)
<1>9. ASSUME NEW p, Good(Tracker, p, hd, rows, addrs, accountId, addrIds[Tracker]),
             req'[Tracker] = p, \A x \in Actors \ {Tracker} : req'[x] = req[x]
      PROVE  TasksGoodNext
  BY <1>1, <1>7, <1>9, TablesKept DEF tables, ids
<1>10. ASSUME Goto(Tracker, "outputs"), Derived(s, c, q.u, q.u + G) \subseteq rows
       PROVE  TasksGoodNext
  <2>1. /\ req'[Tracker].pc = "outputs" /\ req'[Tracker].got = q.got
        /\ \A x \in Actors \ {Tracker} : req'[x] = req[x]
    BY <1>1, <1>10, GotoIs
  <2>2. Good(Tracker, req'[Tracker], hd, rows, addrs, accountId, addrIds[Tracker])
    BY <1>3, <1>8, <1>10, <2>1 DEF Good, PrepSteps, DeriveSteps, StoreSteps, TrackSteps
  <2> QED BY <1>9, <2>1, <2>2
<1>11. ASSUME NEW from \in Int, Derive(q, from), Derived(s, c, 0, from - 1) \subseteq rows
       PROVE  TasksGoodNext
  <2> DEFINE to == q.u + G
             new == Derived(s, c, from, to)
             p == [q EXCEPT !.pc = "accountId", !.found = new]
  <2>1. Becomes(Tracker, p)
    BY <1>11 DEF Derive, LastNeeded
  <2>2. p.pc = "accountId" /\ p.found = new /\ p.got = q.got /\ p.scheme = s
    BY <1>1 DEF RequestType
  <2>3. to \in Int /\ from - 1 \in Int
    BY <1>3, <1>4
  <2>4. \A a \in new : /\ SchemeOf(a) = s /\ ChainOf(a) = c /\ IndexOf(a) \in Nat
                       /\ from <= IndexOf(a) /\ IndexOf(a) <= to
    BY <2>3, DerivedParts
  <2>5. Derived(s, c, 0, to) \subseteq rows \cup new
    <3> SUFFICES ASSUME NEW a \in Derived(s, c, 0, to) PROVE a \in rows \cup new
      OBVIOUS
    <3>1. a = <<s, c, IndexOf(a)>> /\ IndexOf(a) \in Nat /\ IndexOf(a) <= to
      BY <2>3, DerivedParts
    <3>2. CASE IndexOf(a) <= from - 1
      <4>1. a \in Derived(s, c, 0, from - 1)
        BY <2>3, <3>1, <3>2, DerivedParts
      <4> QED BY <1>11, <4>1
    <3>3. CASE from <= IndexOf(a)
      BY <2>3, <3>1, <3>3, DerivedParts
    <3>4. IndexOf(a) <= from - 1 \/ from <= IndexOf(a)
      BY <3>1
    <3> QED BY <3>2, <3>3, <3>4
  <2>6. Bounded(new)
    BY <2>3, DerivedBounded
  <2>7. \A a \in new : Upto(a) \subseteq rows \cup new
    <3> SUFFICES ASSUME NEW a \in new PROVE Upto(a) \subseteq rows \cup new
      OBVIOUS
    <3>1. Upto(a) = Derived(s, c, 0, IndexOf(a)) /\ IndexOf(a) \in Int /\ IndexOf(a) <= to
      BY <2>4 DEF Upto
    <3>2. Derived(s, c, 0, IndexOf(a)) \subseteq Derived(s, c, 0, to)
      BY <2>3, <3>1, DerivedMonotone
    <3> QED BY <2>5, <3>1, <3>2
  <2>8. Derived(s, c, q.u, to) \subseteq Derived(s, c, 0, to)
    BY <1>3, <2>3, DerivedMonotone
  <2>9. \A a \in p.got : Ahead(a) \subseteq rows \cup new
    BY <1>3, <1>8, <2>2, <2>5, <2>8
  <2> HIDE DEF p, new
  <2>10. Ready(p, rows \cup p.found)
    BY <2>2, <2>7, <2>9 DEF Ready
  <2>11. OfScheme(p, hd)
    BY <1>3, <2>2, <2>4 DEF OfScheme
  <2>12. Good(Tracker, p, hd, rows, addrs, accountId, addrIds[Tracker])
    BY <2>2, <2>6, <2>10, <2>11 DEF Good, PrepSteps, StoreSteps, TrackSteps
  <2>13. req'[Tracker] = p /\ \A x \in Actors \ {Tracker} : req'[x] = req[x]
    BY <1>1, <2>1, BecomesIs
  <2> QED BY <1>9, <2>12, <2>13
<1>12. CASE TrackerDerived
  <2>1. PICK last \in IndicesOn(c, rows) \cup {-1} :
          Becomes(Tracker, [q EXCEPT !.pc = "unused", !.d = last])
    BY <1>12 DEF TrackerDerived
  <2> DEFINE p == [q EXCEPT !.pc = "unused", !.d = last]
  <2>2. /\ p.pc = "unused" /\ p.d = last /\ p.scheme = s /\ p.chain = c /\ p.u = q.u
        /\ p.got = q.got /\ p.found = q.found
    BY <1>1 DEF RequestType
  <2>3. Derived(s, c, 0, last) \subseteq rows
    <3>1. CASE last = -1
      BY <3>1 DEF Derived
    <3>2. CASE last \in IndicesOn(c, rows)
      <4>1. PICK b \in rows : ChainOf(b) = c /\ IndexOf(b) = last
        BY <3>2 DEF IndicesOn
      <4>2. Upto(b) = Derived(s, c, 0, last)
        BY <1>6, <4>1 DEF Upto
      <4> QED BY <4>1, <4>2 DEF RowsGood, Closed
    <3> QED BY <3>1, <3>2
  <2> HIDE DEF p
  <2>4. req'[Tracker] = p /\ \A x \in Actors \ {Tracker} : req'[x] = req[x]
    BY <1>1, <2>1, BecomesIs DEF p
  <2>5. Paid(p) = Paid(q)
    BY <2>2 DEF Paid
  <2>6. OfScheme(p, hd) /\ Bounded(p.found)
    BY <1>2, <1>3, <2>2 DEF OfScheme, Good, DeriveSteps
  <2>7. Good(Tracker, p, hd, rows, addrs, accountId, addrIds[Tracker])
    BY <1>3, <2>2, <2>3, <2>5, <2>6 DEF Good, PrepSteps, StoreSteps
  <2> QED BY <1>9, <2>4, <2>7
<1>13. CASE TrackerUnused
  <2>6. NextUnused(c) \in Int
    BY <1>1, NextUnusedIs DEF RowsGood
  <2>1. Derived(s, c, 0, q.d) \subseteq rows
    BY <1>2, <1>13 DEF Good, TrackerUnused, At
  <2>2. CASE q.u < NextUnused(c)
    <3>1. PICK b \in rows \cap outs : ChainOf(b) = c /\ q.u <= IndexOf(b)
      BY <1>1, <1>3, <2>2, NextUnusedIs DEF RowsGood
    <3>2. IndexOf(b) \in Nat
      BY <1>1, <3>1, AddressParts
    <3>3. /\ Derived(s, c, IndexOf(b), IndexOf(b) + G) \subseteq rows
          /\ Derived(s, c, 0, IndexOf(b)) \subseteq rows
      BY <1>6, <3>1 DEF RowsGood, Closed, Ahead, Upto
    <3>4. Derived(s, c, q.u, q.u + G) \subseteq rows
      <4> SUFFICES ASSUME NEW a \in Derived(s, c, q.u, q.u + G) PROVE a \in rows
        OBVIOUS
      <4>1. q.u \in Int /\ q.u + G \in Int /\ IndexOf(b) + G \in Int
        BY <1>3, <1>4, <3>2
      <4>2. a = <<s, c, IndexOf(a)>> /\ IndexOf(a) \in Nat /\ IndexOf(a) <= q.u + G
        BY <4>1, DerivedParts
      <4>3. IndexOf(a) <= IndexOf(b) + G
        BY <1>3, <1>4, <3>1, <3>2, <4>2
      <4>4. CASE IndexOf(a) <= IndexOf(b)
        BY <3>2, <3>3, <4>2, <4>4, DerivedParts
      <4>5. CASE IndexOf(b) <= IndexOf(a)
        BY <3>2, <3>3, <4>1, <4>2, <4>3, <4>5, DerivedParts
      <4>6. IndexOf(a) <= IndexOf(b) \/ IndexOf(b) <= IndexOf(a)
        BY <3>2, <4>2
      <4> QED BY <4>4, <4>5, <4>6
    <3>5. Goto(Tracker, "outputs")
      BY <1>3, <1>13, <2>2, <2>6 DEF TrackerUnused
    <3> QED BY <1>10, <3>4, <3>5
  <2>3. CASE ~(q.u < NextUnused(c)) /\ Goto(Tracker, "holes") /\ q.d >= LastNeeded(q)
    <3>1. /\ req'[Tracker].pc = "holes" /\ req'[Tracker].got = q.got
          /\ req'[Tracker].scheme = s /\ req'[Tracker].chain = c
          /\ req'[Tracker].d = q.d /\ req'[Tracker].u = q.u
          /\ req'[Tracker].found = q.found
          /\ \A x \in Actors \ {Tracker} : req'[x] = req[x]
      BY <1>1, <2>3, GotoIs
    <3>2. q.u + G <= q.d
      BY <1>1, <1>3, <1>4, <2>3 DEF LastNeeded
    <3>3. Paid(req'[Tracker]) = Paid(q)
      BY <3>1 DEF Paid
    <3>4. OfScheme(req'[Tracker], hd) /\ Bounded(req'[Tracker].found)
      BY <1>2, <1>3, <3>1 DEF OfScheme, Good, DeriveSteps
    <3>5. Good(Tracker, req'[Tracker], hd, rows, addrs, accountId, addrIds[Tracker])
      BY <1>3, <2>1, <3>1, <3>2, <3>3, <3>4 DEF Good, PrepSteps, StoreSteps
    <3> QED BY <1>9, <3>1, <3>5
  <2>4. CASE Derive(q, q.d + 1)
    <3> DEFINE from == q.d + 1
    <3>1. from \in Int /\ from - 1 = q.d
      BY <1>1
    <3>2. Derive(q, from)
      BY <2>4
    <3> HIDE DEF from
    <3>3. Derived(s, c, 0, from - 1) \subseteq rows
      BY <2>1, <3>1
    <3> QED BY <1>11, <3>1, <3>2, <3>3
  <2>5. \/ q.u < NextUnused(c)
        \/ ~(q.u < NextUnused(c)) /\ Goto(Tracker, "holes") /\ q.d >= LastNeeded(q)
        \/ Derive(q, q.d + 1)
    BY <1>13 DEF TrackerUnused
  <2> QED BY <2>2, <2>3, <2>4, <2>5
<1>14. CASE TrackerHoles
  <2>1. Derived(s, c, 0, q.d) \subseteq rows /\ q.u + G <= q.d
    BY <1>2, <1>14 DEF Good, TrackerHoles, At
  <2>2. CASE Goto(Tracker, "outputs")
    <3>1. Derived(s, c, q.u, q.u + G) \subseteq Derived(s, c, 0, q.d)
      BY <1>1, <1>3, <1>4, <2>1, DerivedMonotone
    <3> QED BY <1>10, <2>1, <2>2, <3>1
  <2>3. CASE Derive(q, q.u + 1)
    <3> DEFINE from == q.u + 1
    <3>1. from \in Int /\ from - 1 = q.u
      BY <1>3
    <3>2. Derive(q, from)
      BY <2>3
    <3>3. Derived(s, c, 0, q.u) \subseteq rows
      BY <1>3, <1>5 DEF RowsGood, Closed, Upto
    <3> HIDE DEF from
    <3>4. Derived(s, c, 0, from - 1) \subseteq rows
      BY <3>1, <3>3
    <3> QED BY <1>11, <3>1, <3>2, <3>4
  <2>4. Goto(Tracker, "outputs") \/ Derive(q, q.u + 1)
    BY <1>14 DEF TrackerHoles
  <2> QED BY <2>2, <2>3, <2>4
<1> QED BY <1>12, <1>13, <1>14

-----------------------------------------------------------------------------
(* The invariant. *)

(* What was exposed remains so.                                            *)
LEMMA ExposedRemains ==
    ASSUME [Next]_vars, exposed
    PROVE  exposed'
<1> USE DEF history
<1>1. ASSUME NEW r \in Actors,
             EnsureSelect(r) \/ EnsureInsert(r) \/ AccountId(r) \/ AddAddresses(r)
      PROVE  exposed'
  BY <1>1 DEF EnsureSelect, EnsureInsert, AccountId, AddAddresses
<1>2. ASSUME NEW r \in Actors,
             \/ AddressesIds(r) \/ AddRows(r) \/ AddOutputs(r)
             \/ TransactionAddressesIds(r) \/ AddLoose(r)
      PROVE  exposed'
  BY <1>2 DEF AddressesIds, AddRows, AddOutputs, TransactionAddressesIds, AddLoose
<1>3. ASSUME NEW r \in Requests,
             \/ Exists(r) \/ WasLocked(r) \/ Check(r)
             \/ DeleteId(r) \/ DeleteAddrs(r) \/ DeleteRow(r) \/ RescanAccount(r)
      PROVE  exposed'
  BY <1>3 DEF Exists, WasLocked, Check, DeleteId, DeleteAddrs, DeleteRow, RescanAccount
<1>4. ASSUME NEW r \in Requests,
             \/ Signed(r) \/ LockWrite(r) \/ Arrive(r)
             \/ LockGet(r, "lockGet", "lockRead") \/ LockGet(r, "lockRead", "lockWrite")
      PROVE  exposed'
  BY <1>4 DEF Signed, LockWrite, Arrive, LockGet
<1>5. ASSUME NEW r \in Requests, NEW answered \in BOOLEAN, NEW fetched \in BOOLEAN,
             Scan(r, answered, fetched) \/ Query(r, answered, fetched)
      PROVE  exposed'
  BY <1>5 DEF Scan, Query
<1>6. ASSUME NEW r \in Requests, Fail(r) PROVE exposed'
  BY <1>6 DEF Fail, StatementFails
<1>7. CASE Track
  <2>1. Tracker \in Actors
    BY DEF Actors
  <2>2. CASE Statement(Tracker)
    BY <1>1, <1>2, <2>1, <2>2 DEF Statement
  <2> QED BY <1>7, <2>2 DEF Track, TrackerFind, TrackerDerived, TrackerUnused, TrackerHoles
<1>8. CASE TrackerFails
  BY <1>8 DEF TrackerFails, StatementFails
<1>9. ASSUME NEW a \in Payable, Pay(a) PROVE exposed'
  BY <1>9 DEF Pay
<1>10. CASE UNCHANGED vars
  BY <1>10 DEF vars
<1> QED BY <1>1, <1>2, <1>3, <1>4, <1>5, <1>6, <1>7, <1>8, <1>9, <1>10
        DEF Next, Step, Statement, Actors

LEMMA GapInvariance ==
    ASSUME IInv, GapInv, [Next]_vars
    PROVE  GapInv'
<1> SUFFICES ASSUME ~exposed' PROVE RowsGood(hd', rows', outs') /\ TasksGoodNext
  BY DEF GapInv, TasksGood, TasksGoodNext
<1>1. ~exposed
  BY ExposedRemains
<1>2. RowsGood(hd, rows, outs) /\ TasksGood
  BY <1>1 DEF GapInv
<1>3. ASSUME NEW r \in Requests, Arrive(r) \/ Step(r) \/ Fail(r)
      PROVE  RowsGood(hd', rows', outs') /\ TasksGoodNext
  <2>1. r \in Actors
    BY DEF Actors
  <2>2. CASE Arrive(r)
    <3>1. UNCHANGED tables
      BY <2>2 DEF Arrive
    <3> QED BY <1>2, <2>2, <3>1, ArriveGood DEF tables
  <2>3. CASE Fail(r)
    <3>1. UNCHANGED tables
      BY <2>3 DEF Fail
    <3> QED BY <1>2, <2>3, <3>1, FailGood DEF tables
  <2>4. ASSUME NEW answered \in BOOLEAN, NEW fetched \in BOOLEAN,
               Scan(r, answered, fetched) \/ Query(r, answered, fetched)
        PROVE  RowsGood(hd', rows', outs') /\ TasksGoodNext
    <3>1. UNCHANGED tables
      BY <2>4 DEF Scan, Query
    <3> QED BY <1>2, <2>4, <3>1, ScanKeepsGood, QueryGood DEF tables
  <2>5. CASE \/ Exists(r) \/ WasLocked(r) \/ Check(r)
             \/ DeleteId(r) \/ DeleteAddrs(r) \/ DeleteRow(r) \/ RescanAccount(r)
    BY <1>2, <2>5, PrepGood
  <2>6. CASE \/ EnsureSelect(r) \/ EnsureInsert(r) \/ Statement(r)
             \/ TransactionAddressesIds(r) \/ AddLoose(r)
    BY <1>1, <1>2, <2>1, <2>6, StoreGood
  <2>7. CASE \/ Signed(r) \/ LockWrite(r)
             \/ LockGet(r, "lockGet", "lockRead") \/ LockGet(r, "lockRead", "lockWrite")
    BY <1>2, <2>7, LockGood
  <2> QED BY <1>3, <2>2, <2>3, <2>4, <2>5, <2>6, <2>7 DEF Step
<1>4. CASE Track
  <2>1. Tracker \in Actors
    BY DEF Actors
  <2>2. ASSUME NEW a \in pending, TrackerFind(a)
        PROVE  RowsGood(hd', rows', outs') /\ TasksGoodNext
    <3>1. UNCHANGED tables
      BY <2>2 DEF TrackerFind
    <3> QED BY <1>2, <2>2, <3>1, FindGood DEF tables
  <2>3. CASE TrackerDerived \/ TrackerUnused \/ TrackerHoles
    <3>1. UNCHANGED tables
      BY <2>3 DEF TrackerDerived, TrackerUnused, TrackerHoles
    <3> QED BY <1>2, <2>3, <3>1, TrackerReadsGood DEF tables
  <2>4. CASE Statement(Tracker)
    BY <1>1, <1>2, <2>1, <2>4, StoreGood
  <2> QED BY <1>4, <2>2, <2>3, <2>4 DEF Track
<1>5. CASE TrackerFails
  <2>1. Tracker \in Actors /\ ReqTyped /\ addrIds \in [Actors -> SUBSET addrs]
    BY DEF Actors, IInv, TypeOK, ReqTyped
  <2>2. UNCHANGED tables /\ Throw(Tracker, req[Tracker])
    BY <1>5 DEF TrackerFails, StatementFails
  <2>3. accountId' = accountId \ {Tracker} /\ addrIds' = [addrIds EXCEPT ![Tracker] = {}]
    BY <2>2 DEF Throw
  <2>4. \A x \in Actors \ {Tracker} : addrIds[x] \subseteq addrIds'[x]
    BY <2>1, <2>3
  <2>5. Good(Tracker, req'[Tracker], hd', rows', addrs', accountId', addrIds'[Tracker])
          /\ \A x \in Actors \ {Tracker} : req'[x] = req[x]
    BY <2>1, <2>2, ThrowGood
  <2>6. hd' # NoRow => hd # NoRow /\ hd'.scheme = hd.scheme
    BY <2>2 DEF tables
  <2>7. \A x \in Actors \ {Tracker} :
          Good(x, req'[x], hd', rows', addrs', accountId', addrIds'[x])
    BY <1>2, <2>1, <2>2, <2>3, <2>4, <2>5, <2>6, OthersKept DEF tables
  <2> QED BY <1>2, <2>2, <2>5, <2>7 DEF TasksGoodNext, tables
<1>6. ASSUME NEW a \in Payable, Pay(a)
      PROVE  RowsGood(hd', rows', outs') /\ TasksGoodNext
  BY <1>2, <1>6 DEF Pay, tables, ids, TasksGood, TasksGoodNext
<1>7. CASE UNCHANGED vars
  BY <1>2, <1>7 DEF vars, tables, ids, TasksGood, TasksGoodNext
<1> QED BY <1>3, <1>4, <1>5, <1>6, <1>7 DEF Next

(* The addresses used when the model starts are finitely many.             *)
LEMMA FirstUsedBounded == Bounded(FirstUsed)
<1> SUFFICES ASSUME ~Bounded(FirstUsed) PROVE FALSE
  OBVIOUS
<1> DEFINE S == {Cardinality(T) : T \in {U \in SUBSET FirstUsed : ~Bounded(U)}}
<1>1. FirstUsed \in SUBSET Address /\ IsFiniteSet(FirstUsed)
  BY ImportAssumption
<1>2. \A T \in SUBSET FirstUsed : IsFiniteSet(T) /\ Cardinality(T) \in Nat
  BY <1>1, FS_Subset, FS_CardinalityType
<1>3. S \in SUBSET Nat /\ S # {}
  BY <1>2
<1>4. PICK m \in S : \A n \in S : m <= n
  BY <1>3, LeastNat
<1>5. PICK T \in SUBSET FirstUsed : ~Bounded(T) /\ Cardinality(T) = m
  BY <1>4
<1>6. PICK a \in T : TRUE
  BY <1>5 DEF Bounded
<1>7. Cardinality(T \ {a}) = Cardinality(T) - 1
  BY <1>2, <1>5, <1>6, FS_RemoveElement
<1>8. Bounded(T \ {a})
  <2>1. ASSUME ~Bounded(T \ {a}) PROVE FALSE
    <3>1. Cardinality(T \ {a}) \in S
      BY <1>5, <2>1
    <3>2. m <= Cardinality(T \ {a})
      BY <1>4, <3>1
    <3>3. m \in Nat
      BY <1>3, <1>4
    <3> QED BY <1>5, <1>7, <3>2, <3>3
  <2> QED BY <2>1
<1>9. IndexOf(a) \in Nat
  BY <1>1, <1>5, <1>6, AddressParts
<1>10. Bounded({a})
  BY <1>9 DEF Bounded
<1>11. (T \ {a}) \cup {a} = T /\ T \ {a} \in SUBSET Address /\ {a} \in SUBSET Address
  BY <1>1, <1>5, <1>6
<1>12. Bounded((T \ {a}) \cup {a})
  BY <1>8, <1>10, <1>11, BoundedUnion
<1> QED BY <1>5, <1>11, <1>12

LEMMA GapInitially ==
    ASSUME Init
    PROVE  GapInv
<1>1. TasksGood
  <2>1. Idle.pc \in PrepSteps /\ Idle.order.kind # "rescan" /\ Idle.got = {}
    BY DEF Idle, NoOrder, PrepSteps
  <2>2. \A x \in Actors : req[x] = Idle
    BY DEF Init
  <2>3. \A x \in Actors : Good(x, Idle, hd, rows, addrs, accountId, addrIds[x])
    BY <2>1, GoodPrep
  <2> QED BY <2>2, <2>3 DEF TasksGood
<1>2. CASE hd = NoRow
  BY <1>1, <1>2, NoRowsGood DEF Init, GapInv
<1>3. CASE hd # NoRow
  <2> DEFINE S(c) == IndicesOn(c, {a \in FirstUsed : SchemeOf(a) = DefaultScheme}) \cup {-1}
             D(c) == Derived(DefaultScheme, c, 0, Max(S(c)) + Gap[c])
  <2>1. rows = UNION {D(c) : c \in Chains} /\ outs = rows \cap FirstUsed
    BY <1>3 DEF Init
  <2>2. hd.scheme = DefaultScheme
    BY <1>3 DEF Init, FirstRow
  <2>3. PICK n \in Nat : \A a \in FirstUsed : IndexOf(a) <= n
    BY FirstUsedBounded DEF Bounded
  <2>4. \A a \in FirstUsed : IndexOf(a) \in Nat /\ IndexOf(a) <= n
    BY <2>3, ImportAssumption, AddressParts
  <2>5. ASSUME NEW c \in Chains
        PROVE  /\ Max(S(c)) \in Int
               /\ \A a \in FirstUsed : SchemeOf(a) = DefaultScheme /\ ChainOf(a) = c
                                         => IndexOf(a) <= Max(S(c))
    <3>1. S(c) \in SUBSET Int /\ S(c) # {} /\ \A i \in S(c) : i <= n
      BY <2>4 DEF IndicesOn
    <3>2. \A a \in FirstUsed : SchemeOf(a) = DefaultScheme /\ ChainOf(a) = c
                                 => IndexOf(a) \in S(c)
      BY DEF IndicesOn
    <3> HIDE DEF S
    <3>3. n \in Int
      OBVIOUS
    <3>4. Max(S(c)) \in S(c) /\ \A i \in S(c) : i <= Max(S(c))
      BY <3>1, <3>3, MaxIs
    <3> QED BY <3>1, <3>2, <3>4
  <2>6. \A c \in Chains : Gap[c] \in Nat
    BY ImportAssumption
  <2>7. ASSUME NEW c \in Chains, NEW a \in D(c)
        PROVE  SchemeOf(a) = DefaultScheme /\ Upto(a) \subseteq D(c)
    <3>1. Max(S(c)) + Gap[c] \in Int
      BY <2>5, <2>6
    <3> HIDE DEF S
    <3>2. /\ SchemeOf(a) = DefaultScheme /\ ChainOf(a) = c /\ IndexOf(a) \in Int
          /\ IndexOf(a) <= Max(S(c)) + Gap[c]
      BY <2>7, <3>1, DerivedParts
    <3>3. Upto(a) = Derived(DefaultScheme, c, 0, IndexOf(a))
      BY <3>2 DEF Upto
    <3> QED BY <3>1, <3>2, <3>3, DerivedMonotone
  <2>8. ASSUME NEW c \in Chains, NEW a \in D(c), a \in FirstUsed
        PROVE  Ahead(a) \subseteq D(c)
    <3>1. Max(S(c)) + Gap[c] \in Int
      BY <2>5, <2>6
    <3> HIDE DEF S
    <3>2. SchemeOf(a) = DefaultScheme /\ ChainOf(a) = c /\ IndexOf(a) \in Nat
      BY <3>1, DerivedParts
    <3>3. IndexOf(a) <= Max(S(c))
      BY <2>5, <2>8, <3>2
    <3>4. IndexOf(a) + Gap[c] \in Int /\ IndexOf(a) + Gap[c] <= Max(S(c)) + Gap[c]
            /\ 0 <= IndexOf(a)
      BY <2>5, <2>6, <3>2, <3>3
    <3>5. Ahead(a) = Derived(DefaultScheme, c, IndexOf(a), IndexOf(a) + Gap[c])
      BY <3>2 DEF Ahead
    <3> QED BY <3>1, <3>2, <3>4, <3>5, DerivedMonotone
  <2>9. Bounded(rows)
    <3>1. Bounded(D(0)) /\ Bounded(D(1))
      <4>1. ASSUME NEW c \in Chains PROVE Bounded(D(c))
        <5>1. Max(S(c)) + Gap[c] \in Int
          BY <2>5, <2>6
        <5> HIDE DEF S
        <5> QED BY <5>1, DerivedBounded
      <4> QED BY <4>1 DEF Chains
    <3>2. DefaultScheme \in Schemes
      BY ImportAssumption
    <3>3. D(0) \in SUBSET Address /\ D(1) \in SUBSET Address
      BY <3>2, DerivedTyped DEF Chains
    <3>4. rows = D(0) \cup D(1)
      BY <2>1 DEF Chains
    <3> HIDE DEF D
    <3> QED BY <3>1, <3>3, <3>4, BoundedUnion
  <2>10. \A a \in rows : \E c \in Chains : a \in D(c) /\ D(c) \subseteq rows
    BY <2>1
  <2> HIDE DEF D
  <2>11. RowsGood(hd, rows, outs)
    BY <2>1, <2>2, <2>7, <2>8, <2>9, <2>10 DEF RowsGood, Closed
  <2> QED BY <1>1, <2>11 DEF GapInv
<1> QED BY <1>2, <1>3

(* While no request runs into another at the row of the account, and no    *)
(* rescan leaves a hole, the addresses of the account are those of its     *)
(* scheme, whatever overrides, deletions and failures came before.         *)
THEOREM SchemeMatched == Spec => []AddressesMatchScheme
<1>1. Init => IInv /\ GapInv
  BY Initially, GapInitially
<1>2. IInv /\ GapInv /\ [Next]_vars => IInv' /\ GapInv'
  BY Invariance, GapInvariance
<1>3. IInv /\ GapInv => AddressesMatchScheme
  BY DEF GapInv, RowsGood, AddressesMatchScheme
<1> QED BY <1>1, <1>2, <1>3, PTL DEF Spec

(* And after each of them that has transactions in the tables come as many *)
(* as the gap limit says, for any gap limits: what the wallet uses next is *)
(* seen.                                                                   *)
THEOREM GapKept == Spec => []GapIsAhead
<1>1. Init => IInv /\ GapInv
  BY Initially, GapInitially
<1>2. IInv /\ GapInv /\ [Next]_vars => IInv' /\ GapInv'
  BY Invariance, GapInvariance
<1>3. IInv /\ GapInv => GapIsAhead
  BY DEF GapInv, RowsGood, GapIsAhead, Ahead
<1> QED BY <1>1, <1>2, <1>3, PTL DEF Spec

-----------------------------------------------------------------------------
(* What an import has to find, and what it has found and stored.           *)

(* The requests that import all the transactions of an account.            *)
Whole(q) == q.order.kind \in {"restore", "ensure", "rescan"} /\ q.order.start = 0

StoredSteps == {"lockGet", "lockRead", "lockWrite", "done"}

(* It has to find addresses of its scheme used within the gap limit.       *)
BaseGood(q, us) ==
    /\ q.base \subseteq us
    /\ \A a \in q.base : SchemeOf(a) = q.scheme
    /\ \A a \in q.base : WithinGap(a, q.base)

(* In the course of the scan it has found those up to d of the chain it is *)
(* at, none of them beyond u, and those of the chains before.              *)
Found(q) ==
    /\ -1 <= q.u /\ q.u <= q.d
    /\ \A a \in q.base : ChainOf(a) = q.chain /\ IndexOf(a) <= q.d
                           => a \in q.got /\ IndexOf(a) <= q.u
    /\ q.chain = 1 => \A a \in q.base : ChainOf(a) = 0 => a \in q.got

(* us: the addresses used; ad: those of table addresses; mine: those of    *)
(* which the request holds the id; os: those whose transactions are stored. *)
Complete(q, us, ad, mine, os) ==
    /\ q.pc \in PrepSteps \cup {"account", "query", "addLoose"} => q.base = {}
    /\ q.pc \in {"query", "addLoose"} => q.order.kind = "loose"
    /\ q.pc = "scan" => /\ q.got \subseteq q.found /\ q.claims # {}
                        /\ Whole(q) => BaseGood(q, us) /\ Found(q)
    /\ Whole(q) /\ q.pc \in StoreSteps \cup {"txIds", "outputs"} =>
         q.claims # {} /\ q.base \subseteq q.got /\ q.got \subseteq q.found
    /\ Whole(q) /\ q.pc \in {"addrIds", "addRows", "txIds", "outputs"} =>
         q.found \subseteq ad
    /\ Whole(q) /\ q.pc = "outputs" => q.got \subseteq mine
    /\ Whole(q) /\ q.pc \in StoredSteps => q.base \subseteq os

UsedWithinGap == \A a \in used : WithinGap(a, used)

AllComplete == \A x \in clean : Complete(req[x], used, addrs, addrIds[x], outs)

AllCompleteNext ==
    \A x \in clean' : Complete(req'[x], used', addrs', addrIds'[x], outs')

CompleteInv == UsedWithinGap /\ AllComplete

LEMMA CompleteGrows ==
    ASSUME NEW q, NEW us, NEW ad, NEW mine, NEW os,
           NEW us2, NEW ad2, NEW mine2, NEW os2,
           Complete(q, us, ad, mine, os),
           us \subseteq us2, ad \subseteq ad2, mine \subseteq mine2, os \subseteq os2
    PROVE  Complete(q, us2, ad2, mine2, os2)
<1>1. BaseGood(q, us) => BaseGood(q, us2)
  BY DEF BaseGood
<1> QED BY <1>1 DEF Complete

(* It is enough to show it of the one that acts.                           *)
LEMMA OthersComplete ==
    ASSUME IInv, AllComplete, NEW r \in Actors,
           \A x \in Actors \ {r} : req'[x] = req[x],
           \A x \in Actors \ {r} : addrIds'[x] = addrIds[x],
           clean' \subseteq clean,
           used \subseteq used', addrs \subseteq addrs', outs \subseteq outs',
           r \in clean' => Complete(req'[r], used', addrs', addrIds'[r], outs')
    PROVE  AllCompleteNext
<1> SUFFICES ASSUME NEW x \in clean'
             PROVE  Complete(req'[x], used', addrs', addrIds'[x], outs')
  BY DEF AllCompleteNext
<1>1. CASE x = r
  BY <1>1
<1>2. CASE x # r
  <2>1. x \in Actors \ {r} /\ x \in clean
    BY <1>2 DEF IInv, TypeOK, Actors
  <2>2. Complete(req[x], used, addrs, addrIds[x], outs)
    BY <2>1 DEF AllComplete
  <2>3. Complete(req[x], used', addrs', addrIds[x], outs')
    BY <2>2, CompleteGrows
  <2> QED BY <2>1, <2>3
<1> QED BY <1>1, <1>2

LEMMA CompleteAtRest ==
    ASSUME NEW q, NEW us, NEW ad, NEW mine, NEW os, q.pc \in StoredSteps,
           Whole(q) => q.base \subseteq os
    PROVE  Complete(q, us, ad, mine, os)
BY DEF Complete, PrepSteps, StoreSteps, StoredSteps

LEMMA CompletePrep ==
    ASSUME NEW q, NEW us, NEW ad, NEW mine, NEW os, q.pc \in PrepSteps \cup {"account"},
           q.base = {}
    PROVE  Complete(q, us, ad, mine, os)
BY DEF Complete, PrepSteps, StoreSteps, StoredSteps

LEMMA AnswerComplete ==
    ASSUME ReqTyped, NEW r \in Requests, NEW q, NEW a, Answer(r, q, a)
    PROVE  /\ \A us, ad, mine, os : (Whole(q) => q.base \subseteq os)
                => Complete(req'[r], us, ad, mine, os)
           /\ \A x \in Actors \ {r} : req'[x] = req[x]
<1> DEFINE p == [Idle EXCEPT !.pc = "done", !.answer = a,
                             !.order = q.order, !.base = q.base]
<1>1. r \in Actors /\ r # Tracker
  BY ImportAssumption DEF Actors
<1>2. Becomes(r, p)
  BY <1>1 DEF Answer
<1>3. p.pc = "done" /\ p.order = q.order /\ p.base = q.base
  BY DEF Idle
<1> HIDE DEF p
<1>4. req'[r] = p /\ \A x \in Actors \ {r} : req'[x] = req[x]
  BY <1>1, <1>2, BecomesIs
<1>5. Whole(p) = Whole(q)
  BY <1>3 DEF Whole
<1> QED BY <1>3, <1>4, <1>5, CompleteAtRest DEF StoredSteps

LEMMA EndImportComplete ==
    ASSUME ReqTyped, NEW r \in Requests, NEW q \in RequestType, EndImport(r, q)
    PROVE  /\ \A us, ad, mine, os : (Whole(q) => q.base \subseteq os)
                => Complete(req'[r], us, ad, mine, os)
           /\ \A x \in Actors \ {r} : req'[x] = req[x]
<1>1. CASE q.relock
  <2> DEFINE p == [q EXCEPT !.pc = "lockGet", !.claims = {}]
  <2>1. Becomes(r, p)
    BY <1>1 DEF EndImport
  <2>2. p.pc = "lockGet" /\ p.order = q.order /\ p.base = q.base
    BY DEF RequestType
  <2> HIDE DEF p
  <2>3. req'[r] = p /\ \A x \in Actors \ {r} : req'[x] = req[x]
    BY <2>1, BecomesIs DEF Actors
  <2>4. Whole(p) = Whole(q)
    BY <2>2 DEF Whole
  <2> QED BY <2>2, <2>3, <2>4, CompleteAtRest DEF StoredSteps
<1>2. CASE ~q.relock
  BY <1>2, AnswerComplete DEF EndImport
<1> QED BY <1>1, <1>2

(* What a claim has to find has been paid within the gap limit.            *)
LEMMA ClaimComplete ==
    ASSUME ReqTyped, UsedWithinGap, used \subseteq Address,
           NEW r \in Requests, NEW q \in RequestType, Claim(r, q), q.base = {}
    PROVE  /\ \A ad, mine, os : Complete(req'[r], used, ad, mine, os)
           /\ \A x \in Actors \ {r} : req'[x] = req[x]
<1>1. r \in Actors
  BY DEF Actors
<1>2. CASE Account \in importing
  BY <1>2, AnswerComplete DEF Claim
<1>3. CASE Account \notin importing
  <2> DEFINE base == {a \in used : SchemeOf(a) = q.scheme}
             first == q.order.start - 1
             p == [q EXCEPT !.pc = "scan", !.claims = {Account}, !.base = base,
                            !.found = {}, !.got = {},
                            !.chain = 0, !.d = first, !.u = first]
  <2>1. Becomes(r, p)
    BY <1>3 DEF Claim
  <2>2. \A a \in base : /\ a \in used /\ SchemeOf(a) = q.scheme
                        /\ WithinGap(a, base) /\ IndexOf(a) \in Nat
    BY AddressParts DEF UsedWithinGap, WithinGap
  <2> HIDE DEF base
  <2>3. /\ p.pc = "scan" /\ p.found = {} /\ p.got = {} /\ p.chain = 0 /\ p.base = base
        /\ p.d = first /\ p.u = first /\ p.order = q.order /\ p.scheme = q.scheme
        /\ p.claims = {Account}
    BY DEF RequestType
  <2> HIDE DEF p
  <2>4. req'[r] = p /\ \A x \in Actors \ {r} : req'[x] = req[x]
    BY <1>1, <2>1, BecomesIs
  <2>5. BaseGood(p, used)
    BY <2>2, <2>3 DEF BaseGood
  <2>6. Whole(p) => Found(p)
    <3> SUFFICES ASSUME p.order.start = 0 PROVE Found(p)
      BY DEF Whole
    <3>1. p.d = -1 /\ p.u = -1
      BY <2>3
    <3> QED BY <2>2, <2>3, <3>1 DEF Found
  <2>7. \A ad, mine, os : Complete(p, used, ad, mine, os)
    BY <2>3, <2>5, <2>6 DEF Complete, PrepSteps, StoreSteps, StoredSteps
  <2> QED BY <2>4, <2>7
<1> QED BY <1>2, <1>3

LEMMA ProceedComplete ==
    ASSUME ReqTyped, UsedWithinGap, used \subseteq Address,
           NEW r \in Requests, NEW q \in RequestType, Proceed(r, q), q.base = {}
    PROVE  /\ \A ad, mine, os : Complete(req'[r], used, ad, mine, os)
           /\ \A x \in Actors \ {r} : req'[x] = req[x]
<1>1. CASE q.order.kind = "new"
  <2> DEFINE first == FirstAddresses(q.scheme)
             p == [q EXCEPT !.pc = "ensure", !.found = first]
  <2>1. Becomes(r, p)
    BY <1>1 DEF Proceed
  <2> HIDE DEF first
  <2>2. p.pc = "ensure" /\ p.order = q.order
    BY DEF RequestType
  <2> HIDE DEF p
  <2>3. req'[r] = p /\ \A x \in Actors \ {r} : req'[x] = req[x]
    BY <2>1, BecomesIs DEF Actors
  <2>4. ~Whole(p)
    BY <1>1, <2>2 DEF Whole
  <2> QED BY <2>2, <2>3, <2>4 DEF Complete, PrepSteps
<1>2. CASE q.order.kind # "new"
  BY <1>2, ClaimComplete DEF Proceed
<1> QED BY <1>1, <1>2

LEMMA DeletedComplete ==
    ASSUME ReqTyped, UsedWithinGap, used \subseteq Address,
           NEW r \in Requests, Deleted(r), req[r].base = {}
    PROVE  /\ \A ad, mine, os : Complete(req'[r], used, ad, mine, os)
           /\ \A x \in Actors \ {r} : req'[x] = req[x]
<1>1. r \in Actors /\ req[r] \in RequestType
  BY DEF Actors, ReqTyped
<1>2. CASE req[r].order.kind = "delete"
  BY <1>1, <1>2, AnswerComplete DEF Deleted
<1>3. CASE req[r].order.kind # "delete"
  BY <1>1, <1>3, ProceedComplete DEF Deleted
<1> QED BY <1>2, <1>3

(* A level without transactions ends its chain: the next address used      *)
(* would have been within the gap limit of the last one found.             *)
LEMMA LevelEnds ==
    ASSUME NEW q \in RequestType, NEW us \in SUBSET Address, BaseGood(q, us), Found(q),
           Level(q) \cap us = {}
    PROVE  \A a \in q.base : ChainOf(a) = q.chain => a \in q.got
<1> DEFINE G == Gap[q.chain]
           late == {IndexOf(a) : a \in {b \in q.base : ChainOf(b) = q.chain /\ q.d < IndexOf(b)}}
<1>1. q.chain \in Chains /\ q.d \in Int /\ q.u \in Int /\ q.base \in SUBSET Address
  BY DEF RequestType
<1>2. G \in Nat
  BY <1>1, ImportAssumption
<1>3. \A a \in q.base : /\ a = <<q.scheme, ChainOf(a), IndexOf(a)>>
                        /\ IndexOf(a) \in Nat /\ a \in us
  <2>1. \A a \in q.base : SchemeOf(a) = q.scheme /\ a \in us
    BY DEF BaseGood
  <2> QED BY <1>1, <2>1, AddressParts
<1>4. ASSUME late # {} PROVE FALSE
  <2>1. late \in SUBSET Nat
    BY <1>3
  <2>2. PICK m \in late : \A n \in late : m <= n
    BY <1>4, <2>1, LeastNat
  <2>3. PICK a \in q.base : ChainOf(a) = q.chain /\ q.d < IndexOf(a) /\ IndexOf(a) = m
    BY <2>2
  <2>4. m \in Nat /\ q.d < m
    BY <2>1, <2>3
  <2>5. ~(m <= q.u + G)
    <3>1. ASSUME m <= q.u + G PROVE FALSE
      <4>1. q.d + 1 \in Int /\ q.u + G \in Int /\ q.d + 1 <= m
        BY <1>1, <1>2, <2>4
      <4>2. <<q.scheme, q.chain, m>> \in Derived(q.scheme, q.chain, q.d + 1, q.u + G)
        BY <2>4, <3>1, <4>1, DerivedParts
      <4>3. a = <<q.scheme, q.chain, m>> /\ a \in us
        BY <1>3, <2>3
      <4> QED BY <4>2, <4>3 DEF Level
    <3> QED BY <3>1
  <2>6. -1 <= q.u
    BY DEF Found
  <2>7. WithinGap(a, q.base)
    BY <2>3 DEF BaseGood
  <2>8. CASE m < G
    BY <1>1, <1>2, <2>4, <2>5, <2>6, <2>8
  <2>9. CASE ~(m < G)
    <3>1. PICK b \in q.base : ChainOf(b) = q.chain /\ m \in IndexOf(b) + 1 .. IndexOf(b) + G
      BY <2>3, <2>7, <2>9 DEF WithinGap
    <3>2. IndexOf(b) \in Nat /\ IndexOf(b) < m /\ m <= IndexOf(b) + G
      BY <1>2, <1>3, <2>4, <3>1
    <3>3. IndexOf(b) \notin late
      BY <2>2, <2>4, <3>2
    <3>4. ~(q.d < IndexOf(b))
      BY <3>1, <3>3
    <3>5. IndexOf(b) <= q.d
      BY <1>1, <3>2, <3>4
    <3>6. IndexOf(b) <= q.u
      BY <3>1, <3>5 DEF Found
    <3> QED BY <1>1, <1>2, <2>4, <2>5, <3>2, <3>6
  <2> QED BY <2>8, <2>9
<1>5. \A a \in q.base : ChainOf(a) = q.chain => IndexOf(a) <= q.d
  <2> SUFFICES ASSUME NEW a \in q.base, ChainOf(a) = q.chain PROVE IndexOf(a) <= q.d
    OBVIOUS
  <2>1. ~(q.d < IndexOf(a))
    BY <1>4
  <2>2. IndexOf(a) \in Nat
    BY <1>3
  <2> QED BY <1>1, <2>1, <2>2
<1> QED BY <1>5 DEF Found

LEMMA ScanComplete ==
    ASSUME IInv, CompleteInv, NEW r \in Requests, NEW answered \in BOOLEAN,
           NEW fetched \in BOOLEAN, Scan(r, answered, fetched)
    PROVE  AllCompleteNext
<1> DEFINE q == req[r]
           G == Gap[q.chain]
           A == Level(q)
           hits == IF answered THEN A \cap used ELSE {}
           found == q.found \cup A
           got == IF fetched THEN q.got \cup hits ELSE q.got
           more == [q EXCEPT !.found = @ \cup A,
                             !.got = IF fetched THEN @ \cup hits ELSE @]
           deeper(last) == [more EXCEPT !.d = q.u + G, !.u = IndexOf(last)]
           other == [more EXCEPT !.chain = 1, !.d = q.order.start - 1,
                                 !.u = q.order.start - 1]
           end == [more EXCEPT !.pc = "ensure"]
<1>1. r \in Actors /\ q \in RequestType /\ ReqTyped /\ used \in SUBSET Address
  BY Request DEF Actors, IInv, TypeOK, ReqTyped
<1>2. q.pc = "scan"
  BY DEF Scan, At
<1>3. \/ \E last \in hits : /\ \A a \in hits : IndexOf(a) <= IndexOf(last)
                            /\ Becomes(r, deeper(last))
      \/ hits = {} /\ q.chain = 0 /\ Becomes(r, other)
      \/ hits = {} /\ q.chain = 1 /\ Becomes(r, end)
  BY DEF Scan
<1>4. /\ more.found = found /\ more.got = got /\ more.pc = "scan" /\ more.chain = q.chain
      /\ more.scheme = q.scheme /\ more.order = q.order /\ more.d = q.d /\ more.u = q.u
      /\ more.base = q.base /\ more.claims = q.claims
      /\ DOMAIN more = DOMAIN q
  BY <1>1, <1>2 DEF RequestType
<1>5. /\ q.scheme \in Schemes /\ q.chain \in Chains /\ q.d \in Int /\ q.u \in Int
      /\ q.base \in SUBSET Address
  BY <1>1 DEF RequestType
<1>6. G \in Nat
  BY <1>5, ImportAssumption
<1>7. \A a \in A : /\ a = <<q.scheme, q.chain, IndexOf(a)>> /\ ChainOf(a) = q.chain
                   /\ IndexOf(a) \in Nat /\ q.d + 1 <= IndexOf(a) /\ IndexOf(a) <= q.u + G
  BY <1>5, <1>6, DerivedParts DEF Level
<1>8. \A i \in Nat : q.d + 1 <= i /\ i <= q.u + G => <<q.scheme, q.chain, i>> \in A
  BY <1>5, <1>6, DerivedParts DEF Level
<1>9. hits \subseteq A /\ A \subseteq found
  OBVIOUS
<1>10. clean' \subseteq clean /\ UNCHANGED <<tables, ids, chain>>
  BY DEF Scan
(* Where nothing failed. *)
<1>11. r \in clean' => answered /\ fetched /\ Complete(q, used, addrs, addrIds[r], outs)
  <2>1. ~(answered /\ fetched) => clean' = clean \ {r}
    BY DEF Scan
  <2> QED BY <1>10, <2>1 DEF CompleteInv, AllComplete
<1>12. r \in clean' => /\ hits = A \cap used /\ got = q.got \cup hits
                       /\ q.got \subseteq q.found /\ q.claims # {}
                       /\ Whole(q) => BaseGood(q, used) /\ Found(q)
  BY <1>2, <1>11 DEF Complete
<1>13. more \in [DOMAIN q -> UNION {{more[f]} : f \in DOMAIN q}]
  BY <1>1 DEF RequestType
<1>14. \A a \in q.base : Whole(q) /\ r \in clean' => a = <<q.scheme, ChainOf(a), IndexOf(a)>>
                           /\ a \in used /\ IndexOf(a) \in Nat
  <2>1. \A a \in q.base : a = <<SchemeOf(a), ChainOf(a), IndexOf(a)>> /\ IndexOf(a) \in Nat
    BY <1>5, AddressParts
  <2>2. Whole(q) /\ r \in clean' => \A a \in q.base : SchemeOf(a) = q.scheme /\ a \in used
    BY <1>12 DEF BaseGood
  <2> QED BY <2>1, <2>2
<1>15. Whole(q) => q.order.start - 1 = -1
  BY DEF Whole
<1>21. r \in clean' /\ Whole(q) /\ hits = {} =>
         \A a \in q.base : ChainOf(a) = q.chain => a \in q.got
  BY <1>1, <1>12, LevelEnds
<1> HIDE DEF more, found, got, hits, A, G, q
<1>16. ASSUME NEW p, Becomes(r, p), p.found = found, p.got = got, p.claims = q.claims,
              p.scheme = q.scheme, p.order = q.order, p.base = q.base,
              \/ p.pc = "scan" /\ (r \in clean' /\ Whole(q) => Found(p))
              \/ p.pc = "ensure" /\ (r \in clean' /\ Whole(q) => q.base \subseteq got)
       PROVE  AllCompleteNext
  <2>1. req'[r] = p /\ \A x \in Actors \ {r} : req'[x] = req[x]
    BY <1>1, <1>16, BecomesIs
  <2>2. Whole(p) = Whole(q)
    BY <1>16 DEF Whole
  <2>3. r \in clean' => got \subseteq found
    BY <1>9, <1>12 DEF found
  <2>4. BaseGood(q, used) => BaseGood(p, used)
    BY <1>16 DEF BaseGood
  <2>5. r \in clean' => Complete(p, used, addrs, addrIds[r], outs)
    <3> SUFFICES ASSUME r \in clean' PROVE Complete(p, used, addrs, addrIds[r], outs)
      OBVIOUS
    <3>1. CASE p.pc = "scan" /\ (Whole(q) => Found(p))
      BY <1>12, <1>16, <2>2, <2>3, <2>4, <3>1
         DEF Complete, PrepSteps, StoreSteps, StoredSteps
    <3>2. CASE p.pc = "ensure" /\ (Whole(q) => q.base \subseteq got)
      BY <1>12, <1>16, <2>2, <2>3, <3>2 DEF Complete, PrepSteps, StoreSteps, StoredSteps
    <3> QED BY <1>16, <3>1, <3>2
  <2> QED BY <1>1, <1>10, <2>1, <2>5, OthersComplete DEF CompleteInv, tables, ids, chain
<1>17. ASSUME NEW last \in hits, \A a \in hits : IndexOf(a) <= IndexOf(last),
              Becomes(r, deeper(last))
       PROVE  AllCompleteNext
  <2> DEFINE p == deeper(last)
  <2>1. /\ p.found = found /\ p.got = got /\ p.scheme = q.scheme /\ p.order = q.order
        /\ p.pc = "scan" /\ p.chain = q.chain /\ p.d = q.u + G /\ p.u = IndexOf(last)
        /\ p.base = q.base /\ p.claims = q.claims
    <3>1. q \in RequestType
      BY <1>1 DEF q
    <3> QED BY <1>4, <1>13, <3>1 DEF RequestType
  <2> HIDE DEF p, deeper
  <2>2. IndexOf(last) \in Nat /\ q.d + 1 <= IndexOf(last) /\ IndexOf(last) <= q.u + G
    BY <1>7, <1>9
  <2>3. ASSUME r \in clean', Whole(q) PROVE Found(p)
    <3>1. Found(q)
      BY <1>12, <2>3
    <3>2. -1 <= IndexOf(last) /\ q.u <= IndexOf(last)
      <4>1. q.u <= q.d
        BY <3>1 DEF Found
      <4> QED BY <1>5, <2>2, <4>1
    <3>3. ASSUME NEW a \in q.base, ChainOf(a) = q.chain, IndexOf(a) <= q.u + G
          PROVE  a \in got /\ IndexOf(a) <= IndexOf(last)
      <4>1. a = <<q.scheme, q.chain, IndexOf(a)>> /\ a \in used /\ IndexOf(a) \in Nat
        BY <1>14, <2>3, <3>3
      <4>2. CASE IndexOf(a) <= q.d
        <5>1. a \in q.got /\ IndexOf(a) <= q.u
          BY <3>1, <3>3, <4>2 DEF Found
        <5>2. IndexOf(a) <= IndexOf(last)
          BY <1>5, <2>2, <3>2, <4>1, <5>1
        <5> QED BY <1>12, <2>3, <5>1, <5>2
      <4>3. CASE q.d + 1 <= IndexOf(a)
        <5>1. a \in A
          BY <1>8, <3>3, <4>1, <4>3
        <5>2. a \in hits
          BY <1>12, <2>3, <4>1, <5>1
        <5> QED BY <1>12, <1>17, <2>3, <5>2
      <4>4. IndexOf(a) <= q.d \/ q.d + 1 <= IndexOf(a)
        BY <1>5, <4>1
      <4> QED BY <4>2, <4>3, <4>4
    <3>4. q.chain = 1 => \A a \in q.base : ChainOf(a) = 0 => a \in got
      BY <1>12, <2>3, <3>1 DEF Found
    <3> QED BY <2>1, <2>2, <3>2, <3>3, <3>4 DEF Found
  <2> QED BY <1>16, <1>17, <2>1, <2>3 DEF p
<1>18. ASSUME hits = {}, q.chain = 0, Becomes(r, other) PROVE AllCompleteNext
  <2>1. /\ other.found = found /\ other.got = got /\ other.scheme = q.scheme
        /\ other.order = q.order /\ other.pc = "scan" /\ other.chain = 1
        /\ other.d = q.order.start - 1 /\ other.u = q.order.start - 1
        /\ other.base = q.base /\ other.claims = q.claims
    <3>1. q \in RequestType
      BY <1>1 DEF q
    <3> QED BY <1>4, <1>13, <3>1 DEF RequestType
  <2> HIDE DEF other
  <2>2. ASSUME r \in clean', Whole(q) PROVE Found(other)
    <3>1. other.d = -1 /\ other.u = -1
      BY <1>15, <2>1, <2>2
    <3>2. \A a \in q.base : ~(IndexOf(a) <= -1)
      BY <1>14, <2>2
    <3>3. \A a \in q.base : ChainOf(a) = 0 => a \in got
      BY <1>12, <1>18, <1>21, <2>2
    <3> QED BY <2>1, <3>1, <3>2, <3>3 DEF Found
  <2> QED BY <1>16, <1>18, <2>1, <2>2
<1>19. ASSUME hits = {}, q.chain = 1, Becomes(r, end) PROVE AllCompleteNext
  <2>1. /\ end.found = found /\ end.got = got /\ end.scheme = q.scheme
        /\ end.order = q.order /\ end.pc = "ensure"
        /\ end.base = q.base /\ end.claims = q.claims
    <3>1. q \in RequestType
      BY <1>1 DEF q
    <3> QED BY <1>4, <1>13, <3>1 DEF RequestType
  <2> HIDE DEF end
  <2>2. ASSUME r \in clean', Whole(q) PROVE q.base \subseteq got
    <3>1. \A a \in q.base : ChainOf(a) = 1 => a \in q.got
      BY <1>19, <1>21, <2>2
    <3>2. \A a \in q.base : ChainOf(a) = 0 => a \in q.got
      BY <1>12, <1>19, <2>2 DEF Found
    <3>3. \A a \in q.base : ChainOf(a) = 0 \/ ChainOf(a) = 1
      BY <1>5, AddressParts DEF Chains
    <3> QED BY <1>12, <2>2, <3>1, <3>2, <3>3
  <2> QED BY <1>16, <1>19, <2>1, <2>2
<1> QED BY <1>3, <1>17, <1>18, <1>19

LEMMA StoreComplete ==
    ASSUME IInv, CompleteInv, NEW r \in Actors,
           \/ EnsureSelect(r) \/ EnsureInsert(r) \/ Statement(r)
           \/ TransactionAddressesIds(r) \/ AddLoose(r)
    PROVE  AllCompleteNext
<1> DEFINE q == req[r]
<1>1. ReqTyped /\ TablesOK /\ q \in RequestType
  BY Split, Request DEF IInv
<1>2. addrIds \in [Actors -> SUBSET addrs] /\ clean \subseteq Requests
  BY <1>1 DEF TablesOK
<1>3. r \in clean => r \in Requests /\ r # Tracker /\ Complete(q, used, addrs, addrIds[r], outs)
  BY <1>2, ImportAssumption DEF CompleteInv, AllComplete
<1> USE DEF ids, tables, chain, history
(* A statement of its own leaves the others as they are. *)
<1>4. ASSUME clean' \subseteq clean, UNCHANGED used, addrs \subseteq addrs', outs \subseteq outs',
             \A x \in Actors \ {r} : req'[x] = req[x] /\ addrIds'[x] = addrIds[x],
             r \in clean' => Complete(req'[r], used', addrs', addrIds'[r], outs')
      PROVE  AllCompleteNext
  BY <1>4, OthersComplete DEF CompleteInv
<1>5. ASSUME Throw(r, q), UNCHANGED <<tables, chain>> PROVE AllCompleteNext
  <2>1. clean' = clean \ {r} /\ addrIds' = [addrIds EXCEPT ![r] = {}]
    BY <1>5 DEF Throw
  <2>2. \A x \in Actors \ {r} : req'[x] = req[x]
    BY <1>1, <1>5, ThrowGood
  <2> QED BY <1>2, <1>4, <1>5, <2>1, <2>2
<1>6. ASSUME NEW pc \in {"insert", "accountId", "addAddrs"}, Goto(r, pc),
             q.pc \in {"ensure", "insert", "accountId"},
             UNCHANGED <<addrs, outs, addrIds, used, clean>>
      PROVE  AllCompleteNext
  <2>1. Whole(req'[r]) = Whole(q)
    BY <1>1, <1>6, GotoIs DEF Whole
  <2>2. r \in clean' => Complete(req'[r], used', addrs', addrIds'[r], outs')
    BY <1>1, <1>3, <1>6, <2>1, GotoIs DEF Complete, PrepSteps, StoreSteps, StoredSteps
  <2> QED BY <1>1, <1>4, <1>6, <2>2, GotoIs
<1>7. CASE EnsureSelect(r)
  BY <1>6, <1>7 DEF EnsureSelect, At
<1>8. CASE EnsureInsert(r)
  <2>1. CASE hd = NoRow
    BY <1>6, <1>8, <2>1 DEF EnsureInsert, At
  <2>2. CASE hd # NoRow
    BY <1>5, <1>8, <2>2 DEF EnsureInsert
  <2> QED BY <2>1, <2>2
<1>9. CASE AccountId(r)
  <2>1. CASE hd = NoRow
    BY <1>5, <1>9, <2>1 DEF AccountId
  <2>2. CASE hd # NoRow
    BY <1>6, <1>9, <2>2 DEF AccountId, At
  <2> QED BY <2>1, <2>2
<1>10. CASE AddAddresses(r)
  <2>1. /\ addrs' = addrs \cup q.found /\ Goto(r, "addrIds") /\ q.pc = "addAddrs"
        /\ UNCHANGED <<outs, addrIds, used, clean>>
    BY <1>10 DEF AddAddresses, At
  <2>2. Whole(req'[r]) = Whole(q)
    BY <1>1, <2>1, GotoIs DEF Whole
  <2>3. r \in clean' => Complete(req'[r], used', addrs', addrIds'[r], outs')
    BY <1>1, <1>3, <2>1, <2>2, GotoIs DEF Complete, PrepSteps, StoreSteps, StoredSteps
  <2> QED BY <1>1, <1>4, <2>1, <2>3, GotoIs
<1>11. CASE AddressesIds(r)
  <2>1. /\ addrIds' = [addrIds EXCEPT ![r] = @ \cup (q.found \cap addrs)]
        /\ Goto(r, "addRows") /\ q.pc = "addrIds" /\ UNCHANGED <<addrs, outs, used, clean>>
    BY <1>11 DEF AddressesIds, At
  <2>2. Whole(req'[r]) = Whole(q)
    BY <1>1, <2>1, GotoIs DEF Whole
  <2>3. r \in clean' => Complete(req'[r], used', addrs', addrIds'[r], outs')
    BY <1>1, <1>3, <2>1, <2>2, GotoIs DEF Complete, PrepSteps, StoreSteps, StoredSteps
  <2>4. \A x \in Actors \ {r} : addrIds'[x] = addrIds[x]
    BY <1>2, <2>1
  <2> QED BY <1>1, <1>4, <2>1, <2>3, <2>4, GotoIs
<1>12. CASE AddRows(r)
  <2>1. /\ q.pc = "addRows" /\ UNCHANGED <<addrs, outs, used, clean>>
        /\ \/ r = Tracker /\ Goto(r, "outputs") /\ UNCHANGED addrIds
           \/ /\ r # Tracker /\ addrIds' = [addrIds EXCEPT ![r] = {}]
              /\ \/ q.claims = {} /\ Answer(r, q, "ok")
                 \/ q.claims # {} /\ Goto(r, "txIds")
    BY <1>12 DEF AddRows, At
  <2>2. \A x \in Actors \ {r} : addrIds'[x] = addrIds[x]
    BY <1>2, <2>1
  <2>3. \A x \in Actors \ {r} : req'[x] = req[x]
    BY <1>1, <2>1, AnswerGood, GotoIs
  <2>4. ASSUME r \in clean' PROVE Complete(req'[r], used', addrs', addrIds'[r], outs')
    <3>1. r \in Requests /\ r # Tracker /\ Complete(q, used, addrs, addrIds[r], outs)
      BY <1>3, <2>1, <2>4
    <3>2. CASE q.claims = {} /\ Answer(r, q, "ok")
      <4>1. ~Whole(q)
        BY <2>1, <3>1, <3>2 DEF Complete, StoreSteps
      <4> QED BY <1>1, <3>1, <3>2, <4>1, AnswerComplete
    <3>3. CASE Goto(r, "txIds")
      <4>1. Whole(req'[r]) = Whole(q)
        BY <1>1, <3>3, GotoIs DEF Whole
      <4> QED BY <1>1, <2>1, <3>1, <3>3, <4>1, GotoIs
              DEF Complete, PrepSteps, StoreSteps, StoredSteps
    <3> QED BY <2>1, <3>1, <3>2, <3>3
  <2> QED BY <1>4, <2>1, <2>2, <2>3, <2>4
<1>13. CASE TransactionAddressesIds(r)
  <2>1. /\ addrIds' = [addrIds EXCEPT ![r] = q.found \cap addrs]
        /\ Goto(r, "outputs") /\ q.pc = "txIds" /\ UNCHANGED <<addrs, outs, used, clean>>
    BY <1>13 DEF TransactionAddressesIds, At
  <2>2. Whole(req'[r]) = Whole(q)
    BY <1>1, <2>1, GotoIs DEF Whole
  <2>3. addrIds'[r] = q.found \cap addrs /\ \A x \in Actors \ {r} : addrIds'[x] = addrIds[x]
    BY <1>2, <2>1
  <2>4. r \in clean' => Complete(req'[r], used', addrs', addrIds'[r], outs')
    BY <1>1, <1>3, <2>1, <2>2, <2>3, GotoIs DEF Complete, PrepSteps, StoreSteps, StoredSteps
  <2> QED BY <1>1, <1>4, <2>1, <2>3, <2>4, GotoIs
<1>14. CASE AddOutputs(r)
  <2>1. /\ q.pc = "outputs" /\ outs' = outs \cup (q.got \cap addrIds[r])
        /\ addrIds' = [addrIds EXCEPT ![r] = {}]
        /\ UNCHANGED <<addrs, used, clean>>
        /\ \/ r = Tracker /\ Answer(r, q, "none")
           \/ r # Tracker /\ EndImport(r, q)
    BY <1>14 DEF AddOutputs, At
  <2>2. \A x \in Actors \ {r} : addrIds'[x] = addrIds[x]
    BY <1>2, <2>1
  <2>3. \A x \in Actors \ {r} : req'[x] = req[x]
    BY <1>1, <2>1, AnswerGood, EndImportGood
  <2>4. ASSUME r \in clean' PROVE Complete(req'[r], used', addrs', addrIds'[r], outs')
    <3>1. r \in Requests /\ r # Tracker /\ Complete(q, used, addrs, addrIds[r], outs)
      BY <1>3, <2>1, <2>4
    <3>2. Whole(q) => q.base \subseteq outs'
      BY <2>1, <3>1 DEF Complete
    <3> QED BY <1>1, <2>1, <3>1, <3>2, EndImportComplete
  <2> QED BY <1>4, <2>1, <2>2, <2>3, <2>4
<1>15. CASE AddLoose(r)
  <2>1. /\ addrs' = addrs \cup q.found /\ Goto(r, "txIds") /\ q.pc = "addLoose"
        /\ UNCHANGED <<outs, addrIds, used, clean>>
    BY <1>15 DEF AddLoose, At
  <2>2. r \in clean' => ~Whole(req'[r])
    BY <1>1, <1>3, <2>1, GotoIs DEF Complete, Whole
  <2>3. r \in clean' => Complete(req'[r], used', addrs', addrIds'[r], outs')
    BY <1>1, <2>1, <2>2, GotoIs DEF Complete, PrepSteps
  <2> QED BY <1>1, <1>4, <2>1, <2>3, GotoIs
<1> QED BY <1>7, <1>8, <1>9, <1>10, <1>11, <1>12, <1>13, <1>14, <1>15 DEF Statement

(* Before its import a request has nothing to find.                        *)
LEMMA CleanIs ==
    ASSUME IInv, CompleteInv, NEW r \in clean
    PROVE  /\ r \in Requests /\ r \in Actors /\ r # Tracker
           /\ Complete(req[r], used, addrs, addrIds[r], outs)
           /\ req[r].pc \in PrepSteps \cup {"account", "query", "addLoose"} =>
                req[r].base = {}
<1>1. r \in Requests
  BY DEF IInv, TypeOK
<1>2. Complete(req[r], used, addrs, addrIds[r], outs)
  BY DEF CompleteInv, AllComplete
<1> QED BY <1>1, <1>2, ImportAssumption DEF Complete, Actors

(* A step that leaves the tables and the addresses known as they are.      *)
LEMMA TablesComplete ==
    ASSUME IInv, CompleteInv, NEW r \in Actors,
           \A x \in Actors \ {r} : req'[x] = req[x],
           UNCHANGED <<addrs, outs, addrIds, used>>, clean' \subseteq clean,
           r \in clean' => Complete(req'[r], used, addrs, addrIds[r], outs)
    PROVE  AllCompleteNext
BY OthersComplete DEF CompleteInv

(* Whatever it becomes, the others stay as they are.                       *)
LEMMA OnlyActs ==
    ASSUME ReqTyped, NEW r \in Requests
    PROVE  /\ \A q : Proceed(r, q) => \A x \in Actors \ {r} : req'[x] = req[x]
           /\ Deleted(r) => \A x \in Actors \ {r} : req'[x] = req[x]
<1>1. \A q : Becomes(r, q) => \A x \in Actors \ {r} : req'[x] = req[x]
  BY DEF Becomes, ReqTyped
<1>2. \A q : Proceed(r, q) => \A x \in Actors \ {r} : req'[x] = req[x]
  BY <1>1 DEF Proceed, Claim, Answer
<1> QED BY <1>1, <1>2 DEF Deleted, Answer

LEMMA PrepComplete ==
    ASSUME IInv, CompleteInv, NEW r \in Requests,
           \/ Exists(r) \/ WasLocked(r) \/ Check(r)
           \/ DeleteId(r) \/ DeleteAddrs(r) \/ DeleteRow(r) \/ RescanAccount(r)
    PROVE  AllCompleteNext
<1>1. r \in Actors /\ ReqTyped /\ req[r] \in RequestType
  BY Request DEF Actors, IInv, TypeOK, ReqTyped
<1>2. UsedWithinGap /\ used \subseteq Address /\ clean \subseteq Requests
  BY DEF CompleteInv, IInv, TypeOK
<1>3. r \in clean /\ req[r].pc \in PrepSteps \cup {"account"} => req[r].base = {}
  BY CleanIs
<1> USE DEF ids, tables, chain, history
(* The two deletions leave no other import undisturbed. *)
<1>4. ASSUME clean' = clean \cap {r},
             r \in clean => Complete(req'[r], used', addrs', addrIds'[r], outs')
      PROVE  AllCompleteNext
  BY <1>4 DEF AllCompleteNext
<1>5. ASSUME NEW pc \in PrepSteps, req[r].pc \in PrepSteps, Goto(r, pc)
      PROVE  /\ \A x \in Actors \ {r} : req'[x] = req[x]
             /\ r \in clean => \A us, ad, mine, os : Complete(req'[r], us, ad, mine, os)
  BY <1>1, <1>3, <1>5, GotoIs, CompletePrep
<1>6. ASSUME NEW a, req[r].pc \in PrepSteps \cup {"account"}, Answer(r, req[r], a)
      PROVE  /\ \A x \in Actors \ {r} : req'[x] = req[x]
             /\ r \in clean => \A us, ad, mine, os : Complete(req'[r], us, ad, mine, os)
  BY <1>1, <1>3, <1>6, AnswerComplete
<1>7. ASSUME Proceed(r, req[r]), req[r].pc \in PrepSteps
      PROVE  /\ \A x \in Actors \ {r} : req'[x] = req[x]
             /\ r \in clean => \A ad, mine, os : Complete(req'[r], used, ad, mine, os)
  BY <1>1, <1>2, <1>3, <1>7, OnlyActs, ProceedComplete
<1>8. ASSUME Deleted(r), req[r].pc \in PrepSteps
      PROVE  /\ \A x \in Actors \ {r} : req'[x] = req[x]
             /\ r \in clean => \A ad, mine, os : Complete(req'[r], used, ad, mine, os)
  BY <1>1, <1>2, <1>3, <1>8, OnlyActs, DeletedComplete
<1>9. CASE Exists(r)
  <2>1. UNCHANGED <<tables, ids, chain, clean>> /\ req[r].pc = "exists"
          /\ (Answer(r, req[r], "ok") \/ Goto(r, "wasLocked"))
    BY <1>9 DEF Exists, At
  <2> QED BY <1>1, <1>5, <1>6, <2>1, TablesComplete DEF PrepSteps
<1>10. CASE WasLocked(r)
  <2> DEFINE p == [req[r] EXCEPT !.pc = "check", !.relock = hd # NoRow /\ hd.locked]
  <2>1. UNCHANGED <<tables, ids, chain, clean>> /\ req[r].pc = "wasLocked" /\ Becomes(r, p)
    BY <1>10 DEF WasLocked, At
  <2>2. p.pc = "check" /\ p.base = req[r].base
    BY <1>1 DEF RequestType
  <2> HIDE DEF p
  <2>3. req'[r] = p /\ \A x \in Actors \ {r} : req'[x] = req[x]
    BY <1>1, <2>1, BecomesIs
  <2>4. r \in clean => Complete(req'[r], used, addrs, addrIds[r], outs)
    BY <1>3, <2>1, <2>2, <2>3, CompletePrep DEF PrepSteps
  <2> QED BY <1>1, <2>1, <2>3, <2>4, TablesComplete
<1>11. CASE Check(r)
  <2>1. UNCHANGED <<tables, ids, chain, clean>> /\ req[r].pc = "check"
          /\ (Proceed(r, req[r]) \/ Answer(r, req[r], "locked") \/ Goto(r, "deleteId"))
    BY <1>11 DEF Check, At
  <2> QED BY <1>1, <1>5, <1>6, <1>7, <2>1, TablesComplete DEF PrepSteps
<1>12. CASE DeleteId(r)
  <2>1. UNCHANGED <<tables, ids, chain, clean>> /\ req[r].pc = "deleteId"
          /\ (Deleted(r) \/ Goto(r, "deleteAddrs"))
    BY <1>12 DEF DeleteId, At
  <2> QED BY <1>1, <1>5, <1>8, <2>1, TablesComplete DEF PrepSteps
<1>13. CASE DeleteAddrs(r)
  <2>1. req[r].pc = "deleteAddrs" /\ Goto(r, "deleteRow") /\ clean' = clean \cap {r}
    BY <1>13 DEF DeleteAddrs, At
  <2> QED BY <1>4, <1>5, <2>1 DEF PrepSteps
<1>14. CASE DeleteRow(r)
  <2>1. req[r].pc = "deleteRow" /\ Deleted(r) /\ clean' = clean \cap {r} /\ UNCHANGED used
    BY <1>14 DEF DeleteRow, At
  <2> QED BY <1>4, <1>8, <2>1 DEF PrepSteps
<1>15. CASE RescanAccount(r)
  <2>1. UNCHANGED <<tables, ids, chain, clean>> /\ req[r].pc = "account"
    BY <1>15 DEF RescanAccount, At
  <2>2. CASE hd = NoRow
    <3>1. Answer(r, req[r], "unknown")
      BY <1>15, <2>2 DEF RescanAccount
    <3> QED BY <1>1, <1>6, <2>1, <3>1, TablesComplete
  <2>3. CASE hd # NoRow
    <3> DEFINE q == [req[r] EXCEPT !.scheme = hd.scheme, !.locked = hd.locked]
    <3>1. hd.scheme \in Schemes /\ hd.locked \in BOOLEAN
      BY <2>3 DEF IInv, TypeOK
    <3>2. q \in RequestType /\ q.base = req[r].base
      BY <1>1, <3>1 DEF RequestType
    <3>3. Claim(r, q)
      BY <1>15, <2>3 DEF RescanAccount
    <3> HIDE DEF q
    <3>4. \A x \in Actors \ {r} : req'[x] = req[x]
      BY <1>1, <3>2, <3>3, ClaimGood
    <3>5. r \in clean => Complete(req'[r], used, addrs, addrIds[r], outs)
      BY <1>1, <1>2, <1>3, <2>1, <3>2, <3>3, ClaimComplete
    <3> QED BY <1>1, <2>1, <3>4, <3>5, TablesComplete
  <2> QED BY <2>2, <2>3
<1> QED BY <1>9, <1>10, <1>11, <1>12, <1>13, <1>14, <1>15

LEMMA ArriveComplete ==
    ASSUME IInv, CompleteInv, NEW r \in Requests, Arrive(r)
    PROVE  AllCompleteNext
<1>1. r \in Actors /\ r # Tracker /\ ReqTyped
  BY ImportAssumption DEF Actors, IInv, TypeOK, ReqTyped
<1>2. PICK o \in Orders :
        LET q == [Idle EXCEPT !.order = o, !.scheme = o.scheme]
            claims == o.keys \ importing
        IN  IF o.kind # "loose"
            THEN Becomes(r, [q EXCEPT !.pc = FirstStep(o)]) /\ UNCHANGED importing
            ELSE IF claims = {}
            THEN Answer(r, q, "ok") /\ UNCHANGED importing
            ELSE /\ importing' = importing \cup claims
                 /\ Becomes(r, [q EXCEPT !.pc = "query", !.claims = claims,
                                             !.found = claims])
  BY DEF Arrive
<1> DEFINE q == [Idle EXCEPT !.order = o, !.scheme = o.scheme]
           claims == o.keys \ importing
           first == [q EXCEPT !.pc = FirstStep(o)]
           query == [q EXCEPT !.pc = "query", !.claims = claims, !.found = claims]
<1>3. o.kind \in Kinds
  BY ImportAssumption DEF OrderType
<1>4. first.pc = FirstStep(o) /\ first.base = {} /\ q.base = {}
  BY DEF Idle
<1>5. query.pc = "query" /\ query.order = o /\ query.base = {}
  BY DEF Idle
<1>6. UNCHANGED <<tables, ids, chain, clean>>
  BY DEF Arrive, history
<1>7. \/ o.kind # "loose" /\ Becomes(r, first)
      \/ o.kind = "loose" /\ Answer(r, q, "ok")
      \/ o.kind = "loose" /\ Becomes(r, query)
  BY <1>2
<1> HIDE DEF first, query, q
<1>8. Complete(req'[r], used, addrs, addrIds[r], outs)
        /\ \A x \in Actors \ {r} : req'[x] = req[x]
  <2>1. CASE o.kind # "loose" /\ Becomes(r, first)
    <3>1. req'[r] = first /\ \A x \in Actors \ {r} : req'[x] = req[x]
      BY <1>1, <2>1, BecomesIs
    <3>2. first.pc \in PrepSteps \cup {"account"}
      BY <1>3, <1>4, <2>1 DEF FirstStep, Kinds, PrepSteps
    <3> QED BY <1>4, <3>1, <3>2, CompletePrep
  <2>2. CASE Answer(r, q, "ok")
    BY <1>1, <1>4, <2>2, AnswerComplete
  <2>3. CASE o.kind = "loose" /\ Becomes(r, query)
    <3>1. req'[r] = query /\ \A x \in Actors \ {r} : req'[x] = req[x]
      BY <1>1, <2>3, BecomesIs
    <3>2. Complete(query, used, addrs, addrIds[r], outs)
      BY <1>5, <2>3 DEF Complete, StoreSteps, StoredSteps
    <3> QED BY <3>1, <3>2
  <2> QED BY <1>7, <2>1, <2>2, <2>3
<1> QED BY <1>1, <1>6, <1>8, TablesComplete DEF tables, ids, chain

LEMMA QueryComplete ==
    ASSUME IInv, CompleteInv, NEW r \in Requests, NEW answered \in BOOLEAN,
           NEW fetched \in BOOLEAN, Query(r, answered, fetched)
    PROVE  AllCompleteNext
<1>1. r \in Actors /\ r # Tracker /\ ReqTyped /\ req[r] \in RequestType
  BY ImportAssumption, Request DEF Actors, IInv, TypeOK, ReqTyped
<1>2. UNCHANGED <<tables, ids, chain, clean>> /\ req[r].pc = "query"
  BY DEF Query, At, history
<1>3. r \in clean => req[r].base = {} /\ req[r].order.kind = "loose"
  BY <1>2, CleanIs DEF Complete
<1>4. CASE ~answered
  <2>1. Goto(r, "txIds")
    BY <1>4 DEF Query
  <2>2. /\ req'[r].pc = "txIds" /\ req'[r].order = req[r].order
        /\ \A x \in Actors \ {r} : req'[x] = req[x]
    BY <1>1, <2>1, GotoIs
  <2>3. r \in clean => Complete(req'[r], used, addrs, addrIds[r], outs)
    BY <1>3, <2>2 DEF Complete, PrepSteps, Whole
  <2> QED BY <1>1, <1>2, <2>2, <2>3, TablesComplete DEF tables, ids, chain
<1>5. CASE answered /\ ~fetched
  <2>1. EndImport(r, req[r])
    BY <1>5 DEF Query
  <2>2. \A x \in Actors \ {r} : req'[x] = req[x]
    BY <1>1, <2>1, EndImportComplete
  <2>3. r \in clean => Complete(req'[r], used, addrs, addrIds[r], outs)
    BY <1>1, <1>3, <2>1, EndImportComplete
  <2> QED BY <1>1, <1>2, <2>2, <2>3, TablesComplete DEF tables, ids, chain
<1>6. CASE answered /\ fetched
  <2> DEFINE p == [req[r] EXCEPT !.pc = "addLoose", !.got = req[r].found \cap used]
  <2>1. Becomes(r, p)
    BY <1>6 DEF Query
  <2>2. p.pc = "addLoose" /\ p.order = req[r].order /\ p.base = req[r].base
    BY <1>1 DEF RequestType
  <2> HIDE DEF p
  <2>3. req'[r] = p /\ \A x \in Actors \ {r} : req'[x] = req[x]
    BY <1>1, <2>1, BecomesIs
  <2>4. r \in clean => Complete(req'[r], used, addrs, addrIds[r], outs)
    BY <1>3, <2>2, <2>3 DEF Complete, StoreSteps, StoredSteps
  <2> QED BY <1>1, <1>2, <2>3, <2>4, TablesComplete DEF tables, ids, chain
<1> QED BY <1>4, <1>5, <1>6

LEMMA LockComplete ==
    ASSUME IInv, CompleteInv, NEW r \in Requests,
           \/ Signed(r) \/ LockWrite(r)
           \/ LockGet(r, "lockGet", "lockRead") \/ LockGet(r, "lockRead", "lockWrite")
    PROVE  AllCompleteNext
<1>1. r \in Actors /\ r # Tracker /\ ReqTyped /\ req[r] \in RequestType
  BY ImportAssumption, Request DEF Actors, IInv, TypeOK, ReqTyped
<1> USE DEF ids, tables, chain, history
(* Its transactions are stored, or it had none to find. *)
<1>2. r \in clean /\ req[r].pc \in StoredSteps \cup {"signed"} =>
        (Whole(req[r]) => req[r].base \subseteq outs)
  BY CleanIs DEF Complete, PrepSteps
<1>3. ASSUME NEW a, Answer(r, req[r], a), req[r].pc \in StoredSteps \cup {"signed"},
             UNCHANGED <<addrs, outs, addrIds, used, clean>>
      PROVE  AllCompleteNext
  <2>1. \A x \in Actors \ {r} : req'[x] = req[x]
    BY <1>1, <1>3, AnswerComplete
  <2>2. r \in clean => Complete(req'[r], used, addrs, addrIds[r], outs)
    BY <1>1, <1>2, <1>3, AnswerComplete
  <2> QED BY <1>1, <1>3, <2>1, <2>2, TablesComplete
<1>4. CASE Signed(r)
  <2>1. /\ UNCHANGED <<addrs, outs, addrIds, used, clean>> /\ req[r].pc = "signed"
        /\ Answer(r, req[r], "unknown") \/ Goto(r, "lockGet") \/ Goto(r, "deleteId")
    BY <1>4 DEF Signed, At
  <2>2. r \in clean => req[r].base = {}
    BY <2>1, CleanIs DEF PrepSteps
  <2>3. ASSUME NEW pc \in {"lockGet", "deleteId"}, Goto(r, pc) PROVE AllCompleteNext
    <3>1. req'[r].pc = pc /\ req'[r].base = req[r].base
            /\ \A x \in Actors \ {r} : req'[x] = req[x]
      BY <1>1, <2>3, GotoIs
    <3>2. r \in clean => Complete(req'[r], used, addrs, addrIds[r], outs)
      BY <2>2, <2>3, <3>1, CompletePrep, CompleteAtRest DEF PrepSteps, StoredSteps
    <3> QED BY <1>1, <2>1, <3>1, <3>2, TablesComplete
  <2> QED BY <1>3, <2>1, <2>3
<1>5. CASE LockWrite(r)
  <2>1. Answer(r, req[r], "ok") /\ UNCHANGED <<addrs, outs, addrIds, used, clean>>
          /\ req[r].pc = "lockWrite"
    BY <1>5 DEF LockWrite, At
  <2> QED BY <1>3, <2>1 DEF StoredSteps
<1>6. ASSUME NEW pc \in {"lockGet", "lockRead"}, NEW next \in {"lockRead", "lockWrite"},
             LockGet(r, pc, next)
      PROVE  AllCompleteNext
  <2> DEFINE p == [req[r] EXCEPT !.pc = next, !.scheme = hd.scheme]
  <2>1. UNCHANGED <<addrs, outs, addrIds, used, clean>> /\ req[r].pc \in StoredSteps
    BY <1>6 DEF LockGet, At, StoredSteps
  <2>2. Answer(r, req[r], "unknown") \/ Answer(r, req[r], "ok") \/ Becomes(r, p)
    BY <1>6 DEF LockGet
  <2>3. p.pc \in StoredSteps /\ p.order = req[r].order /\ p.base = req[r].base
    BY <1>1 DEF RequestType, StoredSteps
  <2> HIDE DEF p
  <2>4. CASE Becomes(r, p)
    <3>1. req'[r] = p /\ \A x \in Actors \ {r} : req'[x] = req[x]
      BY <1>1, <2>4, BecomesIs
    <3>2. Whole(p) = Whole(req[r])
      BY <2>3 DEF Whole
    <3>3. r \in clean => Complete(req'[r], used, addrs, addrIds[r], outs)
      BY <1>2, <2>1, <2>3, <3>1, <3>2, CompleteAtRest
    <3> QED BY <1>1, <2>1, <3>1, <3>3, TablesComplete
  <2> QED BY <1>3, <2>1, <2>2, <2>4
<1> QED BY <1>4, <1>5, <1>6

(* A failure: an import that fails is no longer clean.                     *)
LEMMA ThrowComplete ==
    ASSUME IInv, CompleteInv, NEW r \in Actors, Throw(r, req[r]), UNCHANGED <<tables, chain>>
    PROVE  AllCompleteNext
<1>1. ReqTyped /\ req[r] \in RequestType /\ addrIds \in [Actors -> SUBSET addrs]
  BY Request DEF IInv, TypeOK, ReqTyped
<1>2. clean' = clean \ {r} /\ addrIds' = [addrIds EXCEPT ![r] = {}]
  BY DEF Throw
<1>3. \A x \in Actors \ {r} : req'[x] = req[x] /\ addrIds'[x] = addrIds[x]
  BY <1>1, <1>2, ThrowGood
<1> QED BY <1>2, <1>3, OthersComplete DEF tables, chain, CompleteInv

LEMMA FailComplete ==
    ASSUME IInv, CompleteInv, NEW r \in Requests, Fail(r)
    PROVE  AllCompleteNext
<1>1. r \in Actors /\ ReqTyped /\ req[r] \in RequestType
  BY Request DEF Actors, IInv, TypeOK, ReqTyped
<1>2. UsedWithinGap /\ used \subseteq Address
  BY DEF CompleteInv, IInv, TypeOK
<1>3. r \in clean /\ req[r].pc \in PrepSteps \cup {"account"} => req[r].base = {}
  BY CleanIs
<1>4. UNCHANGED <<tables, chain>>
  BY DEF Fail
<1> USE DEF ids, tables, chain, history
<1>5. CASE At(r, "wasLocked") /\ Goto(r, "check") /\ UNCHANGED <<addrIds, clean>>
  <2>1. req'[r].pc = "check" /\ req'[r].base = req[r].base
          /\ \A x \in Actors \ {r} : req'[x] = req[x]
    BY <1>1, <1>5, GotoIs
  <2>2. r \in clean => Complete(req'[r], used, addrs, addrIds[r], outs)
    BY <1>3, <1>5, <2>1, CompletePrep DEF PrepSteps, At
  <2> QED BY <1>1, <1>4, <1>5, <2>1, <2>2, TablesComplete
<1>6. CASE At(r, "check") /\ Proceed(r, req[r]) /\ UNCHANGED <<addrIds, clean>>
  <2>1. r \in clean => Complete(req'[r], used, addrs, addrIds[r], outs)
    BY <1>1, <1>2, <1>3, <1>6, ProceedComplete DEF PrepSteps, At
  <2> QED BY <1>1, <1>4, <1>6, <2>1, OnlyActs, TablesComplete
<1>7. CASE req[r].pc \in {"deleteId", "deleteAddrs", "deleteRow"} /\ Deleted(r)
             /\ UNCHANGED <<addrIds, clean>>
  <2>1. r \in clean => Complete(req'[r], used, addrs, addrIds[r], outs)
    BY <1>1, <1>2, <1>3, <1>7, DeletedComplete DEF PrepSteps
  <2> QED BY <1>1, <1>4, <1>7, <2>1, OnlyActs, TablesComplete
<1>8. CASE /\ req[r].pc \in {"exists"} \cup Locks
           /\ Answer(r, req[r], "ok") \/ Answer(r, req[r], "error")
           /\ UNCHANGED <<addrIds, clean>>
  <2>1. r \in clean => (Whole(req[r]) => req[r].base \subseteq outs)
    BY <1>8, CleanIs DEF Complete, PrepSteps, StoredSteps, Locks
  <2>2. r \in clean => Complete(req'[r], used, addrs, addrIds[r], outs)
    BY <1>1, <1>8, <2>1, AnswerComplete
  <2>3. \A x \in Actors \ {r} : req'[x] = req[x]
    BY <1>1, <1>8, AnswerComplete
  <2> QED BY <1>1, <1>4, <1>8, <2>2, <2>3, TablesComplete
<1>9. CASE Throw(r, req[r])
  BY <1>1, <1>4, <1>9, ThrowComplete
<1> QED BY <1>5, <1>6, <1>7, <1>8, <1>9 DEF Fail, At, StatementFails

(* What the tracker reads is nothing to the requests.                      *)
LEMMA TrackerComplete ==
    ASSUME IInv, CompleteInv,
           \/ \E a \in pending : TrackerFind(a)
           \/ TrackerDerived \/ TrackerUnused \/ TrackerHoles
    PROVE  AllCompleteNext
<1>1. /\ ReqTyped /\ Tracker \in Actors /\ Tracker \notin Requests /\ clean \subseteq Requests
      /\ addrIds \in [Actors -> SUBSET addrs] /\ Requests \subseteq Actors
  BY ImportAssumption DEF IInv, TypeOK, ReqTyped, Actors
<1>2. \A q : Becomes(Tracker, q) => \A x \in Requests : req'[x] = req[x]
  BY <1>1 DEF Becomes, ReqTyped
<1>3. UNCHANGED <<addrs, outs, used, clean>>
  BY DEF TrackerFind, TrackerDerived, TrackerUnused, TrackerHoles, tables, chain, history
<1>4. \A x \in Requests : req'[x] = req[x] /\ addrIds'[x] = addrIds[x]
  <2>1. ASSUME NEW a \in pending, TrackerFind(a)
        PROVE  \A x \in Requests : req'[x] = req[x] /\ addrIds'[x] = addrIds[x]
    <3>1. CASE a \notin addrs
      BY <2>1, <3>1 DEF TrackerFind
    <3>2. CASE a \in addrs
      <4>1. addrIds' = [addrIds EXCEPT ![Tracker] = {a}] /\ \E q : Becomes(Tracker, q)
        BY <2>1, <3>2 DEF TrackerFind
      <4> QED BY <1>1, <1>2, <4>1
    <3> QED BY <3>1, <3>2
  <2>2. ASSUME TrackerDerived \/ TrackerUnused \/ TrackerHoles
        PROVE  \A x \in Requests : req'[x] = req[x] /\ addrIds'[x] = addrIds[x]
    <3>1. UNCHANGED addrIds
      BY <2>2 DEF TrackerDerived, TrackerUnused, TrackerHoles, ids
    <3>2. \E q : Becomes(Tracker, q)
      <4>1. CASE TrackerDerived
        BY <4>1 DEF TrackerDerived
      <4>2. CASE TrackerUnused
        BY <4>2 DEF TrackerUnused, Derive, Goto
      <4>3. CASE TrackerHoles
        BY <4>3 DEF TrackerHoles, Derive, Goto
      <4> QED BY <2>2, <4>1, <4>2, <4>3
    <3> QED BY <1>2, <3>1, <3>2
  <2> QED BY <2>1, <2>2
<1> QED BY <1>1, <1>3, <1>4 DEF CompleteInv, AllComplete, AllCompleteNext

(* A wallet stays within the gap limit when it pays.                       *)
LEMMA PayWithinGap ==
    ASSUME UsedWithinGap, NEW a, Pay(a)
    PROVE  UsedWithinGap'
<1>1. used' = used \cup {a} /\ WithinGap(a, used)
  BY DEF Pay
<1>2. \A b \in used : WithinGap(b, used)
  BY DEF UsedWithinGap
<1>3. \A b : WithinGap(b, used) => WithinGap(b, used')
  BY <1>1 DEF WithinGap
<1>4. \A b \in used' : WithinGap(b, used')
  BY <1>1, <1>2, <1>3
<1> QED BY <1>4 DEF UsedWithinGap, WithinGap

LEMMA CompleteInvariance ==
    ASSUME IInv, CompleteInv, [Next]_vars
    PROVE  CompleteInv'
<1>1. UsedWithinGap /\ AllComplete
  BY DEF CompleteInv
<1>2. ASSUME AllCompleteNext, UNCHANGED used PROVE CompleteInv'
  <2>1. UsedWithinGap'
    BY <1>1, <1>2 DEF UsedWithinGap, WithinGap
  <2> QED BY <1>2, <2>1 DEF CompleteInv, AllComplete, AllCompleteNext
<1>3. ASSUME NEW r \in Requests, Arrive(r) \/ Step(r) \/ Fail(r)
      PROVE  CompleteInv'
  <2>1. r \in Actors
    BY DEF Actors
  <2>2. CASE Arrive(r)
    <3>1. UNCHANGED used
      BY <2>2 DEF Arrive, chain
    <3> QED BY <1>2, <2>2, <3>1, ArriveComplete
  <2>3. CASE Fail(r)
    <3>1. UNCHANGED used
      BY <2>3 DEF Fail, chain
    <3> QED BY <1>2, <2>3, <3>1, FailComplete
  <2>4. ASSUME NEW answered \in BOOLEAN, NEW fetched \in BOOLEAN,
               Scan(r, answered, fetched) \/ Query(r, answered, fetched)
        PROVE  CompleteInv'
    <3>1. UNCHANGED used
      BY <2>4 DEF Scan, Query, chain
    <3> QED BY <1>2, <2>4, <3>1, ScanComplete, QueryComplete
  <2>5. CASE \/ Exists(r) \/ WasLocked(r) \/ Check(r)
             \/ DeleteId(r) \/ DeleteAddrs(r) \/ DeleteRow(r) \/ RescanAccount(r)
    <3>1. UNCHANGED used
      BY <2>5 DEF Exists, WasLocked, Check, DeleteId, DeleteAddrs, DeleteRow,
         RescanAccount, chain
    <3> QED BY <1>2, <2>5, <3>1, PrepComplete
  <2>6. CASE \/ EnsureSelect(r) \/ EnsureInsert(r) \/ Statement(r)
             \/ TransactionAddressesIds(r) \/ AddLoose(r)
    <3>1. UNCHANGED used
      BY <2>6 DEF EnsureSelect, EnsureInsert, Statement, AccountId, AddAddresses,
         AddressesIds, AddRows, AddOutputs, TransactionAddressesIds, AddLoose, chain
    <3> QED BY <1>2, <2>1, <2>6, <3>1, StoreComplete
  <2>7. CASE \/ Signed(r) \/ LockWrite(r)
             \/ LockGet(r, "lockGet", "lockRead") \/ LockGet(r, "lockRead", "lockWrite")
    <3>1. UNCHANGED used
      BY <2>7 DEF Signed, LockWrite, LockGet, chain
    <3> QED BY <1>2, <2>7, <3>1, LockComplete
  <2> QED BY <1>3, <2>2, <2>3, <2>4, <2>5, <2>6, <2>7 DEF Step
<1>4. CASE Track
  <2>1. Tracker \in Actors
    BY DEF Actors
  <2>2. CASE Statement(Tracker)
    <3>1. UNCHANGED used
      BY <2>2 DEF Statement, AccountId, AddAddresses, AddressesIds, AddRows, AddOutputs, chain
    <3> QED BY <1>2, <2>1, <2>2, <3>1, StoreComplete
  <2>3. CASE \/ \E a \in pending : TrackerFind(a)
             \/ TrackerDerived \/ TrackerUnused \/ TrackerHoles
    <3>1. UNCHANGED used
      BY <2>3 DEF TrackerFind, TrackerDerived, TrackerUnused, TrackerHoles, chain
    <3> QED BY <1>2, <2>3, <3>1, TrackerComplete
  <2> QED BY <1>4, <2>2, <2>3 DEF Track
<1>5. CASE TrackerFails
  <2>1. Tracker \in Actors
    BY DEF Actors
  <2>2. UNCHANGED <<tables, chain>> /\ Throw(Tracker, req[Tracker])
    BY <1>5 DEF TrackerFails, StatementFails
  <2> QED BY <1>2, <2>1, <2>2, ThrowComplete DEF chain
<1>6. ASSUME NEW a \in Payable, Pay(a) PROVE CompleteInv'
  <2>1. UNCHANGED <<req, addrs, addrIds, outs, clean>> /\ used \subseteq used'
    BY <1>6 DEF Pay, tables, ids, history
  <2>2. ASSUME NEW x \in clean PROVE Complete(req[x], used', addrs, addrIds[x], outs)
    <3>1. Complete(req[x], used, addrs, addrIds[x], outs)
      BY <1>1 DEF AllComplete
    <3> QED BY <2>1, <3>1, CompleteGrows
  <2>3. AllComplete'
    BY <2>1, <2>2 DEF AllComplete
  <2> QED BY <1>1, <1>6, <2>3, PayWithinGap DEF CompleteInv
<1>7. CASE UNCHANGED vars
  BY <1>1, <1>2, <1>7 DEF vars, tables, ids, chain, history, AllComplete, AllCompleteNext
<1> QED BY <1>3, <1>4, <1>5, <1>6, <1>7 DEF Next

LEMMA CompleteInitially ==
    ASSUME Init
    PROVE  CompleteInv
<1>1. UsedWithinGap
  BY ImportAssumption DEF Init, UsedWithinGap
<1>2. Idle.pc \in PrepSteps /\ Idle.base = {}
  BY DEF Idle, PrepSteps
<1>3. \A x \in clean : req[x] = Idle
  BY DEF Init, Actors
<1>4. \A x \in clean : Complete(Idle, used, addrs, addrIds[x], outs)
  BY <1>2, CompletePrep
<1> QED BY <1>1, <1>3, <1>4 DEF CompleteInv, AllComplete

(* A restoration, or a rescan from index 0, that is answered without a     *)
(* failure has stored every transaction of the addresses its scheme had    *)
(* used when it started: for any gap limits, any use of the addresses      *)
(* within them, whatever other requests run and whatever is paid meanwhile, *)
(* unless the account is deleted.                                          *)
THEOREM ImportCompletes == Spec => []ImportIsComplete
<1>1. Init => IInv /\ CompleteInv
  BY Initially, CompleteInitially
<1>2. IInv /\ CompleteInv /\ [Next]_vars => IInv' /\ CompleteInv'
  BY Invariance, CompleteInvariance
<1>3. IInv /\ CompleteInv => ImportIsComplete
  <2> SUFFICES ASSUME IInv, CompleteInv, NEW r \in clean, At(r, "done"), Whole(req[r])
               PROVE  req[r].base \subseteq outs
    BY DEF ImportIsComplete, Whole
  <2>1. Complete(req[r], used, addrs, addrIds[r], outs)
    BY DEF CompleteInv, AllComplete
  <2> QED BY <2>1 DEF Complete, StoredSteps, At
<1> QED BY <1>1, <1>2, <1>3, PTL DEF Spec

=============================================================================
