----------------------------- MODULE Notifications -----------------------------
(***************************************************************************)
(* accounts/notifications-service.ts: the subscriptions of the clients     *)
(* connected over web sockets, and the notifications they get. A client    *)
(* that reconnects is another connection. The messages of a connection are *)
(* handled one after the other, after their token is verified if           *)
(* authentication is mandatory: anything may happen between the reception  *)
(* of a message and its handling, nothing in the middle of the latter.     *)
(***************************************************************************)
EXTENDS Integers, FiniteSets, Sequences

CONSTANTS
    Clients,        \* connections
    Topics,         \* addresses and xpubs
    NoTopic,        \* an input or output that belongs to no tracked xpub
    BlockTopic,     \* topic of blocks_sub
    Entities,       \* the texts that clients send with addr_sub
    TopicsOf,       \* parseEntities: the topics of a text; one that is a single
                    \* address or xpub is the topic itself
    KeyedTopics,    \* those of its topics that a text gives by a pubkey
    Sessions,       \* transactions of the wallets
    Ends,           \* inputs and outputs of each transaction: [addr, xpub]
    AuthMandatory,  \* keys.auth.mandatory
    MaxMessages     \* bound: messages received

ASSUME NotificationsAssumption ==
    /\ IsFiniteSet(Clients)
    /\ BlockTopic \notin Topics /\ NoTopic \notin Topics
    /\ TopicsOf \in [Entities -> SUBSET Topics]
    /\ KeyedTopics \in [Entities -> SUBSET Topics]
    /\ \A m \in Entities : KeyedTopics[m] \subseteq TopicsOf[m]
    /\ \A m \in Entities \cap Topics : TopicsOf[m] = {m}
    /\ Ends \in [Sessions -> SUBSET [addr : Topics, xpub : Topics \cup {NoTopic}]]
    /\ AuthMandatory \in BOOLEAN /\ MaxMessages \in Nat

AllTopics == Topics \cup {BlockTopic}
Messages == Entities \cup {BlockTopic}

VARIABLES
    readyState,     \* state of each socket
    messages,       \* messages of each socket that wait to be handled
    conn,           \* dictionary of connections
    clients,        \* status.clients
    subs,           \* connections by topic
    connSubs,       \* topics by connection (conn.subs)
    cacheSubs,      \* texts of the recent subscriptions
    cachePubKeys,   \* topics with a known pubkey
    received,       \* number of messages received
    sent            \* what each connection got of the last notification

wsVars == <<readyState, messages, conn, clients, subs, connSubs, cacheSubs,
            cachePubKeys, received, sent>>

WsInit ==
    /\ readyState = [c \in Clients |-> "new"]
    /\ messages = [c \in Clients |-> <<>>]
    /\ conn = {} /\ clients = 0
    /\ subs = [t \in AllTopics |-> {}]
    /\ connSubs = [c \in Clients |-> {}]
    /\ cacheSubs = {} /\ cachePubKeys = {}
    /\ received = 0
    /\ sent = [c \in Clients |-> {}]

-----------------------------------------------------------------------------
\* Event 'connection'
Connect(c) ==
    /\ readyState[c] = "new"
    /\ readyState' = [readyState EXCEPT ![c] = "open"]
    /\ conn' = conn \cup {c}
    /\ clients' = clients + 1
    /\ UNCHANGED <<messages, subs, connSubs, cacheSubs, cachePubKeys, received, sent>>

\* Fault: each closure counts.
CloseConnection_CountsTwice(c, forced) ==
    /\ subs' = [t \in AllTopics |-> IF t \in connSubs[c] THEN subs[t] \ {c} ELSE subs[t]]
    /\ cachePubKeys' = cachePubKeys \ {t \in connSubs[c] : subs[t] = {c}}
    /\ cacheSubs' = IF forced THEN cacheSubs ELSE cacheSubs \ connSubs[c]
    /\ conn' = conn \ {c}
    /\ clients' = clients - 1
    /\ UNCHANGED connSubs

\* _closeWSConnection: called once by the server at most, and then, or else, once when
\* the socket is closed
CloseConnection(c, forced) ==
    /\ subs' = [t \in AllTopics |-> IF t \in connSubs[c] THEN subs[t] \ {c} ELSE subs[t]]
    /\ cachePubKeys' = cachePubKeys \ {t \in connSubs[c] : subs[t] = {c}}
    /\ cacheSubs' = IF forced THEN cacheSubs ELSE cacheSubs \ connSubs[c]
    /\ conn' = conn \ {c}
    /\ clients' = IF c \in conn THEN clients - 1 ELSE clients
    /\ UNCHANGED connSubs

\* The server closes the socket, if it is open; event 'close' will follow.
ForceClose(c) ==
    /\ CloseConnection(c, TRUE)
    /\ readyState' = [readyState EXCEPT ![c] = IF @ = "open" THEN "closing" ELSE @]

\* Event 'message': text waits for its turn, binary data is refused at once. They
\* still arrive while the server closes the socket.
ReceiveText(c, m) ==
    /\ readyState[c] \in {"open", "closing"} /\ received < MaxMessages
    /\ messages' = [messages EXCEPT ![c] = Append(@, m)]
    /\ received' = received + 1
    /\ UNCHANGED <<readyState, conn, clients, subs, connSubs, cacheSubs, cachePubKeys, sent>>

ReceiveBinary(c) ==
    /\ readyState[c] \in {"open", "closing"} /\ received < MaxMessages
    /\ ForceClose(c)
    /\ received' = received + 1
    /\ UNCHANGED <<messages, sent>>

\* Event 'error'
SocketError(c) ==
    /\ readyState[c] = "open"
    /\ ForceClose(c)
    /\ UNCHANGED <<messages, received, sent>>

\* The peer closes, or the connection is lost.
PeerCloses(c) ==
    /\ readyState[c] = "open"
    /\ readyState' = [readyState EXCEPT ![c] = "closing"]
    /\ UNCHANGED <<messages, conn, clients, subs, connSubs, cacheSubs, cachePubKeys,
                   received, sent>>

\* Event 'close'
SocketClosed(c) ==
    /\ readyState[c] = "closing"
    /\ readyState' = [readyState EXCEPT ![c] = "closed"]
    /\ CloseConnection(c, FALSE)
    /\ UNCHANGED <<messages, received, sent>>

\* _addsub of each topic of ts
AddSubs(c, ts) ==
    /\ connSubs' = [connSubs EXCEPT ![c] = @ \cup ts]
    /\ subs' = [t \in AllTopics |->
                  IF t \in ts \ connSubs[c] THEN subs[t] \cup {c} ELSE subs[t]]

\* A text that was subscribed to in the last minute is taken for a flood.
Subscribe(c, m) ==
    \/ /\ m \in cacheSubs
       /\ ForceClose(c)
    \/ /\ m \notin cacheSubs
       /\ cacheSubs' = cacheSubs \cup {m}
       /\ AddSubs(c, TopicsOf[m])
       /\ cachePubKeys' = cachePubKeys \cup KeyedTopics[m]
       /\ UNCHANGED <<readyState, conn, clients>>

\* Fault: the state of the socket is not looked at again once the token is verified.
StillOpen_NotChecked(c) == TRUE

StillOpen(c) == readyState[c] = "open"

\* _handleWSMessage: the token is refused, the socket has closed meanwhile, or the
\* operation is done.
HandleMessage(c) ==
    /\ messages[c] # <<>>
    /\ messages' = [messages EXCEPT ![c] = Tail(@)]
    /\ UNCHANGED <<received, sent>>
    /\ LET m == Head(messages[c])
       IN  \/ /\ AuthMandatory \/ ~StillOpen(c)
              /\ UNCHANGED <<readyState, conn, clients, subs, connSubs, cacheSubs, cachePubKeys>>
           \/ StillOpen(c) /\ m \in Entities /\ Subscribe(c, m)
           \/ /\ StillOpen(c) /\ m = BlockTopic
              /\ AddSubs(c, {BlockTopic})
              /\ UNCHANGED <<readyState, conn, clients, cacheSubs, cachePubKeys>>

\* An entry of the cache is a minute old, or gives way to newer ones.
ForgetSubscription(m) ==
    /\ m \in cacheSubs
    /\ cacheSubs' = cacheSubs \ {m}
    /\ UNCHANGED <<readyState, messages, conn, clients, subs, connSubs, cachePubKeys,
                   received, sent>>

-----------------------------------------------------------------------------
(* Notifications of the tracker *)

TopicOf(e) == IF e.xpub # NoTopic THEN e.xpub ELSE e.addr

Reached(c) == c \in conn /\ readyState[c] = "open"

\* Fault: a client gets the whole transaction.
TailoredFor_Whole(c, t) ==
    IF \E e \in Ends[t] : c \in subs[TopicOf(e)] THEN Ends[t] ELSE {}

\* The inputs and outputs whose topics the client subscribed to
TailoredFor(c, t) == {e \in Ends[t] : c \in subs[TopicOf(e)]}

\* notifyTransaction, once the transaction is read from the database
NotifyTransaction(t) ==
    /\ sent' = [c \in Clients |-> IF Reached(c) THEN TailoredFor(c, t) ELSE {}]
    /\ UNCHANGED <<readyState, messages, conn, clients, subs, connSubs, cacheSubs,
                   cachePubKeys, received>>

\* notifyBlock
NotifyBlock ==
    /\ sent' = [c \in Clients |->
                  IF Reached(c) /\ c \in subs[BlockTopic] THEN {BlockTopic} ELSE {}]
    /\ UNCHANGED <<readyState, messages, conn, clients, subs, connSubs, cacheSubs,
                   cachePubKeys, received>>

-----------------------------------------------------------------------------
SocketEvent(c) ==
    \/ Connect(c) \/ PeerCloses(c) \/ SocketClosed(c) \/ SocketError(c)
    \/ \E m \in Messages : ReceiveText(c, m)
    \/ ReceiveBinary(c)
    \/ HandleMessage(c)

WsNext ==
    \/ \E c \in Clients : SocketEvent(c)
    \/ \E m \in Entities : ForgetSubscription(m)
    \/ \E t \in Sessions : NotifyTransaction(t)
    \/ NotifyBlock

WsSpec == WsInit /\ [][WsNext]_wsVars

-----------------------------------------------------------------------------
(* Properties *)

WsTypeOK ==
    /\ readyState \in [Clients -> {"new", "open", "closing", "closed"}]
    /\ messages \in [Clients -> Seq(Messages)]
    /\ conn \subseteq Clients /\ clients \in Nat
    /\ subs \in [AllTopics -> SUBSET Clients]
    /\ connSubs \in [Clients -> SUBSET AllTopics]
    /\ cacheSubs \subseteq Entities /\ cachePubKeys \subseteq Topics
    /\ received \in Nat
    /\ DOMAIN sent = Clients

\* "The socket may have closed while its token was being verified" (200): whatever
\* the order of messages, verifications, errors and closures, the two tables of
\* subscriptions agree, no connection that is gone keeps one, which nothing would
\* ever remove, and the counter of clients is right.
NoGhostSubscription ==
    /\ \A c \in Clients, t \in AllTopics : c \in subs[t] <=> c \in conn /\ t \in connSubs[c]
    /\ \A c \in conn : readyState[c] \in {"open", "closing"}
    /\ clients = Cardinality(conn)
    /\ \A t \in cachePubKeys : subs[t] # {}

\* A client that subscribes to one address or xpub is taken for a flood only while
\* another connection that subscribed to it is not closed: closing removes the topic
\* from the cache. (For a text of several entities, or one that is parsed into another
\* address or xpub, it does not: the cache has the text and the topics are removed.)
FloodIsOfSomebodyHere ==
    \A m \in cacheSubs \cap Topics :
        \E c \in Clients : m \in connSubs[c] /\ readyState[c] # "closed"

\* What the service keeps about subscriptions is about connections that are there.
SubscriptionsAreAlive == NoGhostSubscription /\ FloodIsOfSomebodyHere

\* "Notify each client once of a relevant transaction", "maintain privacy of other
\* parties" (320): each open connection gets those inputs and outputs whose topic it
\* subscribed to, and nothing else.
OwnTopicsOnly ==
    [][\A t \in Sessions : NotifyTransaction(t) =>
         \A c \in Clients :
            sent'[c] = IF readyState[c] = "open"
                       THEN {e \in Ends[t] : TopicOf(e) \in connSubs[c]} ELSE {}]_wsVars
=============================================================================
