----------------------------- MODULE Authorizations -----------------------------
(***************************************************************************)
(* lib/auth: the sessions of the API. An API key of the configuration or   *)
(* of the database, the admin key, or an Auth47 challenge approved with    *)
(* the payment code of the administrator, gives a pair of tokens; the      *)
(* refresh token gives access tokens; nothing revokes a token. The keys of *)
(* the database are managed by support-rest-api.ts, under the admin        *)
(* profile. Authentication is active.                                      *)
(*                                                                         *)
(* A request reads the clock once here: the clock does not move between    *)
(* the check of a key and the generation of the tokens.                    *)
(***************************************************************************)
EXTENDS Integers, FiniteSets

CONSTANTS
    ApiKeys,        \* keys of the table api_keys, past, present or future
    ConfiguredKeys, \* keys.auth.strategies.localApiKey.apiKeys
    AdminKey,       \* keys.auth.strategies.localApiKey.adminKey
    Nonces,         \* challenges that may be drawn
    MaxNonces, NonceTtl,    \* MAX_NONCES, NONCE_TTL_MS
    AccessExpires, RefreshExpires,  \* lifetimes of the tokens
    Expiries,       \* expiries that are given to API keys
    MaxTime,        \* bound: the clock
    MaxTokens       \* bound: tokens that clients hold

ASSUME AuthorizationsAssumption ==
    /\ MaxNonces \in Nat \ {0} /\ NonceTtl \in Nat \ {0}
    /\ AccessExpires \in Nat \ {0} /\ RefreshExpires \in Nat \ {0}
    /\ Expiries \subseteq Nat /\ MaxTime \in Nat /\ MaxTokens \in Nat
    /\ IsFiniteSet(Nonces)
    /\ AdminKey \notin ApiKeys \cup ConfiguredKeys \cup Nonces
    /\ ApiKeys \cap Nonces = {} /\ ConfiguredKeys \cap (ApiKeys \cup Nonces) = {}

Credentials == ApiKeys \cup ConfiguredKeys \cup {AdminKey} \cup Nonces
KeyRows == [exists : BOOLEAN, active : BOOLEAN, expiresAt : Nat]
NoRow == [exists |-> FALSE, active |-> FALSE, expiresAt |-> 0]

VARIABLES
    now,            \* the clock
    nonces,         \* state and expiry of each challenge
    apiKeys,        \* row of each key in api_keys
    updating,       \* updates of rows whose id is read: what they will write
    logins,         \* API keys found active, whose tokens are not made yet
    tokens,         \* tokens in use: type, profile, expiry, the credential they come from
    lastActive,     \* history: last time each API key was active
    approvals,      \* history: challenges that the administrator's payment code signed
    sessions        \* history: number of pairs of tokens each challenge gave

authVars == <<now, nonces, apiKeys, updating, logins, tokens, lastActive, approvals, sessions>>

\* isApiKeyActive
IsApiKeyActive(k, rows, time) == rows[k].exists /\ rows[k].active /\ rows[k].expiresAt > time

LastActive(rows, time) ==
    [k \in ApiKeys |-> IF IsApiKeyActive(k, rows, time) THEN time ELSE lastActive[k]]

AuthInit ==
    /\ now = 0
    /\ nonces = [n \in Nonces |-> [state |-> "unborn", expiresAt |-> 0]]
    /\ apiKeys \in [ApiKeys -> {NoRow} \cup [exists : {TRUE}, active : {TRUE}, expiresAt : Expiries]]
    /\ updating = [k \in ApiKeys |-> NoRow]
    /\ logins = {} /\ tokens = {}
    /\ lastActive = [k \in ApiKeys |-> IF IsApiKeyActive(k, apiKeys, 0) THEN 0 ELSE -1]
    /\ approvals = {}
    /\ sessions = [n \in Nonces |-> 0]

-----------------------------------------------------------------------------
(* Tokens: authorizations-manager.ts *)

\* The library refuses a token that is expired.
Verify(t) == t.exp > now

VerifyRefreshToken(t) == Verify(t) /\ t.type = "refresh-token"

VerifyAccessToken(t) == Verify(t) /\ t.type = "access-token"

GenerateAccessToken(prf, from) ==
    [type |-> "access-token", prf |-> prf, exp |-> now + AccessExpires, from |-> from]

GenerateRefreshToken(prf, from) ==
    [type |-> "refresh-token", prf |-> prf, exp |-> now + RefreshExpires, from |-> from]

\* generateAuthorizations
GenerateAuthorizations(prf, from) ==
    /\ Cardinality(tokens) + 2 <= MaxTokens
    /\ tokens' = tokens \cup {GenerateAccessToken(prf, from), GenerateRefreshToken(prf, from)}

\* checkAuthentication and checkHasAdminProfile, when authentication is mandatory
CheckAuthentication(t) == VerifyAccessToken(t)
CheckHasAdminProfile(t) == VerifyAccessToken(t) /\ t.prf = "admin"

AdminAsks == \E t \in tokens : CheckHasAdminProfile(t)

\* POST /auth/login with the admin key
LoginAdmin ==
    /\ GenerateAuthorizations("admin", AdminKey)
    /\ UNCHANGED <<now, nonces, apiKeys, updating, logins, lastActive, approvals, sessions>>

\* POST /auth/login with an API key of the configuration, which is not looked up
LoginConfigured(k) ==
    /\ GenerateAuthorizations("api", k)
    /\ UNCHANGED <<now, nonces, apiKeys, updating, logins, lastActive, approvals, sessions>>

\* POST /auth/login with another API key: it is looked up,
Authenticate(k) ==
    /\ IsApiKeyActive(k, apiKeys, now)
    /\ logins' = logins \cup {k}
    /\ UNCHANGED <<now, nonces, apiKeys, updating, tokens, lastActive, approvals, sessions>>

\* and the tokens are made.
Login(k) ==
    /\ k \in logins
    /\ GenerateAuthorizations("api", k)
    /\ logins' = logins \ {k}
    /\ UNCHANGED <<now, nonces, apiKeys, updating, lastActive, approvals, sessions>>

\* Fault: the refresh token is renewed too.
RefreshAuthorizations_Slides(t) ==
    /\ VerifyRefreshToken(t)
    /\ GenerateAuthorizations(t.prf, t.from)
    /\ UNCHANGED <<now, nonces, apiKeys, updating, logins, lastActive, approvals, sessions>>

\* POST /auth/refresh: another access token, for the profile of the refresh token
RefreshAuthorizations(t) ==
    /\ VerifyRefreshToken(t)
    /\ Cardinality(tokens) < MaxTokens
    /\ tokens' = tokens \cup {GenerateAccessToken(t.prf, t.from)}
    /\ UNCHANGED <<now, nonces, apiKeys, updating, logins, lastActive, approvals, sessions>>

-----------------------------------------------------------------------------
(* API keys: support-rest-api.ts *)

\* createApiKey: the key is drawn at random, and is a new one.
CreateApiKey(k, expiresAt) ==
    /\ AdminAsks
    /\ apiKeys[k] = NoRow
    /\ apiKeys' = [apiKeys EXCEPT ![k] =
                     [exists |-> TRUE, active |-> TRUE, expiresAt |-> expiresAt]]
    /\ lastActive' = LastActive(apiKeys', now)
    /\ UNCHANGED <<now, nonces, updating, logins, tokens, approvals, sessions>>

\* updateApiKey: the id of the row is read,
FindApiKey(k, row) ==
    /\ AdminAsks
    /\ apiKeys[k].exists
    /\ updating' = [updating EXCEPT ![k] = row]
    /\ UNCHANGED <<now, nonces, apiKeys, logins, tokens, lastActive, approvals, sessions>>

\* and the row of that id is written, if there still is one.
UpdateApiKey(k) ==
    /\ updating[k].exists
    /\ apiKeys' = [apiKeys EXCEPT ![k] = IF @.exists THEN updating[k] ELSE @]
    /\ updating' = [updating EXCEPT ![k] = NoRow]
    /\ lastActive' = LastActive(apiKeys', now)
    /\ UNCHANGED <<now, nonces, logins, tokens, approvals, sessions>>

\* deleteApiKey: the value of the key is never drawn again.
DeleteApiKey(k) ==
    /\ AdminAsks
    /\ apiKeys[k].exists
    /\ apiKeys' = [apiKeys EXCEPT ![k].exists = FALSE, ![k].active = FALSE]
    /\ UNCHANGED <<now, nonces, updating, logins, tokens, lastActive, approvals, sessions>>

-----------------------------------------------------------------------------
(* Auth47: auth47-nonces.ts, and its callers in auth-rest-api.ts *)

Held(ns) == {n \in Nonces : ns[n].state \in {"pending", "approved"}}

Drop(ns, dead) == [n \in Nonces |-> IF n \in dead THEN [ns[n] EXCEPT !.state = "gone"] ELSE ns[n]]

\* The challenges that are left once the expired ones are deleted
Purged(ns) == Drop(ns, {n \in Held(ns) : ns[n].expiresAt <= now})

TooManyPending == Cardinality(Held(Purged(nonces))) >= MaxNonces

\* getAuth47Uri
CreateNonce(n) ==
    /\ nonces[n].state = "unborn"
    /\ ~TooManyPending
    /\ nonces' = [Purged(nonces) EXCEPT ![n] =
                    [state |-> "pending", expiresAt |-> now + NonceTtl]]
    /\ UNCHANGED <<now, apiKeys, updating, logins, tokens, lastActive, approvals, sessions>>

\* getAuth47Uri: too many pending requests
RefuseNonce ==
    /\ TooManyPending
    /\ nonces' = Purged(nonces)
    /\ UNCHANGED <<now, apiKeys, updating, logins, tokens, lastActive, approvals, sessions>>

\* get(): a challenge that expired is deleted.
Got(n) == n \in Held(nonces) /\ nonces[n].expiresAt > now
GotNothing(n) ==
    /\ ~Got(n)
    /\ nonces' = Drop(nonces, {n} \cap Held(nonces))

\* authenticateAuth47, for a proof that the payment code of the administrator signed
AuthenticateAuth47(n) ==
    /\ \/ /\ Got(n)
          /\ nonces' = [nonces EXCEPT ![n].state = "approved"]
          /\ approvals' = approvals \cup {n}
       \/ GotNothing(n) /\ UNCHANGED approvals
    /\ UNCHANGED <<now, apiKeys, updating, logins, tokens, lastActive, sessions>>

\* Fault: the challenge is left in place, approved.
Consumed_Kept(n) == nonces

Consumed(n) == Drop(nonces, {n})

\* checkAuth47Status: missing or pending, or the tokens
CheckAuth47Status(n) ==
    /\ \/ GotNothing(n) /\ UNCHANGED <<tokens, sessions>>
       \/ /\ Got(n) /\ nonces[n].state = "pending"
          /\ UNCHANGED <<nonces, tokens, sessions>>
       \/ /\ Got(n) /\ nonces[n].state = "approved"
          /\ nonces' = Consumed(n)
          /\ GenerateAuthorizations("admin", n)
          /\ sessions' = [sessions EXCEPT ![n] = @ + 1]
    /\ UNCHANGED <<now, apiKeys, updating, logins, lastActive, approvals>>

-----------------------------------------------------------------------------
\* The clock moves between the requests. Clients forget the tokens that expire, which
\* Verify would refuse.
Tick ==
    /\ now < MaxTime /\ logins = {}
    /\ now' = now + 1
    /\ lastActive' = LastActive(apiKeys, now')
    /\ tokens' = {t \in tokens : t.exp > now'}
    /\ UNCHANGED <<nonces, apiKeys, updating, logins, approvals, sessions>>

ManageApiKeys ==
    \E k \in ApiKeys :
        \/ \E e \in Expiries : CreateApiKey(k, e)
        \/ \E row \in [exists : {TRUE}, active : BOOLEAN, expiresAt : Expiries] : FindApiKey(k, row)
        \/ UpdateApiKey(k)
        \/ DeleteApiKey(k)

AuthNext ==
    \/ LoginAdmin
    \/ \E k \in ConfiguredKeys : LoginConfigured(k)
    \/ \E k \in ApiKeys : Authenticate(k) \/ Login(k)
    \/ \E t \in tokens : RefreshAuthorizations(t)
    \/ ManageApiKeys
    \/ \E n \in Nonces : CreateNonce(n) \/ AuthenticateAuth47(n) \/ CheckAuth47Status(n)
    \/ RefuseNonce
    \/ Tick

AuthSpec == AuthInit /\ [][AuthNext]_authVars

-----------------------------------------------------------------------------
(* Properties *)

AuthTypeOK ==
    /\ now \in Nat
    /\ nonces \in [Nonces -> [state : {"unborn", "pending", "approved", "gone"}, expiresAt : Nat]]
    /\ apiKeys \in [ApiKeys -> KeyRows] /\ updating \in [ApiKeys -> KeyRows]
    /\ logins \subseteq ApiKeys
    /\ \A t \in tokens : t \in [type : {"access-token", "refresh-token"}, prf : {"api", "admin"},
                                exp : Nat, from : Credentials]
    /\ lastActive \in [ApiKeys -> Nat \cup {-1}]
    /\ approvals \subseteq Nonces /\ sessions \in [Nonces -> Nat]

\* "Tokens are not revoked by the existing logout endpoint" (103), nor when a key is
\* of the database is deleted, is deactivated or expires: its sessions end by themselves all
\* the same, at most the lifetimes of a refresh token and of an access token after the last
\* time the key was active; and however a session was continued, it has the profile of the
\* credential that opened it, and admin only from the admin key or a challenge that was
\* approved.
SessionsEndAfterKey ==
    \A t \in tokens : CheckAuthentication(t) =>
        /\ t.from \in ApiKeys =>
             t.prf = "api" /\ now < lastActive[t.from] + RefreshExpires + AccessExpires
        /\ t.from \in ConfiguredKeys => t.prf = "api"
        /\ t.from \in Nonces => t.from \in approvals

\* A challenge opens one session at most, once it was signed, and less than its
\* lifetime after it was drawn.
OneSessionPerApproval ==
    [][\A n \in Nonces : sessions'[n] # sessions[n] =>
         sessions[n] = 0 /\ n \in approvals /\ now < nonces[n].expiresAt]_authVars

\* New challenges are refused only while as many as the limit were drawn in the last
\* ten minutes and opened no session: it recovers by itself.
RefusedOnlyWhenFull ==
    TooManyPending =>
        Cardinality({n \in Nonces : /\ nonces[n].state # "unborn" /\ sessions[n] = 0
                                    /\ nonces[n].expiresAt > now}) >= MaxNonces

\* Nothing is revoked and nobody tidies up, and yet all that was granted ends by itself: the
\* sessions of a key, and the places that pending challenges take.
GrantsExpire == SessionsEndAfterKey /\ RefusedOnlyWhenFull
=============================================================================
