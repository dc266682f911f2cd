------------------------ MODULE AuthorizationServer ------------------------
(***************************************************************************)
(* The OAuth server of mcp-auth: five tables in memory, each behind a lock *)
(* of its own (oauth/store.rs), and the handlers of the requests that read *)
(* and change them, each a task that can be interrupted, or dropped, at    *)
(* every await.                                                            *)
(*                                                                         *)
(* A flow is one authorization, named by the id of its consent page.       *)
(* Records carry their flow, which the code's records do not.              *)
(***************************************************************************)
EXTENDS Naturals

CONSTANTS
    Clients,      \* clients, named by the client_id that registering gives them
    Subs,         \* Google accounts
    AllowedSubs,  \* the owner allowlist; empty means anybody (dev mode)
    Tasks,        \* requests handled at the same time
    None,         \* no entry in a table
    PendingTtl,   \* ten minutes, the life of a consent page and of a Google state
    TokenTtl,     \* token_ttl_secs
    MaxFlows, MaxLogins, MaxCodes, MaxTokens,  \* bounds: ids given out
    MaxTime       \* bound: the clock

ASSUME TtlAssumption == PendingTtl \in Nat \ {0} /\ TokenTtl \in Nat \ {0}

ASSUME BoundAssumption ==
    /\ MaxFlows \in Nat /\ MaxLogins \in Nat /\ MaxCodes \in Nat
    /\ MaxTokens \in Nat /\ MaxTime \in Nat

VARIABLES
    registered,   \* clients: the registered clients
    pending,      \* pending_auth: consent pages by flow
    google,       \* google_oauth_state: round trips to Google
    sessions,     \* sessions: what a code stands for
    tokens,       \* tokens: access tokens, with their refresh tokens
    ids,          \* how many ids of each kind were given out
    now,          \* the clock
    at,           \* the lock or answer a task waits for
    target,       \* the id a task looks for
    held          \* the grant a task has taken out of the tables

tables == <<registered, pending, google, sessions, tokens, ids>>
task == <<at, target, held>>
vars == <<tables, now, task>>

Flows == 1 .. MaxFlows
Grant == [flow : Flows, client : Clients, sub : Subs \cup {None}]

PendingAuth == [client : Clients, created : 0 .. MaxTime]
GoogleOAuthState == [flow : Flows, created : 0 .. MaxTime]
StoredToken == [grant : Grant, issued : 0 .. MaxTime]

ASSUME NoneAssumption == None \notin Grant \cup PendingAuth \cup StoredToken

\* Where a task is: idle, in /login after the look at the consent page, in the
\* callback before and after it takes the page, in a refresh after the token is
\* found, or in /token with a grant in its hands.
Places == {"idle", "login", "purge", "callback", "exchange", "remove", "issue"}

Ids == [flow : 0 .. MaxFlows, login : 0 .. MaxLogins, code : 0 .. MaxCodes, token : 0 .. MaxTokens]

TypeOK ==
    /\ registered \subseteq Clients
    /\ pending \in [Flows -> PendingAuth \cup {None}]
    /\ google \in [1 .. MaxLogins -> GoogleOAuthState \cup {None}]
    /\ sessions \in [1 .. MaxCodes -> Grant \cup {None}]
    /\ tokens \in [1 .. MaxTokens -> StoredToken \cup {None}]
    /\ ids \in Ids
    /\ now \in 0 .. MaxTime
    /\ at \in [Tasks -> Places]
    /\ target \in [Tasks -> Nat]
    /\ held \in [Tasks -> Grant \cup {None}]

-----------------------------------------------------------------------------
(* The store: one lock, one operation.                                     *)

Expired(created) == now - created >= PendingTtl

\* StoredToken::is_expired
TokenExpired(t) == now - tokens[t].issued >= TokenTtl

\* validate_token, which bearer_auth_middleware asks before it lets a call through.
Valid(t) == tokens[t] # None /\ ~TokenExpired(t)

SavePendingAuth(c) ==
    /\ ids.flow < MaxFlows
    /\ ids' = [ids EXCEPT !.flow = @ + 1]
    /\ pending' = [pending EXCEPT ![ids.flow + 1] = [client |-> c, created |-> now]]

\* Mutant: the time of expiry is stored in place of the time of creation.
SaveGoogleState_Expiry(f) ==
    /\ ids.login < MaxLogins
    /\ ids' = [ids EXCEPT !.login = @ + 1]
    /\ google' = [google EXCEPT ![ids.login + 1] = [flow |-> f, created |-> now + PendingTtl]]

SaveGoogleState(f) ==
    /\ ids.login < MaxLogins
    /\ ids' = [ids EXCEPT !.login = @ + 1]
    /\ google' = [google EXCEPT ![ids.login + 1] = [flow |-> f, created |-> now]]

SaveSession(g) ==
    /\ ids.code < MaxCodes
    /\ ids' = [ids EXCEPT !.code = @ + 1]
    /\ sessions' = [sessions EXCEPT ![ids.code + 1] = g]

SaveToken(g) ==
    /\ ids.token < MaxTokens
    /\ ids' = [ids EXCEPT !.token = @ + 1]
    /\ tokens' = [tokens EXCEPT ![ids.token + 1] = [grant |-> g, issued |-> now]]

\* The id of a consent page is that of its flow.
PendingGrant(f) == [flow |-> f, client |-> pending[f].client, sub |-> None]

OwnerAllowed(s) == s \in AllowedSubs \/ AllowedSubs = {}

GoTo(r, p, t, g) ==
    /\ at' = [at EXCEPT ![r] = p]
    /\ target' = [target EXCEPT ![r] = t]
    /\ held' = [held EXCEPT ![r] = g]

Answer(r) == GoTo(r, "idle", 0, None)

-----------------------------------------------------------------------------
(* Handlers.  A request that is refused before it changes anything is not  *)
(* a step.                                                                 *)

\* POST /oauth/register
Register(c) ==
    /\ registered' = registered \cup {c}
    /\ UNCHANGED <<pending, google, sessions, tokens, ids, now, task>>

\* GET /oauth/authorize.  Clients are never removed, so that the client is looked up
\* and the page saved under two locks makes no difference.
Authorize(c) ==
    /\ c \in registered
    /\ SavePendingAuth(c)
    /\ UNCHANGED <<registered, google, sessions, tokens, now, task>>

\* GET /oauth/google/login: get_pending_auth under the read lock ...
LoginLook(r, f) ==
    /\ at[r] = "idle"
    /\ pending[f] # None
    /\ GoTo(r, IF Expired(pending[f].created) THEN "purge" ELSE "login", f, None)
    /\ UNCHANGED <<tables, now>>

\* ... an expired page removed under the write lock ...
LoginPurge(r) ==
    /\ at[r] = "purge"
    /\ pending' = [pending EXCEPT ![target[r]] = None]
    /\ Answer(r)
    /\ UNCHANGED <<registered, google, sessions, tokens, ids, now>>

\* ... and otherwise a state for the round trip saved.
LoginSave(r) ==
    /\ at[r] = "login"
    /\ SaveGoogleState(target[r])
    /\ Answer(r)
    /\ UNCHANGED <<registered, pending, sessions, tokens, now>>

\* GET /oauth/google/callback: the state is consumed, expired or not ...
CallbackState(r, l) ==
    /\ at[r] = "idle"
    /\ google[l] # None
    /\ google' = [google EXCEPT ![l] = None]
    /\ IF Expired(google[l].created)
       THEN Answer(r)
       ELSE GoTo(r, "callback", google[l].flow, None)
    /\ UNCHANGED <<registered, pending, sessions, tokens, ids, now>>

\* Mutant: the page is looked up as in the login, and not taken.
CallbackPending_Get(r) ==
    /\ at[r] = "callback"
    /\ IF pending[target[r]] = None \/ Expired(pending[target[r]].created)
       THEN Answer(r)
       ELSE GoTo(r, "exchange", 0, PendingGrant(target[r]))
    /\ UNCHANGED <<tables, now>>

\* ... and the consent page, which another callback may have consumed.
CallbackPending(r) ==
    /\ at[r] = "callback"
    /\ pending' = [pending EXCEPT ![target[r]] = None]
    /\ IF pending[target[r]] = None \/ Expired(pending[target[r]].created)
       THEN Answer(r)
       ELSE GoTo(r, "exchange", 0, PendingGrant(target[r]))
    /\ UNCHANGED <<registered, google, sessions, tokens, ids, now>>

\* Google has answered with an identity: the grant becomes a code.
CallbackFinish(r, s) ==
    /\ at[r] = "exchange"
    /\ OwnerAllowed(s)
    /\ SaveSession([held[r] EXCEPT !.sub = s])
    /\ Answer(r)
    /\ UNCHANGED <<registered, pending, google, tokens, now>>

\* Google's answer is an error, or the account is not on the list.
CallbackFails(r) ==
    /\ at[r] = "exchange"
    /\ Answer(r)
    /\ UNCHANGED <<tables, now>>

\* POST /oauth/token with a code: the code is consumed first, and lost when client,
\* redirect_uri, resource or code_verifier turn out not to match.
HandleAuthCode(r, k, c, others) ==
    /\ at[r] = "idle"
    /\ sessions[k] # None
    /\ sessions' = [sessions EXCEPT ![k] = None]
    /\ IF others /\ c = sessions[k].client
       THEN GoTo(r, "issue", 0, sessions[k])
       ELSE Answer(r)
    /\ UNCHANGED <<registered, pending, google, tokens, ids, now>>

\* Mutant: the record found is used, and the removal left for later.
HandleRefresh_Clone(r, t) ==
    /\ at[r] = "idle"
    /\ tokens[t] # None
    /\ GoTo(r, "issue", 0, tokens[t].grant)
    /\ UNCHANGED <<tables, now>>

\* POST /oauth/token with a refresh token, of a token expired or not: found under the
\* read lock ...
HandleRefresh(r, t) ==
    /\ at[r] = "idle"
    /\ tokens[t] # None
    /\ GoTo(r, "remove", t, None)
    /\ UNCHANGED <<tables, now>>

\* Mutant: the old token stays in the table until it expires.
RemoveRefreshed_Keep(r, c) ==
    /\ at[r] = "remove"
    /\ IF tokens[target[r]] # None /\ c = tokens[target[r]].grant.client
       THEN GoTo(r, "issue", 0, tokens[target[r]].grant)
       ELSE Answer(r)
    /\ UNCHANGED <<tables, now>>

\* ... and removed under the write lock, if it is still there; lost when the client
\* does not match.
RemoveRefreshed(r, c) ==
    /\ at[r] = "remove"
    /\ tokens' = [tokens EXCEPT ![target[r]] = None]
    /\ IF tokens[target[r]] # None /\ c = tokens[target[r]].grant.client
       THEN GoTo(r, "issue", 0, tokens[target[r]].grant)
       ELSE Answer(r)
    /\ UNCHANGED <<registered, pending, google, sessions, ids, now>>

IssueToken(r) ==
    /\ at[r] = "issue"
    /\ SaveToken(held[r])
    /\ Answer(r)
    /\ UNCHANGED <<registered, pending, google, sessions, now>>

\* The peer goes away, and the server drops the handler at its await.
Dropped(r) ==
    /\ at[r] # "idle"
    /\ Answer(r)
    /\ UNCHANGED <<tables, now>>

\* A restart clears the tables; ids are random and do not come back.
Restart ==
    /\ registered' = {}
    /\ pending' = [f \in Flows |-> None]
    /\ google' = [l \in 1 .. MaxLogins |-> None]
    /\ sessions' = [k \in 1 .. MaxCodes |-> None]
    /\ tokens' = [t \in 1 .. MaxTokens |-> None]
    /\ at' = [r \in Tasks |-> "idle"]
    /\ target' = [r \in Tasks |-> 0]
    /\ held' = [r \in Tasks |-> None]
    /\ UNCHANGED <<ids, now>>

Tick ==
    /\ now < MaxTime
    /\ now' = now + 1
    /\ UNCHANGED <<tables, task>>

-----------------------------------------------------------------------------

Init ==
    /\ registered = {}
    /\ pending = [f \in Flows |-> None]
    /\ google = [l \in 1 .. MaxLogins |-> None]
    /\ sessions = [k \in 1 .. MaxCodes |-> None]
    /\ tokens = [t \in 1 .. MaxTokens |-> None]
    /\ ids = [flow |-> 0, login |-> 0, code |-> 0, token |-> 0]
    /\ now = 0
    /\ at = [r \in Tasks |-> "idle"]
    /\ target = [r \in Tasks |-> 0]
    /\ held = [r \in Tasks |-> None]

Login(r) == (\E f \in Flows : LoginLook(r, f)) \/ LoginPurge(r) \/ LoginSave(r)

Callback(r) ==
    \/ \E l \in 1 .. MaxLogins : CallbackState(r, l)
    \/ CallbackPending(r)
    \/ \E s \in Subs : CallbackFinish(r, s)
    \/ CallbackFails(r)

TokenRequest(r) ==
    \/ \E k \in 1 .. MaxCodes, c \in Clients, others \in BOOLEAN : HandleAuthCode(r, k, c, others)
    \/ \E t \in 1 .. MaxTokens : HandleRefresh(r, t)
    \/ \E c \in Clients : RemoveRefreshed(r, c)
    \/ IssueToken(r)

Next ==
    \/ \E c \in Clients : Register(c) \/ Authorize(c)
    \/ \E r \in Tasks : Login(r) \/ Callback(r) \/ TokenRequest(r) \/ Dropped(r)
    \/ Restart
    \/ Tick

Spec == Init /\ [][Next]_vars

-----------------------------------------------------------------------------
(* Where the grant of a flow is.                                           *)

Codes(f) == {k \in 1 .. MaxCodes : sessions[k] # None /\ sessions[k].flow = f}
Tokens(f) == {t \in 1 .. MaxTokens : tokens[t] # None /\ tokens[t].grant.flow = f}
Holders(f) == {r \in Tasks : held[r] # None /\ held[r].flow = f}
Consents(f) == {p \in {f} : pending[p] # None}

Locations(f) ==
    ({"consent"} \X Consents(f)) \cup ({"code"} \X Codes(f))
        \cup ({"token"} \X Tokens(f)) \cup ({"task"} \X Holders(f))

\* However many logins, callbacks and refreshes run at once, an authorization is in
\* one place: a consent page, a code, a token, or the hands of one task.
OneGrantPerFlow == \A f \in Flows : \A x, y \in Locations(f) : x = y

\* Two concurrent refreshes leave at most one access token that opens the door.
OneValidToken ==
    \A t, u \in 1 .. MaxTokens :
        Valid(t) /\ Valid(u) /\ tokens[t].grant.flow = tokens[u].grant.flow => t = u

GrantOf(f) ==
    CASE Consents(f) # {} ->
            [place |-> "consent", client |-> pending[f].client, sub |-> None]
      [] Holders(f) # {} ->
            LET r == CHOOSE r \in Holders(f) : TRUE
            IN  [place |-> IF at[r] = "exchange" THEN "signing" ELSE "redeeming",
                 client |-> held[r].client, sub |-> held[r].sub]
      [] Codes(f) # {} ->
            LET g == sessions[CHOOSE k \in Codes(f) : TRUE]
            IN  [place |-> "code", client |-> g.client, sub |-> g.sub]
      [] Tokens(f) # {} ->
            LET g == tokens[CHOOSE t \in Tokens(f) : TRUE].grant
            IN  [place |-> "token", client |-> g.client, sub |-> g.sub]
      [] OTHER -> [place |-> IF f <= ids.flow THEN "gone" ELSE "none",
                   client |-> None, sub |-> None]

OneTime == INSTANCE OneTimeGrant WITH grant <- [f \in Flows |-> GrantOf(f)]

\* The server implements OneTimeGrant: a code is redeemed once, a refresh token is
\* used once, and the token belongs to the client that started the authorization
\* and to the owner who signed in for it.
ImplementsOneTime == OneTime!Spec
=============================================================================
