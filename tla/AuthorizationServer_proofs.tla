--------------------- MODULE AuthorizationServer_proofs ---------------------
(***************************************************************************)
(* The authorization server for any number of clients, tasks, flows and    *)
(* ids: its types, that a flow has one grant at a time, and that it        *)
(* implements OneTimeGrant: each step of a handler moves at most one       *)
(* grant, to the place where the promise says it goes next.                *)
(***************************************************************************)
EXTENDS AuthorizationServer, TLAPS

(* A waiting task has the id, or the grant, that its next step works on.   *)
TaskOK ==
    \A r \in Tasks :
        /\ at[r] \in {"login", "purge", "callback"} => target[r] \in Flows
        /\ at[r] = "remove" => target[r] \in 1 .. MaxTokens
        /\ at[r] \in {"exchange", "issue"} => held[r] \in Grant /\ held[r] # None
        /\ held[r] # None => at[r] \in {"exchange", "issue"}

TypeInv == TypeOK /\ TaskOK

\* The empty server has the types it should have.
LEMMA InitTyped == Init => TypeInv
<1> SUFFICES ASSUME Init
             PROVE  TypeInv
  OBVIOUS
<1>1. pending \in [Flows -> PendingAuth \cup {None}]
  BY DEF Init
<1>2. google \in [1 .. MaxLogins -> GoogleOAuthState \cup {None}]
  BY DEF Init
<1>3. sessions \in [1 .. MaxCodes -> Grant \cup {None}]
  BY DEF Init
<1>4. tokens \in [1 .. MaxTokens -> StoredToken \cup {None}]
  BY DEF Init
<1>5. at \in [Tasks -> Places]
  BY DEF Init, Places
<1>6. target \in [Tasks -> Nat]
  BY DEF Init
<1>7. held \in [Tasks -> Grant \cup {None}]
  BY DEF Init
<1>8. registered \subseteq Clients /\ now \in 0 .. MaxTime
  BY BoundAssumption DEF Init
<1>9. ids \in Ids
  BY BoundAssumption DEF Init, Ids
<1>10. TaskOK
  BY DEF Init, TaskOK
<1>11. QED
  BY <1>1, <1>2, <1>3, <1>4, <1>5, <1>6, <1>7, <1>8, <1>9, <1>10 DEF TypeInv, TypeOK

\* Moving a task to a place with an id and a grant that fit it keeps the tasks sound.
LEMMA GoToTyped ==
    ASSUME TypeInv, NEW r \in Tasks, NEW p \in Places, NEW t \in Nat,
           NEW g \in Grant \cup {None}, GoTo(r, p, t, g),
           p \in {"login", "purge", "callback"} => t \in Flows,
           p = "remove" => t \in 1 .. MaxTokens,
           p \in {"exchange", "issue"} => g \in Grant,
           g # None => p \in {"exchange", "issue"}
    PROVE  /\ at' \in [Tasks -> Places]
           /\ target' \in [Tasks -> Nat]
           /\ held' \in [Tasks -> Grant \cup {None}]
           /\ TaskOK'
<1>1. /\ at' \in [Tasks -> Places]
      /\ target' \in [Tasks -> Nat]
      /\ held' \in [Tasks -> Grant \cup {None}]
  BY DEF GoTo, TypeInv, TypeOK
<1>2. TaskOK'
  BY NoneAssumption DEF GoTo, TypeInv, TypeOK, TaskOK, Flows
<1>3. QED
  BY <1>1, <1>2

\* A task that answers forgets what it had.
LEMMA AnswerTyped ==
    ASSUME TypeInv, NEW r \in Tasks, Answer(r)
    PROVE  /\ at' \in [Tasks -> Places]
           /\ target' \in [Tasks -> Nat]
           /\ held' \in [Tasks -> Grant \cup {None}]
           /\ TaskOK'
BY GoToTyped DEF Answer, Places

\* The store's operations keep the types of the tables.
LEMMA SavesTyped ==
    ASSUME TypeOK
    PROVE  /\ \A c \in Clients : SavePendingAuth(c) =>
                  pending' \in [Flows -> PendingAuth \cup {None}] /\ ids' \in Ids
           /\ \A f \in Flows : SaveGoogleState(f) =>
                  google' \in [1 .. MaxLogins -> GoogleOAuthState \cup {None}] /\ ids' \in Ids
           /\ \A g \in Grant : SaveSession(g) =>
                  sessions' \in [1 .. MaxCodes -> Grant \cup {None}] /\ ids' \in Ids
           /\ \A g \in Grant : SaveToken(g) =>
                  tokens' \in [1 .. MaxTokens -> StoredToken \cup {None}] /\ ids' \in Ids
<1> USE BoundAssumption DEF TypeOK, Flows
<1>1. ASSUME NEW c \in Clients, SavePendingAuth(c)
      PROVE  pending' \in [Flows -> PendingAuth \cup {None}] /\ ids' \in Ids
  <2>1. ids.flow + 1 \in 0 .. MaxFlows /\ ids.flow + 1 \in 1 .. MaxFlows
    BY <1>1 DEF SavePendingAuth, Ids
  <2>2. ids' \in Ids
    BY <1>1, <2>1 DEF SavePendingAuth, Ids
  <2>3. [client |-> c, created |-> now] \in PendingAuth
    BY DEF PendingAuth
  <2>4. QED
    BY <1>1, <2>1, <2>2, <2>3 DEF SavePendingAuth
<1>2. ASSUME NEW f \in Flows, SaveGoogleState(f)
      PROVE  google' \in [1 .. MaxLogins -> GoogleOAuthState \cup {None}] /\ ids' \in Ids
  <2>1. ids.login + 1 \in 0 .. MaxLogins /\ ids.login + 1 \in 1 .. MaxLogins
    BY <1>2 DEF SaveGoogleState, Ids
  <2>2. ids' \in Ids
    BY <1>2, <2>1 DEF SaveGoogleState, Ids
  <2>3. [flow |-> f, created |-> now] \in GoogleOAuthState
    BY DEF GoogleOAuthState
  <2>4. QED
    BY <1>2, <2>1, <2>2, <2>3 DEF SaveGoogleState
<1>3. ASSUME NEW g \in Grant, SaveSession(g)
      PROVE  sessions' \in [1 .. MaxCodes -> Grant \cup {None}] /\ ids' \in Ids
  <2>1. ids.code + 1 \in 0 .. MaxCodes /\ ids.code + 1 \in 1 .. MaxCodes
    BY <1>3 DEF SaveSession, Ids
  <2>2. ids' \in Ids
    BY <1>3, <2>1 DEF SaveSession, Ids
  <2>3. QED
    BY <1>3, <2>1, <2>2 DEF SaveSession
<1>4. ASSUME NEW g \in Grant, SaveToken(g)
      PROVE  tokens' \in [1 .. MaxTokens -> StoredToken \cup {None}] /\ ids' \in Ids
  <2>1. ids.token + 1 \in 0 .. MaxTokens /\ ids.token + 1 \in 1 .. MaxTokens
    BY <1>4 DEF SaveToken, Ids
  <2>2. ids' \in Ids
    BY <1>4, <2>1 DEF SaveToken, Ids
  <2>3. [grant |-> g, issued |-> now] \in StoredToken
    BY DEF StoredToken
  <2>4. QED
    BY <1>4, <2>1, <2>2, <2>3 DEF SaveToken
<1>5. QED
  BY <1>1, <1>2, <1>3, <1>4

\* No step leaves the types.
LEMMA NextTyped ==
    ASSUME TypeInv, [Next]_vars
    PROVE  TypeInv'
<1> USE DEF TypeInv
<1>1. ASSUME NEW c \in Clients, Register(c) \/ Authorize(c)
      PROVE  TypeInv'
  <2>1. CASE Register(c)
    BY <2>1 DEF Register, TypeOK, TaskOK, task
  <2>2. CASE Authorize(c)
    BY <2>2, SavesTyped DEF Authorize, TypeOK, TaskOK, task
  <2>3. QED
    BY <1>1, <2>1, <2>2
<1>2. ASSUME NEW r \in Tasks, Login(r)
      PROVE  TypeInv'
  <2>1. ASSUME NEW f \in Flows, LoginLook(r, f)
        PROVE  TypeInv'
    <3>1. (IF Expired(pending[f].created) THEN "purge" ELSE "login") \in {"purge", "login"}
      OBVIOUS
    <3>2. f \in Nat
      BY DEF Flows
    <3>3. at' \in [Tasks -> Places] /\ target' \in [Tasks -> Nat]
              /\ held' \in [Tasks -> Grant \cup {None}] /\ TaskOK'
      BY <2>1, <3>1, <3>2, GoToTyped DEF LoginLook, Places
    <3>4. QED
      BY <2>1, <3>3 DEF LoginLook, TypeOK, tables
  <2>2. CASE LoginPurge(r)
    BY <2>2, AnswerTyped DEF LoginPurge, TypeOK
  <2>3. CASE LoginSave(r)
    <3>1. target[r] \in Flows
      BY <2>3 DEF LoginSave, TaskOK
    <3>2. QED
      BY <2>3, <3>1, AnswerTyped, SavesTyped DEF LoginSave, TypeOK
  <2>4. QED
    BY <1>2, <2>1, <2>2, <2>3 DEF Login
<1>3. ASSUME NEW r \in Tasks, Callback(r)
      PROVE  TypeInv'
  <2>1. ASSUME NEW l \in 1 .. MaxLogins, CallbackState(r, l)
        PROVE  TypeInv'
    <3>1. google[l] \in GoogleOAuthState
      BY <2>1 DEF CallbackState, TypeOK
    <3>2. google[l].flow \in Flows /\ google[l].flow \in Nat
      BY <3>1 DEF GoogleOAuthState, Flows
    <3>3. at' \in [Tasks -> Places] /\ target' \in [Tasks -> Nat]
              /\ held' \in [Tasks -> Grant \cup {None}] /\ TaskOK'
      BY <2>1, <3>2, GoToTyped, AnswerTyped DEF CallbackState, Places
    <3>4. QED
      BY <2>1, <3>3 DEF CallbackState, TypeOK
  <2>2. CASE CallbackPending(r)
    <3>1. target[r] \in Flows
      BY <2>2 DEF CallbackPending, TaskOK
    <3>2. pending[target[r]] # None => PendingGrant(target[r]) \in Grant
      BY <3>1 DEF PendingGrant, Grant, PendingAuth, TypeOK
    <3>3. at' \in [Tasks -> Places] /\ target' \in [Tasks -> Nat]
              /\ held' \in [Tasks -> Grant \cup {None}] /\ TaskOK'
      BY <2>2, <3>2, GoToTyped, AnswerTyped DEF CallbackPending, Places
    <3>4. QED
      BY <2>2, <3>3 DEF CallbackPending, TypeOK
  <2>3. ASSUME NEW s \in Subs, CallbackFinish(r, s)
        PROVE  TypeInv'
    <3>1. held[r] \in Grant
      BY <2>3 DEF CallbackFinish, TaskOK
    <3>2. [held[r] EXCEPT !.sub = s] \in Grant
      BY <3>1 DEF Grant
    <3>3. QED
      BY <2>3, <3>2, AnswerTyped, SavesTyped DEF CallbackFinish, TypeOK
  <2>4. CASE CallbackFails(r)
    BY <2>4, AnswerTyped DEF CallbackFails, TypeOK, tables
  <2>5. QED
    BY <1>3, <2>1, <2>2, <2>3, <2>4 DEF Callback
<1>4. ASSUME NEW r \in Tasks, TokenRequest(r)
      PROVE  TypeInv'
  <2>1. ASSUME NEW k \in 1 .. MaxCodes, NEW c \in Clients, NEW others \in BOOLEAN,
               HandleAuthCode(r, k, c, others)
        PROVE  TypeInv'
    <3>1. sessions[k] \in Grant
      BY <2>1 DEF HandleAuthCode, TypeOK
    <3>2. at' \in [Tasks -> Places] /\ target' \in [Tasks -> Nat]
              /\ held' \in [Tasks -> Grant \cup {None}] /\ TaskOK'
      BY <2>1, <3>1, GoToTyped, AnswerTyped DEF HandleAuthCode, Places
    <3>3. QED
      BY <2>1, <3>2 DEF HandleAuthCode, TypeOK
  <2>2. ASSUME NEW t \in 1 .. MaxTokens, HandleRefresh(r, t)
        PROVE  TypeInv'
    <3>1. at' \in [Tasks -> Places] /\ target' \in [Tasks -> Nat]
              /\ held' \in [Tasks -> Grant \cup {None}] /\ TaskOK'
      BY <2>2, GoToTyped DEF HandleRefresh, Places
    <3>2. QED
      BY <2>2, <3>1 DEF HandleRefresh, TypeOK, tables
  <2>3. ASSUME NEW c \in Clients, RemoveRefreshed(r, c)
        PROVE  TypeInv'
    <3>1. target[r] \in 1 .. MaxTokens
      BY <2>3 DEF RemoveRefreshed, TaskOK
    <3>2. tokens[target[r]] # None => tokens[target[r]].grant \in Grant
      BY <3>1 DEF TypeOK, StoredToken
    <3>3. at' \in [Tasks -> Places] /\ target' \in [Tasks -> Nat]
              /\ held' \in [Tasks -> Grant \cup {None}] /\ TaskOK'
      BY <2>3, <3>2, GoToTyped, AnswerTyped DEF RemoveRefreshed, Places
    <3>4. QED
      BY <2>3, <3>3 DEF RemoveRefreshed, TypeOK
  <2>4. CASE IssueToken(r)
    <3>1. held[r] \in Grant
      BY <2>4 DEF IssueToken, TaskOK
    <3>2. QED
      BY <2>4, <3>1, AnswerTyped, SavesTyped DEF IssueToken, TypeOK
  <2>5. QED
    BY <1>4, <2>1, <2>2, <2>3, <2>4 DEF TokenRequest
<1>5. ASSUME NEW r \in Tasks, Dropped(r)
      PROVE  TypeInv'
  BY <1>5, AnswerTyped DEF Dropped, TypeOK, tables
<1>6. CASE Restart
  <2>1. pending' \in [Flows -> PendingAuth \cup {None}]
    BY <1>6 DEF Restart
  <2>2. google' \in [1 .. MaxLogins -> GoogleOAuthState \cup {None}]
    BY <1>6 DEF Restart
  <2>3. sessions' \in [1 .. MaxCodes -> Grant \cup {None}]
    BY <1>6 DEF Restart
  <2>4. tokens' \in [1 .. MaxTokens -> StoredToken \cup {None}]
    BY <1>6 DEF Restart
  <2>5. at' \in [Tasks -> Places]
    BY <1>6 DEF Restart, Places
  <2>6. target' \in [Tasks -> Nat]
    BY <1>6 DEF Restart
  <2>7. held' \in [Tasks -> Grant \cup {None}]
    BY <1>6 DEF Restart
  <2>8. TaskOK'
    BY <1>6 DEF Restart, TaskOK
  <2>9. registered' \subseteq Clients /\ UNCHANGED <<ids, now>>
    BY <1>6 DEF Restart
  <2>10. QED
    BY <2>1, <2>2, <2>3, <2>4, <2>5, <2>6, <2>7, <2>8, <2>9 DEF TypeOK
<1>7. CASE Tick
  BY <1>7, BoundAssumption DEF Tick, tables, task, TypeOK, TaskOK
<1>8. CASE UNCHANGED vars
  BY <1>8 DEF vars, tables, task, TypeOK, TaskOK
<1>9. QED
  BY <1>1, <1>2, <1>3, <1>4, <1>5, <1>6, <1>7, <1>8 DEF Next

\* TypeOK alone is not inductive: a task's next step needs TaskOK.
THEOREM TypeCorrect == Spec => []TypeOK
<1>1. TypeInv => TypeOK
  BY DEF TypeInv
<1>2. QED
  BY <1>1, InitTyped, NextTyped, PTL DEF Spec

-----------------------------------------------------------------------------
(* A grant is in one place: no two entries of any tables, or hands, are of *)
(* the same flow.                                                          *)

OneCode == \A k, m \in 1 .. MaxCodes :
    sessions[k] # None /\ sessions[m] # None /\ sessions[k].flow = sessions[m].flow => k = m

OneToken == \A t, u \in 1 .. MaxTokens :
    /\ tokens[t] # None /\ tokens[u] # None
    /\ tokens[t].grant.flow = tokens[u].grant.flow
    => t = u

OneHolder == \A r, q \in Tasks :
    held[r] # None /\ held[q] # None /\ held[r].flow = held[q].flow => r = q

CodeAlone == \A k \in 1 .. MaxCodes : sessions[k] # None =>
    /\ pending[sessions[k].flow] = None
    /\ \A t \in 1 .. MaxTokens : tokens[t] # None => tokens[t].grant.flow # sessions[k].flow
    /\ \A r \in Tasks : held[r] # None => held[r].flow # sessions[k].flow

TokenAlone == \A t \in 1 .. MaxTokens : tokens[t] # None =>
    /\ pending[tokens[t].grant.flow] = None
    /\ \A r \in Tasks : held[r] # None => held[r].flow # tokens[t].grant.flow

HolderAlone == \A r \in Tasks : held[r] # None => pending[held[r].flow] = None

\* Ids that were not given out yet are nowhere.
Fresh ==
    /\ \A f \in Flows : f > ids.flow => pending[f] = None
    /\ \A k \in 1 .. MaxCodes :
          /\ k > ids.code => sessions[k] = None
          /\ sessions[k] # None => sessions[k].flow <= ids.flow
    /\ \A t \in 1 .. MaxTokens :
          /\ t > ids.token => tokens[t] = None
          /\ tokens[t] # None => tokens[t].grant.flow <= ids.flow
    /\ \A r \in Tasks : held[r] # None => held[r].flow <= ids.flow

Unique == OneCode /\ OneToken /\ OneHolder /\ CodeAlone /\ TokenAlone /\ HolderAlone /\ Fresh

\* What a task holds after a step of its own, and what the others hold.
LEMMA HeldAfter ==
    ASSUME TypeInv, NEW r \in Tasks
    PROVE  /\ \A p, t, g : GoTo(r, p, t, g) =>
                  held'[r] = g /\ \A q \in Tasks : q # r => held'[q] = held[q]
           /\ Answer(r) => held'[r] = None /\ \A q \in Tasks : q # r => held'[q] = held[q]
BY DEF TypeInv, TypeOK, GoTo, Answer

\* A grant that moves from one place to another has left the first.
LEMMA NextUnique ==
    ASSUME TypeInv, Unique, TypeInv', [Next]_vars
    PROVE  Unique'
<1> DEFINE Flowing ==
        /\ \A k \in 1 .. MaxCodes : sessions[k] # None => sessions[k].flow \in Flows
        /\ \A t \in 1 .. MaxTokens : tokens[t] # None => tokens[t].grant.flow \in Flows
        /\ \A r \in Tasks : held[r] # None => held[r].flow \in Flows
        /\ ids.flow \in Nat /\ ids.code \in Nat /\ ids.token \in Nat
<1>a. Flowing
  <2>1. \A k \in 1 .. MaxCodes : sessions[k] # None => sessions[k].flow \in Flows
    BY DEF TypeInv, TypeOK, Grant
  <2>2. \A t \in 1 .. MaxTokens : tokens[t] # None => tokens[t].grant.flow \in Flows
    BY DEF TypeInv, TypeOK, Grant, StoredToken
  <2>3. \A r \in Tasks : held[r] # None => held[r].flow \in Flows
    BY DEF TypeInv, TypeOK, Grant
  <2>4. ids.flow \in Nat /\ ids.code \in Nat /\ ids.token \in Nat
    BY BoundAssumption DEF TypeInv, TypeOK, Ids
  <2>5. QED
    BY <2>1, <2>2, <2>3, <2>4
<1> HIDE DEF Flowing
<1> USE DEF Unique, OneCode, OneToken, OneHolder, CodeAlone, TokenAlone, HolderAlone, Fresh, Flows
<1>1. ASSUME NEW c \in Clients, Register(c)
      PROVE  Unique'
  BY <1>1 DEF Register, task, TypeInv, TypeOK, TaskOK, Ids
<1>2. ASSUME NEW c \in Clients, Authorize(c)
      PROVE  Unique'
  BY <1>2 DEF Authorize, SavePendingAuth, Grant, StoredToken, task, TypeInv, TypeOK, TaskOK, Ids
<1>3. ASSUME NEW r \in Tasks, Login(r)
      PROVE  Unique'
  <2>1. ASSUME NEW f \in Flows, LoginLook(r, f)
        PROVE  Unique'
    <3>1. held'[r] = None /\ \A q \in Tasks : q # r => held'[q] = held[q]
      BY <2>1, HeldAfter DEF LoginLook, TypeInv, TypeOK, TaskOK, Ids
    <3>2. UNCHANGED <<pending, sessions, tokens, ids>>
      BY <2>1 DEF LoginLook, tables
    <3>3. QED
      BY <1>a, <3>1, <3>2 DEF Flowing
  <2>2. CASE LoginPurge(r)
    BY <2>2 DEF LoginPurge, Answer, GoTo, TypeInv, TypeOK, TaskOK, Ids
  <2>3. CASE LoginSave(r)
    BY <2>3 DEF LoginSave, SaveGoogleState, Answer, GoTo, TypeInv, TypeOK, TaskOK, Ids
  <2>4. QED
    BY <1>3, <2>1, <2>2, <2>3 DEF Login
<1>4. ASSUME NEW r \in Tasks, Callback(r)
      PROVE  Unique'
  <2>1. ASSUME NEW l \in 1 .. MaxLogins, CallbackState(r, l)
        PROVE  Unique'
    <3>1. held'[r] = None /\ \A q \in Tasks : q # r => held'[q] = held[q]
      BY <2>1, HeldAfter DEF CallbackState, TypeInv, TypeOK, TaskOK, Ids
    <3>2. UNCHANGED <<pending, sessions, tokens, ids>>
      BY <2>1 DEF CallbackState
    <3>3. QED
      BY <1>a, <3>1, <3>2 DEF Flowing
  <2>2. CASE CallbackPending(r)
    <3>1. target[r] \in Flows
      BY <2>2 DEF CallbackPending, TypeInv, TypeOK, TaskOK, Ids
    <3>2. /\ pending'[target[r]] = None
          /\ \A f \in Flows : f # target[r] => pending'[f] = pending[f]
      BY <2>2, <3>1 DEF CallbackPending, TypeInv, TypeOK, TaskOK, Ids
    <3>3. \A q \in Tasks : q # r => held'[q] = held[q]
      BY <2>2, HeldAfter DEF CallbackPending, TypeInv, TypeOK, TaskOK, Ids
    <3>4. held'[r] # None => pending[target[r]] # None /\ held'[r].flow = target[r]
      BY <2>2, HeldAfter DEF CallbackPending, PendingGrant, TypeInv, TypeOK, TaskOK, Ids
    <3>5. UNCHANGED <<sessions, tokens, ids>>
      BY <2>2 DEF CallbackPending, TypeInv, TypeOK, TaskOK, Ids
    <3>6. OneCode'
      BY <1>a, <3>1, <3>2, <3>3, <3>4, <3>5 DEF Flowing
    <3>7. OneToken'
      BY <1>a, <3>1, <3>2, <3>3, <3>4, <3>5 DEF Flowing
    <3>8. OneHolder'
      BY <1>a, <3>1, <3>2, <3>3, <3>4, <3>5 DEF Flowing
    <3>9. CodeAlone'
      BY <1>a, <3>1, <3>2, <3>3, <3>4, <3>5 DEF Flowing
    <3>10. TokenAlone'
      BY <1>a, <3>1, <3>2, <3>3, <3>4, <3>5 DEF Flowing
    <3>11. HolderAlone'
      BY <1>a, <3>1, <3>2, <3>3, <3>4, <3>5 DEF Flowing
    <3>12. Fresh'
      BY <1>a, <3>1, <3>2, <3>3, <3>4, <3>5 DEF Flowing
    <3>13. QED
      BY <3>6, <3>7, <3>8, <3>9, <3>10, <3>11, <3>12
  <2>3. ASSUME NEW s \in Subs, CallbackFinish(r, s)
        PROVE  Unique'
    <3> DEFINE k == ids.code + 1
    <3>2. held[r] \in Grant
      BY <2>3 DEF CallbackFinish, TypeInv, TypeOK, TaskOK, Ids
    <3>3. k \in 1 .. MaxCodes /\ sessions[k] = None
      BY <2>3 DEF CallbackFinish, SaveSession, TypeInv, TypeOK, TaskOK, Ids
    <3>4. /\ sessions'[k].flow = held[r].flow
          /\ \A m \in 1 .. MaxCodes : m # k => sessions'[m] = sessions[m]
      BY <2>3, <3>2, <3>3 DEF CallbackFinish, SaveSession, Grant, TypeInv, TypeOK, TaskOK, Ids
    <3>5. held'[r] = None /\ \A q \in Tasks : q # r => held'[q] = held[q]
      BY <2>3, HeldAfter DEF CallbackFinish, TypeInv, TypeOK, TaskOK, Ids
    <3>6. ids'.code = k /\ ids'.flow = ids.flow /\ ids'.token = ids.token
      BY <2>3 DEF CallbackFinish, SaveSession, TypeInv, TypeOK, TaskOK, Ids
    <3>7. UNCHANGED <<pending, tokens>>
      BY <2>3 DEF CallbackFinish, TypeInv, TypeOK, TaskOK, Ids
    <3>8. held[r] # None
      BY <2>3 DEF CallbackFinish, TypeInv, TypeOK, TaskOK, Ids
    <3>9. OneCode'
      BY <1>a, <3>2, <3>3, <3>4, <3>5, <3>6, <3>7, <3>8 DEF Flowing
    <3>10. OneToken'
      BY <1>a, <3>2, <3>3, <3>4, <3>5, <3>6, <3>7, <3>8 DEF Flowing
    <3>11. OneHolder'
      BY <1>a, <3>2, <3>3, <3>4, <3>5, <3>6, <3>7, <3>8 DEF Flowing
    <3>12. CodeAlone'
      BY <1>a, <3>2, <3>3, <3>4, <3>5, <3>6, <3>7, <3>8 DEF Flowing
    <3>13. TokenAlone'
      BY <1>a, <3>2, <3>3, <3>4, <3>5, <3>6, <3>7, <3>8 DEF Flowing
    <3>14. HolderAlone'
      BY <1>a, <3>2, <3>3, <3>4, <3>5, <3>6, <3>7, <3>8 DEF Flowing
    <3>15. Fresh'
      BY <1>a, <3>2, <3>3, <3>4, <3>5, <3>6, <3>7, <3>8 DEF Flowing
    <3>16. QED
      BY <3>9, <3>10, <3>11, <3>12, <3>13, <3>14, <3>15
  <2>4. CASE CallbackFails(r)
    BY <2>4 DEF CallbackFails, Answer, GoTo, tables, TypeInv, TypeOK, TaskOK, Ids
  <2>5. QED
    BY <1>4, <2>1, <2>2, <2>3, <2>4 DEF Callback
<1>5. ASSUME NEW r \in Tasks, TokenRequest(r)
      PROVE  Unique'
  <2>1. ASSUME NEW k \in 1 .. MaxCodes, NEW c \in Clients, NEW others \in BOOLEAN,
               HandleAuthCode(r, k, c, others)
        PROVE  Unique'
    <3>1. sessions'[k] = None /\ \A m \in 1 .. MaxCodes : m # k => sessions'[m] = sessions[m]
      BY <2>1 DEF HandleAuthCode, TypeInv, TypeOK, TaskOK, Ids
    <3>2. \A q \in Tasks : q # r => held'[q] = held[q]
      BY <2>1, HeldAfter DEF HandleAuthCode, TypeInv, TypeOK, TaskOK, Ids
    <3>3. held'[r] # None => sessions[k] # None /\ held'[r] = sessions[k]
      BY <2>1, HeldAfter DEF HandleAuthCode, TypeInv, TypeOK, TaskOK, Ids
    <3>4. UNCHANGED <<pending, tokens, ids>>
      BY <2>1 DEF HandleAuthCode, TypeInv, TypeOK, TaskOK, Ids
    <3>5. OneCode'
      BY <1>a, <3>1, <3>2, <3>3, <3>4 DEF Flowing
    <3>6. OneToken'
      BY <1>a, <3>1, <3>2, <3>3, <3>4 DEF Flowing
    <3>7. OneHolder'
      BY <1>a, <3>1, <3>2, <3>3, <3>4 DEF Flowing
    <3>8. CodeAlone'
      BY <1>a, <3>1, <3>2, <3>3, <3>4 DEF Flowing
    <3>9. TokenAlone'
      BY <1>a, <3>1, <3>2, <3>3, <3>4 DEF Flowing
    <3>10. HolderAlone'
      BY <1>a, <3>1, <3>2, <3>3, <3>4 DEF Flowing
    <3>11. Fresh'
      BY <1>a, <3>1, <3>2, <3>3, <3>4 DEF Flowing
    <3>12. QED
      BY <3>5, <3>6, <3>7, <3>8, <3>9, <3>10, <3>11
  <2>2. ASSUME NEW t \in 1 .. MaxTokens, HandleRefresh(r, t)
        PROVE  Unique'
    BY <2>2 DEF HandleRefresh, GoTo, tables
  <2>3. ASSUME NEW c \in Clients, RemoveRefreshed(r, c)
        PROVE  Unique'
    <3> DEFINE t == target[r]
    <3>1. t \in 1 .. MaxTokens
      BY <2>3 DEF RemoveRefreshed, TypeInv, TypeOK, TaskOK, Ids
    <3>2. tokens'[t] = None /\ \A u \in 1 .. MaxTokens : u # t => tokens'[u] = tokens[u]
      BY <2>3, <3>1 DEF RemoveRefreshed, TypeInv, TypeOK, TaskOK, Ids
    <3>3. \A q \in Tasks : q # r => held'[q] = held[q]
      BY <2>3, HeldAfter DEF RemoveRefreshed, TypeInv, TypeOK, TaskOK, Ids
    <3>4. held'[r] # None => tokens[t] # None /\ held'[r] = tokens[t].grant
      BY <2>3, HeldAfter DEF RemoveRefreshed, TypeInv, TypeOK, TaskOK, Ids
    <3>5. UNCHANGED <<pending, sessions, ids>>
      BY <2>3 DEF RemoveRefreshed, TypeInv, TypeOK, TaskOK, Ids
    <3>6. OneCode'
      BY <1>a, <3>1, <3>2, <3>3, <3>4, <3>5 DEF Flowing
    <3>7. OneToken'
      BY <1>a, <3>1, <3>2, <3>3, <3>4, <3>5 DEF Flowing
    <3>8. OneHolder'
      BY <1>a, <3>1, <3>2, <3>3, <3>4, <3>5 DEF Flowing
    <3>9. CodeAlone'
      BY <1>a, <3>1, <3>2, <3>3, <3>4, <3>5 DEF Flowing
    <3>10. TokenAlone'
      BY <1>a, <3>1, <3>2, <3>3, <3>4, <3>5 DEF Flowing
    <3>11. HolderAlone'
      BY <1>a, <3>1, <3>2, <3>3, <3>4, <3>5 DEF Flowing
    <3>12. Fresh'
      BY <1>a, <3>1, <3>2, <3>3, <3>4, <3>5 DEF Flowing
    <3>13. QED
      BY <3>6, <3>7, <3>8, <3>9, <3>10, <3>11, <3>12
  <2>4. CASE IssueToken(r)
    <3> DEFINE t == ids.token + 1
    <3>1. held[r] \in Grant
      BY <2>4 DEF IssueToken, TypeInv, TypeOK, TaskOK, Ids
    <3>2. t \in 1 .. MaxTokens /\ tokens[t] = None
      BY <2>4 DEF IssueToken, SaveToken, TypeInv, TypeOK, TaskOK, Ids
    <3>3. /\ tokens'[t].grant = held[r]
          /\ \A u \in 1 .. MaxTokens : u # t => tokens'[u] = tokens[u]
      BY <2>4, <3>2 DEF IssueToken, SaveToken, TypeInv, TypeOK, TaskOK, Ids
    <3>4. held'[r] = None /\ \A q \in Tasks : q # r => held'[q] = held[q]
      BY <2>4, HeldAfter DEF IssueToken, TypeInv, TypeOK, TaskOK, Ids
    <3>5. ids'.token = t /\ ids'.flow = ids.flow /\ ids'.code = ids.code
      BY <2>4 DEF IssueToken, SaveToken, TypeInv, TypeOK, TaskOK, Ids
    <3>6. UNCHANGED <<pending, sessions>>
      BY <2>4 DEF IssueToken, TypeInv, TypeOK, TaskOK, Ids
    <3>7. held[r] # None
      BY <2>4 DEF IssueToken, TypeInv, TypeOK, TaskOK, Ids
    <3>8. OneCode'
      BY <1>a, <3>1, <3>2, <3>3, <3>4, <3>5, <3>6, <3>7 DEF Flowing
    <3>9. OneToken'
      BY <1>a, <3>1, <3>2, <3>3, <3>4, <3>5, <3>6, <3>7 DEF Flowing
    <3>10. OneHolder'
      BY <1>a, <3>1, <3>2, <3>3, <3>4, <3>5, <3>6, <3>7 DEF Flowing
    <3>11. CodeAlone'
      BY <1>a, <3>1, <3>2, <3>3, <3>4, <3>5, <3>6, <3>7 DEF Flowing
    <3>12. TokenAlone'
      BY <1>a, <3>1, <3>2, <3>3, <3>4, <3>5, <3>6, <3>7 DEF Flowing
    <3>13. HolderAlone'
      BY <1>a, <3>1, <3>2, <3>3, <3>4, <3>5, <3>6, <3>7 DEF Flowing
    <3>14. Fresh'
      BY <1>a, <3>1, <3>2, <3>3, <3>4, <3>5, <3>6, <3>7 DEF Flowing
    <3>15. QED
      BY <3>8, <3>9, <3>10, <3>11, <3>12, <3>13, <3>14
  <2>5. QED
    BY <1>5, <2>1, <2>2, <2>3, <2>4 DEF TokenRequest
<1>6. ASSUME NEW r \in Tasks, Dropped(r)
      PROVE  Unique'
  BY <1>6 DEF Dropped, Answer, GoTo, tables, TypeInv, TypeOK, TaskOK, Ids
<1>7. CASE Restart
  BY <1>7 DEF Restart
<1>8. CASE Tick
  BY <1>8 DEF Tick, tables, task
<1>9. CASE UNCHANGED vars
  BY <1>9 DEF vars, tables, task
<1>10. QED
  BY <1>1, <1>2, <1>3, <1>4, <1>5, <1>6, <1>7, <1>8, <1>9 DEF Next

\* Unique is an invariant.
LEMMA UniqueInvariant == Spec => [](TypeInv /\ Unique)
<1>1. Init => Unique
  BY DEF Init, Unique, OneCode, OneToken, OneHolder, CodeAlone, TokenAlone, HolderAlone, Fresh
<1>2. TypeInv /\ Unique /\ [Next]_vars => (TypeInv /\ Unique)'
  BY NextTyped, NextUnique
<1>3. QED
  BY <1>1, <1>2, InitTyped, PTL DEF Spec

\* In every state an authorization is in one place.
THEOREM OneGrantAlways == Spec => []OneGrantPerFlow
<1>1. ASSUME TypeInv, Unique, NEW f \in Flows, NEW x \in Locations(f), NEW y \in Locations(f)
      PROVE  x = y
  <2> USE DEF Codes, Tokens, Holders, Consents
  <2>1. x \in {"consent"} \X Consents(f) \/ x \in {"code"} \X Codes(f)
            \/ x \in {"token"} \X Tokens(f) \/ x \in {"task"} \X Holders(f)
    BY DEF Locations
  <2>2. y \in {"consent"} \X Consents(f) \/ y \in {"code"} \X Codes(f)
            \/ y \in {"token"} \X Tokens(f) \/ y \in {"task"} \X Holders(f)
    BY DEF Locations
  <2>3. CASE Consents(f) # {}
    BY <1>1, <2>1, <2>2, <2>3 DEF Unique, CodeAlone, TokenAlone, HolderAlone
  <2>4. CASE Consents(f) = {} /\ Codes(f) # {}
    BY <1>1, <2>1, <2>2, <2>4 DEF Unique, CodeAlone, OneCode
  <2>5. CASE Consents(f) = {} /\ Codes(f) = {} /\ Tokens(f) # {}
    BY <1>1, <2>1, <2>2, <2>5 DEF Unique, TokenAlone, OneToken
  <2>6. CASE Consents(f) = {} /\ Codes(f) = {} /\ Tokens(f) = {}
    BY <1>1, <2>1, <2>2, <2>6 DEF Unique, OneHolder
  <2>7. QED
    BY <2>3, <2>4, <2>5, <2>6
<1>2. TypeInv /\ Unique => OneGrantPerFlow
  BY <1>1 DEF OneGrantPerFlow
<1>3. QED
  BY <1>2, UniqueInvariant, PTL

\* At most one access token of an authorization is accepted at any time.
THEOREM OneValidTokenAlways == Spec => []OneValidToken
<1>1. Unique => OneValidToken
  BY DEF Unique, OneToken, OneValidToken, Valid
<1>2. QED
  BY <1>1, UniqueInvariant, PTL

-----------------------------------------------------------------------------
(* The refinement.                                                         *)

Nowhere(f) ==
    [place |-> IF f <= ids.flow THEN "gone" ELSE "none", client |-> None, sub |-> None]

AtConsent(f) == pending[f] # None
AtTask(r, f) == held[r] # None /\ held[r].flow = f
AtCode(k, f) == sessions[k] # None /\ sessions[k].flow = f
AtToken(t, f) == tokens[t] # None /\ tokens[t].grant.flow = f

AtNone(f) ==
    /\ ~AtConsent(f)
    /\ \A r \in Tasks : ~AtTask(r, f)
    /\ \A k \in 1 .. MaxCodes : ~AtCode(k, f)
    /\ \A t \in 1 .. MaxTokens : ~AtToken(t, f)

(* The grant of a flow read off the one place where it is.                 *)
GrantRead(f) ==
    /\ AtConsent(f) =>
          GrantOf(f) = [place |-> "consent", client |-> pending[f].client, sub |-> None]
    /\ \A r \in Tasks : AtTask(r, f) =>
          GrantOf(f) = [place |-> IF at[r] = "exchange" THEN "signing" ELSE "redeeming",
                        client |-> held[r].client, sub |-> held[r].sub]
    /\ \A k \in 1 .. MaxCodes : AtCode(k, f) =>
          GrantOf(f) = [place |-> "code", client |-> sessions[k].client, sub |-> sessions[k].sub]
    /\ \A t \in 1 .. MaxTokens : AtToken(t, f) =>
          GrantOf(f) = [place |-> "token", client |-> tokens[t].grant.client,
                        sub |-> tokens[t].grant.sub]
    /\ AtNone(f) => GrantOf(f) = Nowhere(f)
    /\ f > ids.flow => AtNone(f)

Known == \A f \in Flows : GrantRead(f)

LEMMA GrantKnown == TypeInv /\ Unique => Known
<1> SUFFICES ASSUME TypeInv, Unique, NEW f \in Flows
             PROVE  GrantRead(f)
  BY DEF Known
<1>0. f \in Nat /\ ids.flow \in Nat
  BY BoundAssumption DEF Flows, TypeInv, TypeOK, Ids
<1>1. f > ids.flow => AtNone(f)
  BY <1>0 DEF AtNone, AtConsent, AtTask, AtCode, AtToken, Unique, Fresh, Flows, TypeInv, TypeOK,
              StoredToken, Grant
<1>2. /\ AtConsent(f) <=> Consents(f) # {}
      /\ \A r \in Tasks : AtTask(r, f) <=> r \in Holders(f)
      /\ \A k \in 1 .. MaxCodes : AtCode(k, f) <=> k \in Codes(f)
      /\ \A t \in 1 .. MaxTokens : AtToken(t, f) <=> t \in Tokens(f)
      /\ Holders(f) \subseteq Tasks /\ Codes(f) \subseteq 1 .. MaxCodes
      /\ Tokens(f) \subseteq 1 .. MaxTokens
  BY DEF AtConsent, AtTask, AtCode, AtToken, Consents, Holders, Codes, Tokens
<1>3. CASE AtConsent(f)
  <2>1. Consents(f) # {} /\ Holders(f) = {} /\ Codes(f) = {} /\ Tokens(f) = {}
    BY <1>3 DEF AtConsent, Consents, Holders, Codes, Tokens, Unique, CodeAlone, TokenAlone, HolderAlone
  <2>2. GrantOf(f) = [place |-> "consent", client |-> pending[f].client, sub |-> None]
    BY <2>1 DEF GrantOf
  <2> QED
    BY <1>1, <1>2, <1>3, <2>1, <2>2 DEF GrantRead, AtNone
<1>4. ASSUME NEW r \in Tasks, AtTask(r, f) PROVE GrantRead(f)
  <2>1. Consents(f) = {} /\ Codes(f) = {} /\ Tokens(f) = {}
    BY <1>4 DEF AtTask, Consents, Codes, Tokens, Unique, CodeAlone, TokenAlone, HolderAlone
  <2>2. Holders(f) = {r}
    BY <1>4 DEF AtTask, Holders, Unique, OneHolder
  <2>3. (CHOOSE q \in Holders(f) : TRUE) = r
    BY <2>2
  <2>4. GrantOf(f) = [place |-> IF at[r] = "exchange" THEN "signing" ELSE "redeeming",
                      client |-> held[r].client, sub |-> held[r].sub]
    BY <2>1, <2>2, <2>3 DEF GrantOf
  <2> QED
    BY <1>1, <1>2, <1>4, <2>1, <2>2, <2>4 DEF GrantRead, AtNone
<1>5. ASSUME NEW k \in 1 .. MaxCodes, AtCode(k, f) PROVE GrantRead(f)
  <2>1. Consents(f) = {} /\ Holders(f) = {} /\ Tokens(f) = {}
    BY <1>5 DEF AtCode, Consents, Holders, Tokens, Unique, CodeAlone
  <2>2. Codes(f) = {k}
    BY <1>5 DEF AtCode, Codes, Unique, OneCode
  <2>3. (CHOOSE m \in Codes(f) : TRUE) = k
    BY <2>2
  <2>4. GrantOf(f) = [place |-> "code", client |-> sessions[k].client, sub |-> sessions[k].sub]
    BY <2>1, <2>2, <2>3 DEF GrantOf
  <2> QED
    BY <1>1, <1>2, <1>5, <2>1, <2>2, <2>4 DEF GrantRead, AtNone
<1>6. ASSUME NEW t \in 1 .. MaxTokens, AtToken(t, f) PROVE GrantRead(f)
  <2>1. Consents(f) = {} /\ Holders(f) = {} /\ Codes(f) = {}
    BY <1>6 DEF AtToken, Consents, Holders, Codes, Unique, TokenAlone, CodeAlone
  <2>2. Tokens(f) = {t}
    BY <1>6 DEF AtToken, Tokens, Unique, OneToken
  <2>3. (CHOOSE u \in Tokens(f) : TRUE) = t
    BY <2>2
  <2>4. GrantOf(f) = [place |-> "token", client |-> tokens[t].grant.client,
                      sub |-> tokens[t].grant.sub]
    BY <2>1, <2>2, <2>3 DEF GrantOf
  <2> QED
    BY <1>1, <1>2, <1>6, <2>1, <2>2, <2>4 DEF GrantRead, AtNone
<1>7. CASE AtNone(f)
  <2>1. Consents(f) = {} /\ Holders(f) = {} /\ Codes(f) = {} /\ Tokens(f) = {}
    BY <1>2, <1>7 DEF AtNone
  <2>2. GrantOf(f) = Nowhere(f)
    BY <2>1 DEF GrantOf, Nowhere
  <2> QED
    BY <1>7, <2>2 DEF GrantRead, AtNone
<1> QED
  BY <1>3, <1>4, <1>5, <1>6, <1>7 DEF AtNone

(* An entry that stays, stays where it was; a flow none of whose entries   *)
(* came or went has the grant it had.                                      *)
Undisturbed(f) ==
    /\ pending'[f] = pending[f]
    /\ \A r \in Tasks : AtTask(r, f) \/ AtTask(r, f)' =>
          held'[r] = held[r] /\ (at'[r] = "exchange" <=> at[r] = "exchange")
    /\ \A k \in 1 .. MaxCodes : AtCode(k, f) \/ AtCode(k, f)' => sessions'[k] = sessions[k]
    /\ \A t \in 1 .. MaxTokens : AtToken(t, f) \/ AtToken(t, f)' => tokens'[t] = tokens[t]
    /\ f <= ids'.flow <=> f <= ids.flow

LEMMA SameGrant ==
  ASSUME Known, Known', NEW f \in Flows, Undisturbed(f)
  PROVE  GrantOf(f)' = GrantOf(f)
<1> USE DEF Undisturbed
<1>0. GrantRead(f) /\ GrantRead(f)'
  BY DEF Known
<1>1. CASE AtConsent(f)
  BY <1>0, <1>1 DEF GrantRead, AtConsent
<1>2. ASSUME NEW r \in Tasks, AtTask(r, f) PROVE GrantOf(f)' = GrantOf(f)
  <2> DEFINE V == [place |-> IF at[r] = "exchange" THEN "signing" ELSE "redeeming",
                   client |-> held[r].client, sub |-> held[r].sub]
  <2>1. AtTask(r, f)' /\ held'[r] = held[r] /\ (at'[r] = "exchange" <=> at[r] = "exchange")
    BY <1>2 DEF AtTask
  <2>2. GrantOf(f) = V
    BY <1>0, <1>2 DEF GrantRead
  <2>3. GrantOf(f)' = V'
    BY <1>0, <2>1 DEF GrantRead, AtTask
  <2> QED
    BY <2>1, <2>2, <2>3
<1>3. ASSUME NEW k \in 1 .. MaxCodes, AtCode(k, f) PROVE GrantOf(f)' = GrantOf(f)
  <2> DEFINE V == [place |-> "code", client |-> sessions[k].client, sub |-> sessions[k].sub]
  <2>1. AtCode(k, f)' /\ sessions'[k] = sessions[k]
    BY <1>3 DEF AtCode
  <2>2. GrantOf(f) = V
    BY <1>0, <1>3 DEF GrantRead
  <2>3. GrantOf(f)' = V'
    BY <1>0, <2>1 DEF GrantRead, AtCode
  <2> QED
    BY <2>1, <2>2, <2>3
<1>4. ASSUME NEW t \in 1 .. MaxTokens, AtToken(t, f) PROVE GrantOf(f)' = GrantOf(f)
  <2> DEFINE V == [place |-> "token", client |-> tokens[t].grant.client,
                   sub |-> tokens[t].grant.sub]
  <2>1. AtToken(t, f)' /\ tokens'[t] = tokens[t]
    BY <1>4 DEF AtToken
  <2>2. GrantOf(f) = V
    BY <1>0, <1>4 DEF GrantRead
  <2>3. GrantOf(f)' = V'
    BY <1>0, <2>1 DEF GrantRead, AtToken
  <2> QED
    BY <2>1, <2>2, <2>3
<1>5. CASE AtNone(f)
  <2>1. AtNone(f)'
    BY <1>5 DEF AtNone, AtConsent, AtTask, AtCode, AtToken
  <2>2. Nowhere(f)' = Nowhere(f)
    BY DEF Nowhere
  <2> QED
    BY <1>0, <1>5, <2>1, <2>2 DEF GrantRead
<1> QED
  BY <1>1, <1>2, <1>3, <1>4, <1>5 DEF AtNone

-----------------------------------------------------------------------------
(* Steps of the promise, in terms of the grants.                           *)

OthersKept(g) == \A f \in Flows \ {g} : GrantOf(f)' = GrantOf(f)

Promised == OneTime!Next \/ \A f \in Flows : GrantOf(f)' = GrantOf(f)

LEMMA Moves ==
  ASSUME NEW g \in Flows, NEW from, NEW to, NEW c, NEW u, OthersKept(g),
         GrantOf(g) = [place |-> from, client |-> c, sub |-> u],
         GrantOf(g)' = [place |-> to, client |-> c, sub |-> u]
  PROVE  OneTime!Move(g, from, to)
<1>1. /\ GrantOf(g).place = from
      /\ GrantOf(g)' = OneTime!At(to, GrantOf(g).client, GrantOf(g).sub)
  BY DEF OneTime!At
<1> QED
  BY <1>1 DEF OneTime!Move, OthersKept

LEMMA MovePromised ==
  ASSUME NEW g \in Flows,
         \/ OneTime!Move(g, "consent", "signing")
         \/ OneTime!Move(g, "code", "redeeming")
         \/ OneTime!Move(g, "token", "redeeming")
         \/ OneTime!Move(g, "redeeming", "token")
  PROVE  Promised
<1>1. OneTime!Step(g)
  BY DEF OneTime!Step
<1> QED
  BY <1>1 DEF OneTime!Next, Promised

LEMMA LosePromised ==
  ASSUME NEW g \in Flows, OthersKept(g), GrantOf(g).place # "none",
         GrantOf(g)' = OneTime!NoGrant("gone")
  PROVE  Promised
<1>1. OneTime!Lose({g})
  BY DEF OneTime!Lose, OthersKept
<1>2. OneTime!Next
  BY <1>1 DEF OneTime!Next
<1> QED
  BY <1>2 DEF Promised

(* What a task is and holds after a step of its own.                       *)
LEMMA TaskAfter ==
  ASSUME TypeInv, NEW r \in Tasks, NEW p, NEW t, NEW g, GoTo(r, p, t, g)
  PROVE  /\ at'[r] = p /\ held'[r] = g
         /\ \A q \in Tasks : q # r => at'[q] = at[q] /\ held'[q] = held[q]
BY DEF TypeInv, TypeOK, GoTo

(* A step that moves no entry and no grant in hand changes no grant.       *)
Quiet ==
    /\ UNCHANGED <<pending, sessions, tokens>> /\ ids'.flow = ids.flow
    /\ \A q \in Tasks : \/ held'[q] = held[q] /\ (at'[q] = "exchange" <=> at[q] = "exchange")
                        \/ held'[q] = None /\ held[q] = None

LEMMA QuietPromised == ASSUME Known, Known', Quiet PROVE Promised
<1>1. ASSUME NEW f \in Flows PROVE GrantOf(f)' = GrantOf(f)
  <2>1. Undisturbed(f)
    BY DEF Quiet, Undisturbed, AtTask
  <2> QED
    BY <2>1, SameGrant
<1> QED
  BY <1>1 DEF Promised

LEMMA IdleHolds ==
  ASSUME TypeInv, NEW r \in Tasks, at[r] \notin {"exchange", "issue"}
  PROVE  held[r] = None
BY DEF TypeInv, TaskOK

(* Steps before anything is taken, and the clock.                          *)
LEMMA QuietSteps ==
  ASSUME TypeInv, Known, Known',
         \/ \E c \in Clients : Register(c)
         \/ \E r \in Tasks : \/ \E f \in Flows : LoginLook(r, f)
                             \/ LoginSave(r)
                             \/ \E l \in 1 .. MaxLogins : CallbackState(r, l)
                             \/ \E t \in 1 .. MaxTokens : HandleRefresh(r, t)
         \/ Tick
         \/ UNCHANGED vars
  PROVE  Promised
<1>1. CASE (\E c \in Clients : Register(c)) \/ Tick \/ UNCHANGED vars
  <2>1. Quiet
    BY <1>1 DEF Register, Tick, vars, tables, task, Quiet
  <2> QED
    BY <2>1, QuietPromised
<1>2. ASSUME NEW r \in Tasks, NEW f \in Flows, LoginLook(r, f) PROVE Promised
  <2>1. held[r] = None
    BY <1>2, IdleHolds DEF LoginLook
  <2>2. held'[r] = None /\ \A q \in Tasks : q # r => at'[q] = at[q] /\ held'[q] = held[q]
    BY <1>2, TaskAfter DEF LoginLook
  <2>3. Quiet
    BY <1>2, <2>1, <2>2 DEF LoginLook, Quiet, tables
  <2> QED
    BY <2>3, QuietPromised
<1>3. ASSUME NEW r \in Tasks, LoginSave(r) PROVE Promised
  <2>1. held[r] = None
    BY <1>3, IdleHolds DEF LoginSave
  <2>2. held'[r] = None /\ \A q \in Tasks : q # r => at'[q] = at[q] /\ held'[q] = held[q]
    BY <1>3, TaskAfter DEF LoginSave, Answer
  <2>3. ids'.flow = ids.flow
    BY <1>3 DEF LoginSave, SaveGoogleState, TypeInv, TypeOK, Ids
  <2>4. Quiet
    BY <1>3, <2>1, <2>2, <2>3 DEF LoginSave, SaveGoogleState, Quiet
  <2> QED
    BY <2>4, QuietPromised
<1>4. ASSUME NEW r \in Tasks, NEW l \in 1 .. MaxLogins, CallbackState(r, l) PROVE Promised
  <2>1. held[r] = None
    BY <1>4, IdleHolds DEF CallbackState
  <2>2. held'[r] = None /\ \A q \in Tasks : q # r => at'[q] = at[q] /\ held'[q] = held[q]
    BY <1>4, TaskAfter DEF CallbackState, Answer
  <2>3. Quiet
    BY <1>4, <2>1, <2>2 DEF CallbackState, Quiet
  <2> QED
    BY <2>3, QuietPromised
<1>5. ASSUME NEW r \in Tasks, NEW t \in 1 .. MaxTokens, HandleRefresh(r, t) PROVE Promised
  <2>1. held[r] = None
    BY <1>5, IdleHolds DEF HandleRefresh
  <2>2. held'[r] = None /\ \A q \in Tasks : q # r => at'[q] = at[q] /\ held'[q] = held[q]
    BY <1>5, TaskAfter DEF HandleRefresh
  <2>3. Quiet
    BY <1>5, <2>1, <2>2 DEF HandleRefresh, Quiet, tables
  <2> QED
    BY <2>3, QuietPromised
<1> QED
  BY <1>1, <1>2, <1>3, <1>4, <1>5

-----------------------------------------------------------------------------
(* The steps that move a grant.                                            *)

(* Where the grant of a flow is, nothing else is of that flow.             *)
LEMMA Alone ==
  ASSUME Unique, NEW f \in Flows
  PROVE  /\ AtConsent(f) => /\ \A q \in Tasks : ~AtTask(q, f)
                            /\ \A k \in 1 .. MaxCodes : ~AtCode(k, f)
                            /\ \A t \in 1 .. MaxTokens : ~AtToken(t, f)
         /\ \A r \in Tasks : AtTask(r, f) =>
                /\ ~AtConsent(f)
                /\ \A q \in Tasks \ {r} : ~AtTask(q, f)
                /\ \A k \in 1 .. MaxCodes : ~AtCode(k, f)
                /\ \A t \in 1 .. MaxTokens : ~AtToken(t, f)
         /\ \A m \in 1 .. MaxCodes : AtCode(m, f) =>
                /\ ~AtConsent(f)
                /\ \A q \in Tasks : ~AtTask(q, f)
                /\ \A k \in (1 .. MaxCodes) \ {m} : ~AtCode(k, f)
                /\ \A t \in 1 .. MaxTokens : ~AtToken(t, f)
         /\ \A u \in 1 .. MaxTokens : AtToken(u, f) =>
                /\ ~AtConsent(f)
                /\ \A q \in Tasks : ~AtTask(q, f)
                /\ \A k \in 1 .. MaxCodes : ~AtCode(k, f)
                /\ \A t \in (1 .. MaxTokens) \ {u} : ~AtToken(t, f)
BY DEF AtConsent, AtTask, AtCode, AtToken, Unique, OneCode, OneToken, OneHolder,
       CodeAlone, TokenAlone, HolderAlone

(* A flow that was somewhere and is nowhere is lost.                       *)
LEMMA GoneAfter ==
  ASSUME Known, Known', TypeInv, NEW g \in Flows, ~AtNone(g), AtNone(g)', ids'.flow = ids.flow
  PROVE  GrantOf(g)' = OneTime!NoGrant("gone")
<1>1. GrantRead(g) /\ GrantRead(g)'
  BY DEF Known
<1>2. ~(g > ids.flow)
  BY <1>1 DEF GrantRead
<1>3. g <= ids'.flow
  BY <1>2, BoundAssumption DEF TypeInv, TypeOK, Ids, Flows
<1>4. GrantOf(g)' = Nowhere(g)'
  BY <1>1 DEF GrantRead
<1> QED
  BY <1>3, <1>4 DEF Nowhere, OneTime!NoGrant, OneTime!At

(* A new consent page opens the next flow.                                 *)
LEMMA AuthorizeSteps ==
  ASSUME TypeInv, Known, Known', NEW c \in Clients, Authorize(c)
  PROVE  Promised
<1>1. ids.flow + 1 \in Flows /\ ids'.flow = ids.flow + 1 /\ ids.flow \in Nat
  BY BoundAssumption DEF Authorize, SavePendingAuth, Flows, TypeInv, TypeOK, Ids
<1>2. PICK g \in Flows : g = ids.flow + 1
  BY <1>1
<1>3. /\ pending'[g] = [client |-> c, created |-> now]
      /\ \A f \in Flows \ {g} : pending'[f] = pending[f]
  BY <1>1, <1>2 DEF Authorize, SavePendingAuth, TypeInv, TypeOK
<1>4. pending'[g] # None /\ pending'[g].client = c
  <2>1. [client |-> c, created |-> now] \in PendingAuth
    BY DEF PendingAuth, TypeInv, TypeOK
  <2> QED
    BY <2>1, <1>3, NoneAssumption
<1>5. UNCHANGED <<sessions, tokens, at, held>>
  BY DEF Authorize, task
<1>6. ASSUME NEW f \in Flows \ {g} PROVE GrantOf(f)' = GrantOf(f)
  <2>1. f <= ids'.flow <=> f <= ids.flow
    BY <1>1, <1>2, BoundAssumption DEF Flows
  <2>2. Undisturbed(f)
    BY <1>3, <1>5, <2>1 DEF Undisturbed
  <2> QED
    BY <2>2, SameGrant
<1>7. GrantOf(g) = OneTime!NoGrant("none")
  <2>1. GrantRead(g)
    BY DEF Known
  <2>2. g > ids.flow /\ ~(g <= ids.flow)
    BY <1>1, <1>2
  <2>3. GrantOf(g) = Nowhere(g)
    BY <2>1, <2>2 DEF GrantRead
  <2> QED
    BY <2>2, <2>3 DEF Nowhere, OneTime!NoGrant, OneTime!At
<1>8. GrantOf(g)' = [place |-> "consent", client |-> c, sub |-> None]
  <2>1. GrantRead(g)'
    BY DEF Known
  <2> QED
    BY <2>1, <1>4 DEF GrantRead, AtConsent
<1>9. OneTime!Open(g, c)
  BY <1>6, <1>7, <1>8 DEF OneTime!Open, OneTime!At
<1>10. OneTime!Step(g)
  BY <1>9 DEF OneTime!Step
<1> QED
  BY <1>10 DEF OneTime!Next, Promised

(* A consent page leaves its table, to be lost or to be taken by a task.   *)
LEMMA ConsentSteps ==
  ASSUME TypeInv, Unique, Known, Known', NEW r \in Tasks, LoginPurge(r) \/ CallbackPending(r)
  PROVE  Promised
<1>1. target[r] \in Flows /\ held[r] = None
  BY IdleHolds DEF LoginPurge, CallbackPending, TypeInv, TaskOK
<1>2. PICK g \in Flows : g = target[r]
  BY <1>1
<1>3. pending'[g] = None /\ \A f \in Flows \ {g} : pending'[f] = pending[f]
  BY <1>2 DEF LoginPurge, CallbackPending, TypeInv, TypeOK
<1>4. /\ \A q \in Tasks : q # r => at'[q] = at[q] /\ held'[q] = held[q]
      /\ \/ held'[r] = None
         \/ pending[g] # None /\ held'[r] = PendingGrant(g) /\ at'[r] = "exchange"
  BY <1>2, TaskAfter DEF LoginPurge, CallbackPending, Answer
<1>5. UNCHANGED <<sessions, tokens, ids>>
  BY DEF LoginPurge, CallbackPending
<1>6. ASSUME NEW f \in Flows, f # g \/ pending[g] = None PROVE GrantOf(f)' = GrantOf(f)
  <2>1. Undisturbed(f)
    BY <1>1, <1>3, <1>4, <1>5, <1>6 DEF Undisturbed, AtTask, PendingGrant
  <2> QED
    BY <2>1, SameGrant
<1>7. CASE pending[g] = None
  BY <1>6, <1>7 DEF Promised
<1>8. CASE pending[g] # None
  <2>1. GrantRead(g) /\ GrantRead(g)' /\ AtConsent(g)
    BY <1>8 DEF Known, AtConsent
  <2>2. GrantOf(g) = [place |-> "consent", client |-> pending[g].client, sub |-> None]
    BY <2>1 DEF GrantRead
  <2>3. OthersKept(g)
    BY <1>6 DEF OthersKept
  <2>4. CASE held'[r] = None
    <3>1. AtNone(g)'
      BY <1>3, <1>4, <1>5, <2>1, <2>4, Alone DEF AtNone, AtConsent, AtTask, AtCode, AtToken
    <3>2. ~AtNone(g) /\ ids'.flow = ids.flow
      BY <1>5, <2>1 DEF AtNone
    <3> QED
      BY <2>2, <2>3, <3>1, <3>2, GoneAfter, LosePromised
  <2>5. CASE held'[r] # None
    <3>1. held'[r] = [flow |-> g, client |-> pending[g].client, sub |-> None] /\ at'[r] = "exchange"
      BY <1>4, <2>5 DEF PendingGrant
    <3>2. AtTask(r, g)'
      BY <2>5, <3>1 DEF AtTask
    <3>3. GrantOf(g)' = [place |-> IF at'[r] = "exchange" THEN "signing" ELSE "redeeming",
                         client |-> held'[r].client, sub |-> held'[r].sub]
      BY <2>1, <3>2 DEF GrantRead, AtTask
    <3>4. at'[r] = "exchange" /\ held'[r].client = pending[g].client /\ held'[r].sub = None
      BY <3>1
    <3>5. GrantOf(g)' = [place |-> "signing", client |-> pending[g].client, sub |-> None]
      BY <3>3, <3>4
    <3>6. OneTime!Move(g, "consent", "signing")
      BY <2>2, <2>3, <3>5, Moves
    <3> QED
      BY <3>6, MovePromised
  <2> QED
    BY <2>4, <2>5
<1> QED
  BY <1>7, <1>8

(* The grant in the hands of a task becomes a code, with the owner who has *)
(* signed in.                                                              *)
LEMMA CodeSteps ==
  ASSUME TypeInv, TypeInv', Unique, Known, Known', NEW r \in Tasks, NEW s \in Subs,
         CallbackFinish(r, s)
  PROVE  Promised
<1>1. held[r] \in Grant /\ held[r] # None /\ at[r] = "exchange"
  BY DEF CallbackFinish, TypeInv, TaskOK
<1>2. held[r].flow \in Flows
  BY <1>1 DEF Grant
<1>3. PICK g \in Flows : g = held[r].flow
  BY <1>2
<1>4. ids.code + 1 \in 1 .. MaxCodes /\ ids'.flow = ids.flow
  BY BoundAssumption DEF CallbackFinish, SaveSession, TypeInv, TypeOK, Ids
<1>5. PICK k \in 1 .. MaxCodes : k = ids.code + 1
  BY <1>4
<1>6. sessions[k] = None
  BY <1>4, <1>5 DEF Unique, Fresh, TypeInv, TypeOK, Ids
<1>7. /\ sessions'[k] = [held[r] EXCEPT !.sub = s]
      /\ \A m \in (1 .. MaxCodes) \ {k} : sessions'[m] = sessions[m]
  BY <1>5 DEF CallbackFinish, SaveSession, TypeInv, TypeOK
<1>8. /\ sessions'[k].flow = g /\ sessions'[k].client = held[r].client /\ sessions'[k].sub = s
      /\ sessions'[k] \in Grant
  BY <1>1, <1>3, <1>7 DEF Grant
<1>9. sessions'[k] # None
  BY <1>8, NoneAssumption
<1>10. held'[r] = None /\ \A q \in Tasks : q # r => at'[q] = at[q] /\ held'[q] = held[q]
  BY TaskAfter DEF CallbackFinish, Answer
<1>11. UNCHANGED <<pending, tokens>>
  BY DEF CallbackFinish
<1>12. OthersKept(g)
  <2>1. ASSUME NEW f \in Flows \ {g} PROVE GrantOf(f)' = GrantOf(f)
    <3>1. Undisturbed(f)
      BY <1>1, <1>3, <1>4, <1>6, <1>7, <1>8, <1>10, <1>11 DEF Undisturbed, AtTask, AtCode
    <3> QED
      BY <3>1, SameGrant
  <2> QED
    BY <2>1 DEF OthersKept
<1>13. AtTask(r, g) /\ AtCode(k, g)'
  BY <1>1, <1>3, <1>8, <1>9 DEF AtTask, AtCode
<1>14. GrantOf(g) = [place |-> IF at[r] = "exchange" THEN "signing" ELSE "redeeming",
                     client |-> held[r].client, sub |-> held[r].sub]
  BY <1>13 DEF Known, GrantRead
<1>15. GrantOf(g).place = "signing" /\ GrantOf(g).client = held[r].client
  <2>1. GrantOf(g) = [place |-> "signing", client |-> held[r].client, sub |-> held[r].sub]
    BY <1>1, <1>14
  <2> QED
    BY <2>1
<1>16. GrantOf(g)' = [place |-> "code", client |-> sessions'[k].client, sub |-> sessions'[k].sub]
  BY <1>13 DEF Known, GrantRead, AtCode
<1>17. GrantOf(g)' = OneTime!At("code", GrantOf(g).client, s)
  BY <1>8, <1>15, <1>16 DEF OneTime!At
<1>18. OneTime!SignIn(g, s)
  BY <1>12, <1>15, <1>17 DEF OneTime!SignIn, OthersKept, CallbackFinish, OwnerAllowed
<1>19. OneTime!Step(g)
  BY <1>18 DEF OneTime!Step
<1> QED
  BY <1>19 DEF OneTime!Next, Promised

(* A grant in hand is somewhere.                                           *)
LEMMA HeldPlace ==
  ASSUME Known, NEW f \in Flows, NEW r \in Tasks, AtTask(r, f)
  PROVE  GrantOf(f).place # "none"
<1>1. GrantOf(f) = [place |-> IF at[r] = "exchange" THEN "signing" ELSE "redeeming",
                    client |-> held[r].client, sub |-> held[r].sub]
  BY DEF Known, GrantRead
<1>2. CASE at[r] = "exchange"
  <2>1. GrantOf(f) = [place |-> "signing", client |-> held[r].client, sub |-> held[r].sub]
    BY <1>1, <1>2
  <2> QED
    BY <2>1
<1>3. CASE at[r] # "exchange"
  <2>1. GrantOf(f) = [place |-> "redeeming", client |-> held[r].client, sub |-> held[r].sub]
    BY <1>1, <1>3
  <2> QED
    BY <2>1
<1> QED
  BY <1>2, <1>3

(* A task that goes away, or that Google answers with an error, loses what *)
(* it had in hand, and nothing else.                                       *)
LEMMA DropSteps ==
  ASSUME TypeInv, Unique, Known, Known', NEW r \in Tasks, CallbackFails(r) \/ Dropped(r)
  PROVE  Promised
<1>1. held'[r] = None /\ \A q \in Tasks : q # r => at'[q] = at[q] /\ held'[q] = held[q]
  BY TaskAfter DEF CallbackFails, Dropped, Answer
<1>2. UNCHANGED <<pending, sessions, tokens, ids>>
  BY DEF CallbackFails, Dropped, tables
<1>3. CASE held[r] = None
  <2>1. Quiet
    BY <1>1, <1>2, <1>3 DEF Quiet
  <2> QED
    BY <2>1, QuietPromised
<1>4. CASE held[r] # None
  <2>1. held[r].flow \in Flows
    BY <1>4 DEF TypeInv, TypeOK, Grant
  <2>2. PICK g \in Flows : g = held[r].flow
    BY <2>1
  <2>3. OthersKept(g)
    <3>1. ASSUME NEW f \in Flows \ {g} PROVE GrantOf(f)' = GrantOf(f)
      <4>1. Undisturbed(f)
        BY <1>1, <1>2, <2>2 DEF Undisturbed, AtTask
      <4> QED
        BY <4>1, SameGrant
    <3> QED
      BY <3>1 DEF OthersKept
  <2>4. AtTask(r, g)
    BY <1>4, <2>2 DEF AtTask
  <2>6. GrantOf(g).place # "none"
    BY <2>4, HeldPlace
  <2>7. ~AtNone(g) /\ ids'.flow = ids.flow
    BY <1>2, <2>4 DEF AtNone
  <2>8. AtNone(g)'
    BY <1>1, <1>2, <2>4, Alone DEF AtNone, AtConsent, AtTask, AtCode, AtToken
  <2> QED
    BY <2>3, <2>6, <2>7, <2>8, GoneAfter, LosePromised
<1> QED
  BY <1>3, <1>4

(* A code is consumed: a task has it in hand, or the request did not match *)
(* and it is lost.                                                         *)
LEMMA RedeemSteps ==
  ASSUME TypeInv, Unique, Known, Known', NEW r \in Tasks, NEW k \in 1 .. MaxCodes,
         NEW c \in Clients, NEW others \in BOOLEAN, HandleAuthCode(r, k, c, others)
  PROVE  Promised
<1>1. held[r] = None /\ sessions[k] # None
  BY IdleHolds DEF HandleAuthCode
<1>2. sessions[k].flow \in Flows
  BY <1>1 DEF TypeInv, TypeOK, Grant
<1>3. PICK g \in Flows : g = sessions[k].flow
  BY <1>2
<1>4. sessions'[k] = None /\ \A m \in (1 .. MaxCodes) \ {k} : sessions'[m] = sessions[m]
  BY DEF HandleAuthCode, TypeInv, TypeOK
<1>5. /\ \A q \in Tasks : q # r => at'[q] = at[q] /\ held'[q] = held[q]
      /\ \/ held'[r] = None
         \/ held'[r] = sessions[k] /\ at'[r] = "issue"
  BY TaskAfter DEF HandleAuthCode, Answer
<1>6. UNCHANGED <<pending, tokens, ids>>
  BY DEF HandleAuthCode
<1>7. OthersKept(g)
  <2>1. ASSUME NEW f \in Flows \ {g} PROVE GrantOf(f)' = GrantOf(f)
    <3>1. Undisturbed(f)
      BY <1>1, <1>3, <1>4, <1>5, <1>6 DEF Undisturbed, AtTask, AtCode
    <3> QED
      BY <3>1, SameGrant
  <2> QED
    BY <2>1 DEF OthersKept
<1>8. AtCode(k, g)
  BY <1>1, <1>3 DEF AtCode
<1>9. GrantOf(g) = [place |-> "code", client |-> sessions[k].client, sub |-> sessions[k].sub]
  BY <1>8 DEF Known, GrantRead
<1>10. CASE held'[r] = None
  <2>1. ~AtNone(g) /\ ids'.flow = ids.flow
    BY <1>6, <1>8 DEF AtNone
  <2>2. AtNone(g)'
    BY <1>4, <1>5, <1>6, <1>8, <1>10, Alone DEF AtNone, AtConsent, AtTask, AtCode, AtToken
  <2>3. GrantOf(g).place # "none"
    BY <1>9
  <2> QED
    BY <1>7, <2>1, <2>2, <2>3, GoneAfter, LosePromised
<1>11. CASE held'[r] # None
  <2>1. AtTask(r, g)' /\ held'[r] = sessions[k] /\ at'[r] # "exchange"
    BY <1>3, <1>5, <1>11 DEF AtTask
  <2>2. GrantOf(g)' = [place |-> IF at'[r] = "exchange" THEN "signing" ELSE "redeeming",
                       client |-> held'[r].client, sub |-> held'[r].sub]
    BY <2>1 DEF Known, GrantRead, AtTask
  <2>3. GrantOf(g)' = [place |-> "redeeming", client |-> sessions[k].client, sub |-> sessions[k].sub]
    BY <2>1, <2>2
  <2>4. OneTime!Move(g, "code", "redeeming")
    BY <1>7, <1>9, <2>3, Moves
  <2> QED
    BY <2>4, MovePromised
<1> QED
  BY <1>10, <1>11

(* So is a token found by its refresh token, if it is still there.         *)
LEMMA RefreshSteps ==
  ASSUME TypeInv, Unique, Known, Known', NEW r \in Tasks, NEW c \in Clients,
         RemoveRefreshed(r, c)
  PROVE  Promised
<1>1. held[r] = None /\ target[r] \in 1 .. MaxTokens
  BY IdleHolds DEF RemoveRefreshed, TypeInv, TaskOK
<1>2. PICK t \in 1 .. MaxTokens : t = target[r]
  BY <1>1
<1>3. tokens'[t] = None /\ \A u \in (1 .. MaxTokens) \ {t} : tokens'[u] = tokens[u]
  BY <1>2 DEF RemoveRefreshed, TypeInv, TypeOK
<1>4. /\ \A q \in Tasks : q # r => at'[q] = at[q] /\ held'[q] = held[q]
      /\ \/ held'[r] = None
         \/ tokens[t] # None /\ held'[r] = tokens[t].grant /\ at'[r] = "issue"
  BY <1>2, TaskAfter DEF RemoveRefreshed, Answer
<1>5. UNCHANGED <<pending, sessions, ids>>
  BY DEF RemoveRefreshed
<1>6. CASE tokens[t] = None
  <2>1. ASSUME NEW f \in Flows PROVE GrantOf(f)' = GrantOf(f)
    <3>1. Undisturbed(f)
      BY <1>1, <1>3, <1>4, <1>5, <1>6 DEF Undisturbed, AtTask, AtToken
    <3> QED
      BY <3>1, SameGrant
  <2> QED
    BY <2>1 DEF Promised
<1>7. CASE tokens[t] # None
  <2>1. tokens[t].grant.flow \in Flows
    BY <1>7 DEF TypeInv, TypeOK, StoredToken, Grant
  <2>2. PICK g \in Flows : g = tokens[t].grant.flow
    BY <2>1
  <2>3. OthersKept(g)
    <3>1. ASSUME NEW f \in Flows \ {g} PROVE GrantOf(f)' = GrantOf(f)
      <4>1. Undisturbed(f)
        BY <1>1, <1>3, <1>4, <1>5, <2>2 DEF Undisturbed, AtTask, AtToken
      <4> QED
        BY <4>1, SameGrant
    <3> QED
      BY <3>1 DEF OthersKept
  <2>4. AtToken(t, g)
    BY <1>7, <2>2 DEF AtToken
  <2>5. GrantOf(g) = [place |-> "token", client |-> tokens[t].grant.client,
                      sub |-> tokens[t].grant.sub]
    BY <2>4 DEF Known, GrantRead
  <2>6. CASE held'[r] = None
    <3>1. ~AtNone(g) /\ ids'.flow = ids.flow
      BY <1>5, <2>4 DEF AtNone
    <3>2. AtNone(g)'
      BY <1>3, <1>4, <1>5, <2>4, <2>6, Alone DEF AtNone, AtConsent, AtTask, AtCode, AtToken
    <3>3. GrantOf(g).place # "none"
      BY <2>5
    <3> QED
      BY <2>3, <3>1, <3>2, <3>3, GoneAfter, LosePromised
  <2>7. CASE held'[r] # None
    <3>1. AtTask(r, g)' /\ held'[r] = tokens[t].grant /\ at'[r] # "exchange"
      BY <1>4, <2>2, <2>7 DEF AtTask
    <3>2. GrantOf(g)' = [place |-> IF at'[r] = "exchange" THEN "signing" ELSE "redeeming",
                         client |-> held'[r].client, sub |-> held'[r].sub]
      BY <3>1 DEF Known, GrantRead, AtTask
    <3>3. GrantOf(g)' = [place |-> "redeeming", client |-> tokens[t].grant.client,
                         sub |-> tokens[t].grant.sub]
      BY <3>1, <3>2
    <3>4. OneTime!Move(g, "token", "redeeming")
      BY <2>3, <2>5, <3>3, Moves
    <3> QED
      BY <3>4, MovePromised
  <2> QED
    BY <2>6, <2>7
<1> QED
  BY <1>6, <1>7

(* The grant in hand becomes a token.                                      *)
LEMMA IssueSteps ==
  ASSUME TypeInv, TypeInv', Unique, Known, Known', NEW r \in Tasks, IssueToken(r)
  PROVE  Promised
<1>1. held[r] \in Grant /\ held[r] # None /\ at[r] = "issue"
  BY DEF IssueToken, TypeInv, TaskOK
<1>2. held[r].flow \in Flows
  BY <1>1 DEF Grant
<1>3. PICK g \in Flows : g = held[r].flow
  BY <1>2
<1>4. ids.token + 1 \in 1 .. MaxTokens /\ ids'.flow = ids.flow
  BY BoundAssumption DEF IssueToken, SaveToken, TypeInv, TypeOK, Ids
<1>5. PICK t \in 1 .. MaxTokens : t = ids.token + 1
  BY <1>4
<1>6. tokens[t] = None
  BY <1>4, <1>5 DEF Unique, Fresh, TypeInv, TypeOK, Ids
<1>7. /\ tokens'[t] = [grant |-> held[r], issued |-> now]
      /\ \A u \in (1 .. MaxTokens) \ {t} : tokens'[u] = tokens[u]
  BY <1>5 DEF IssueToken, SaveToken, TypeInv, TypeOK
<1>8. tokens'[t] # None /\ tokens'[t].grant = held[r]
  <2>1. [grant |-> held[r], issued |-> now] \in StoredToken
    BY <1>1 DEF StoredToken, TypeInv, TypeOK
  <2> QED
    BY <2>1, <1>7, NoneAssumption
<1>9. held'[r] = None /\ \A q \in Tasks : q # r => at'[q] = at[q] /\ held'[q] = held[q]
  BY TaskAfter DEF IssueToken, Answer
<1>10. UNCHANGED <<pending, sessions>>
  BY DEF IssueToken
<1>11. OthersKept(g)
  <2>1. ASSUME NEW f \in Flows \ {g} PROVE GrantOf(f)' = GrantOf(f)
    <3>1. Undisturbed(f)
      BY <1>1, <1>3, <1>4, <1>6, <1>7, <1>8, <1>9, <1>10 DEF Undisturbed, AtTask, AtToken
    <3> QED
      BY <3>1, SameGrant
  <2> QED
    BY <2>1 DEF OthersKept
<1>12. AtTask(r, g) /\ AtToken(t, g)'
  BY <1>1, <1>3, <1>8 DEF AtTask, AtToken
<1>13. GrantOf(g) = [place |-> IF at[r] = "exchange" THEN "signing" ELSE "redeeming",
                     client |-> held[r].client, sub |-> held[r].sub]
  BY <1>12 DEF Known, GrantRead
<1>14. GrantOf(g) = [place |-> "redeeming", client |-> held[r].client, sub |-> held[r].sub]
  BY <1>1, <1>13
<1>15. GrantOf(g)' = [place |-> "token", client |-> tokens'[t].grant.client,
                      sub |-> tokens'[t].grant.sub]
  BY <1>12 DEF Known, GrantRead, AtToken
<1>16. GrantOf(g)' = [place |-> "token", client |-> held[r].client, sub |-> held[r].sub]
  BY <1>8, <1>15
<1>17. OneTime!Move(g, "redeeming", "token")
  BY <1>11, <1>14, <1>16, Moves
<1> QED
  BY <1>17, MovePromised

(* A restart loses every grant there is, and opens none.                   *)
LEMMA RestartSteps ==
  ASSUME TypeInv, Known, Known', Restart
  PROVE  Promised
<1>1. ids' = ids
  BY DEF Restart
<1>2. ASSUME NEW f \in Flows
      PROVE  GrantOf(f)' = IF GrantOf(f).place # "none" THEN OneTime!NoGrant("gone") ELSE GrantOf(f)
  <2>1. AtNone(f)'
    BY DEF AtNone, AtConsent, AtTask, AtCode, AtToken, Restart
  <2>2. CASE AtNone(f)
    <3>1. GrantOf(f) = Nowhere(f) /\ GrantOf(f)' = Nowhere(f)'
      BY <2>1, <2>2 DEF Known, GrantRead
    <3>2. Nowhere(f)' = Nowhere(f)
      BY <1>1 DEF Nowhere
    <3>3. CASE f <= ids.flow
      BY <3>1, <3>2, <3>3 DEF Nowhere, OneTime!NoGrant, OneTime!At
    <3>4. CASE ~(f <= ids.flow)
      BY <3>1, <3>2, <3>4 DEF Nowhere
    <3> QED
      BY <3>3, <3>4
  <2>3. CASE ~AtNone(f)
    <3>1. GrantOf(f)' = OneTime!NoGrant("gone")
      BY <1>1, <2>1, <2>3, GoneAfter
    <3>2. GrantOf(f).place # "none"
      <4>1. CASE AtConsent(f)
        <5>1. GrantOf(f) = [place |-> "consent", client |-> pending[f].client, sub |-> None]
          BY <4>1 DEF Known, GrantRead
        <5> QED
          BY <5>1
      <4>2. ASSUME NEW r \in Tasks, AtTask(r, f) PROVE GrantOf(f).place # "none"
        BY <4>2, HeldPlace
      <4>3. ASSUME NEW k \in 1 .. MaxCodes, AtCode(k, f) PROVE GrantOf(f).place # "none"
        <5>1. GrantOf(f) = [place |-> "code", client |-> sessions[k].client,
                            sub |-> sessions[k].sub]
          BY <4>3 DEF Known, GrantRead
        <5> QED
          BY <5>1
      <4>4. ASSUME NEW t \in 1 .. MaxTokens, AtToken(t, f) PROVE GrantOf(f).place # "none"
        <5>1. GrantOf(f) = [place |-> "token", client |-> tokens[t].grant.client,
                            sub |-> tokens[t].grant.sub]
          BY <4>4 DEF Known, GrantRead
        <5> QED
          BY <5>1
      <4> QED
        BY <2>3, <4>1, <4>2, <4>3, <4>4 DEF AtNone
    <3> QED
      BY <3>1, <3>2
  <2> QED
    BY <2>2, <2>3
<1>3. OneTime!Lose(Flows)
  BY <1>2 DEF OneTime!Lose
<1> QED
  BY <1>3 DEF OneTime!Next, Promised

LEMMA InitPromised == Init => OneTime!Init
<1> SUFFICES ASSUME Init, NEW f \in Flows
             PROVE  GrantOf(f) = OneTime!NoGrant("none")
  BY DEF OneTime!Init
<1>1. TypeInv /\ Unique
  BY InitTyped DEF Init, Unique, OneCode, OneToken, OneHolder, CodeAlone, TokenAlone, HolderAlone, Fresh
<1>2. GrantRead(f)
  BY <1>1, GrantKnown DEF Known
<1>3. AtNone(f)
  BY DEF AtNone, AtConsent, AtTask, AtCode, AtToken, Init
<1>4. ~(f <= ids.flow)
  BY BoundAssumption DEF Init, Flows
<1> QED
  BY <1>2, <1>3, <1>4 DEF GrantRead, Nowhere, OneTime!NoGrant, OneTime!At

LEMMA NextPromised ==
  ASSUME TypeInv, TypeInv', Unique, Known, Known', [Next]_vars
  PROVE  Promised
<1>1. CASE (\E c \in Clients : Register(c)) \/ Tick \/ UNCHANGED vars
  BY <1>1, QuietSteps
<1>2. ASSUME NEW c \in Clients, Authorize(c) PROVE Promised
  BY <1>2, AuthorizeSteps
<1>3. ASSUME NEW r \in Tasks, Login(r) PROVE Promised
  BY <1>3, QuietSteps, ConsentSteps DEF Login
<1>4. ASSUME NEW r \in Tasks, Callback(r) PROVE Promised
  <2>1. CASE \E l \in 1 .. MaxLogins : CallbackState(r, l)
    BY <2>1, QuietSteps
  <2>2. CASE CallbackPending(r)
    BY <2>2, ConsentSteps
  <2>3. CASE \E s \in Subs : CallbackFinish(r, s)
    BY <2>3, CodeSteps
  <2>4. CASE CallbackFails(r)
    BY <2>4, DropSteps
  <2> QED
    BY <1>4, <2>1, <2>2, <2>3, <2>4 DEF Callback
<1>5. ASSUME NEW r \in Tasks, TokenRequest(r) PROVE Promised
  <2>1. CASE \E k \in 1 .. MaxCodes, c \in Clients, others \in BOOLEAN :
                HandleAuthCode(r, k, c, others)
    BY <2>1, RedeemSteps
  <2>2. CASE \E t \in 1 .. MaxTokens : HandleRefresh(r, t)
    BY <2>2, QuietSteps
  <2>3. CASE \E c \in Clients : RemoveRefreshed(r, c)
    BY <2>3, RefreshSteps
  <2>4. CASE IssueToken(r)
    BY <2>4, IssueSteps
  <2> QED
    BY <1>5, <2>1, <2>2, <2>3, <2>4 DEF TokenRequest
<1>6. ASSUME NEW r \in Tasks, Dropped(r) PROVE Promised
  BY <1>6, DropSteps
<1>7. CASE Restart
  BY <1>7, RestartSteps
<1> QED
  BY <1>1, <1>2, <1>3, <1>4, <1>5, <1>6, <1>7 DEF Next

(* The server implements OneTimeGrant: whatever the requests, their        *)
(* interleaving, the expiries and the restarts, a grant goes from consent  *)
(* to code to token and from token to token, once each, and stays with its *)
(* client and its owner (oauth/store.rs, oauth/routes).                    *)
THEOREM ServerImplementsOneTime == Spec => ImplementsOneTime
<1>1. Init => OneTime!Init
  BY InitPromised
<1>2. TypeInv /\ Unique /\ (TypeInv /\ Unique)' /\ Known /\ Known' /\ [Next]_vars
      => [OneTime!Next]_([f \in Flows |-> GrantOf(f)])
  BY NextPromised DEF Promised
<1>3. TypeInv /\ Unique => Known
  BY GrantKnown
<1> QED
  BY <1>1, <1>2, <1>3, UniqueInvariant, PTL DEF Spec, ImplementsOneTime, OneTime!Spec
=============================================================================
