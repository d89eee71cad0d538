------------------------------ MODULE WebClient ------------------------------
(***************************************************************************)
(* The session of the web application: the tokens kept in localStorage,    *)
(* the requests that exchange them when they are refused (lib/apiClient.ts), *)
(* the user displayed (auth/AuthContext.tsx) and the redirection of errors *)
(* (main.tsx).  Composed with the API, Sessions: each request of the tab   *)
(* is a call of AuthCalls, which goes on when the tab has forgotten it.    *)
(***************************************************************************)
EXTENDS Sessions

CONSTANT QueryRetries   \* retry of the queries, main.tsx

ASSUME WebClientAssumption == QueryRetries \in Nat

VARIABLES
  store,      \* localStorage: the number of each token, 0 for none
  stale,      \* the access tokens that have expired
  user,       \* a user is displayed
  loading,    \* isLoading of AuthProvider
  request,    \* the requests of the tab
  abandoned   \* tokens whose exchange the tab has forgotten; observes

clientVars == <<store, stale, user, loading, request, abandoned>>

webVars == <<sessionVars, clientVars>>

-----------------------------------------------------------------------------
(* An access token has the number of the refresh token issued with it.     *)
NoTokens == [access |-> 0, refresh |-> 0]

(* "me" is the request of AuthProvider, "session" one that opens a         *)
(* session, "query" any other query or mutation.                           *)
Request ==
  [at: {"idle", "sent", "opening", "denied", "asking", "refreshing"},
   kind: {"me", "session", "query"}, access: Nat, refresh: Nat,
   retry: BOOLEAN, left: 0..QueryRetries]

NoRequest ==
  [at |-> "idle", kind |-> "query", access |-> 0, refresh |-> 0, retry |-> TRUE, left |-> 0]

Pending(c) == request[c].at # "idle"

Sent(kind, left, retry, access) ==
  [NoRequest EXCEPT !.at = "sent", !.kind = kind, !.left = left, !.retry = retry,
                    !.access = access]

SendRequest(c, kind, left, retry, access) ==
  request' = [request EXCEPT ![c] = Sent(kind, left, retry, access)]

EndRequest(c) == request' = [request EXCEPT ![c] = NoRequest]

(* The page is loaded again: its memory is lost, and AuthProvider asks for *)
(* the user if there is a token.                                           *)
LoadTab(tokens) ==
  /\ store' = tokens
  /\ user' = FALSE
  /\ loading' = (tokens.access # 0)
  /\ abandoned' = abandoned \cup ({request[c].refresh : c \in AuthCalls} \ {0})
  /\ IF tokens.access = 0
     THEN request' = [c \in AuthCalls |-> NoRequest]
     ELSE \E c \in AuthCalls :
            /\ Ready(c)
            /\ request' = [d \in AuthCalls |->
                             IF d = c THEN Sent("me", 0, TRUE, tokens.access) ELSE NoRequest]

LoadPageAgain ==
  /\ LoadTab(store)
  /\ UNCHANGED <<sessionVars, stale>>

-----------------------------------------------------------------------------
Ask(c) ==
  /\ ~Pending(c) /\ Ready(c)
  /\ ~loading
  /\ \E left \in {0, QueryRetries} : SendRequest(c, "query", left, TRUE, store.access)
  /\ UNCHANGED <<sessionVars, store, stale, user, loading, abandoned>>

(* verifyLoginCode, loginAsDemo, register, acceptance of an invitation.    *)
AskSession(c) ==
  /\ ~Pending(c) /\ Ready(c)
  /\ ~user /\ ~loading
  /\ SendRequest(c, "session", 0, TRUE, store.access)
  /\ UNCHANGED <<sessionVars, store, stale, user, loading, abandoned>>

(* JwtStrategy: the signature and the expiry of the access token; nothing  *)
(* is read of the session.                                                 *)
Authorized(access) == access # 0 /\ access \notin stale

Deny(c) == request' = [request EXCEPT ![c].at = "denied", ![c].access = 0]

(* The route is public; a wrong code is answered by 401 too.               *)
ServeSession(c) ==
  /\ request[c].at = "sent" /\ request[c].kind = "session"
  /\ \/ /\ OpenSession(c)
        /\ request' = [request EXCEPT ![c].at = "opening", ![c].access = 0]
     \/ /\ Deny(c)
        /\ UNCHANGED sessionVars
  /\ UNCHANGED <<store, stale, user, loading, abandoned>>

(* The tab has read the answer of the API.                                 *)
ReadAnswer(c) ==
  /\ job' = [job EXCEPT ![c] = NoJob]
  /\ UNCHANGED <<clock, password, verified, challenges, refreshTokens, links>>

SessionOpened(c) ==
  /\ request[c].at = "opening" /\ Ready(c)
  /\ IF job[c].id = 0
     THEN UNCHANGED <<store, user>>
     ELSE store' = [access |-> job[c].id, refresh |-> job[c].id] /\ user' = TRUE
  /\ EndRequest(c)
  /\ ReadAnswer(c)
  /\ UNCHANGED <<stale, loading, abandoned>>

Serve(c) ==
  /\ request[c].at = "sent" /\ request[c].kind # "session"
  /\ IF Authorized(request[c].access)
     THEN /\ EndRequest(c)
          /\ user' = (user \/ request[c].kind = "me")
          /\ loading' = (loading /\ request[c].kind # "me")
     ELSE Deny(c) /\ UNCHANGED <<user, loading>>
  /\ UNCHANGED <<sessionVars, store, stale, abandoned>>

(* AuthProvider forgets the session it could not restore.                  *)
\* Variant: isLoading is reset when the request succeeds only.
ForgetSessionLoading(c) ==
  /\ store' = NoTokens
  /\ EndRequest(c)
  /\ UNCHANGED <<user, loading, abandoned>>

ForgetSession(c) ==
  /\ store' = NoTokens
  /\ loading' = FALSE
  /\ EndRequest(c)
  /\ UNCHANGED <<user, abandoned>>

(* The 401 of a request becomes an error: a form displays the message, and *)
(* a query that is not asked again sends the tab to /login.                *)
Unauthorized(c, tokens) ==
  CASE request[c].kind = "me" -> ForgetSession(c)
    [] request[c].kind = "session" ->
         /\ store' = tokens
         /\ EndRequest(c)
         /\ UNCHANGED <<user, loading, abandoned>>
    [] OTHER ->
         IF request[c].left > 0
         THEN /\ store' = tokens
              /\ SendRequest(c, "query", request[c].left - 1, TRUE, tokens.access)
              /\ UNCHANGED <<user, loading, abandoned>>
         ELSE LoadTab(NoTokens)

(* A request refused once is asked again after an exchange of the tokens,  *)
(* if there is one to exchange when the answer comes.                      *)
HandleDenied(c) ==
  /\ request[c].at = "denied"
  /\ IF request[c].retry /\ store.refresh # 0
     THEN /\ request' = [request EXCEPT ![c].at = "asking", ![c].refresh = store.refresh]
          /\ UNCHANGED <<store, user, loading, abandoned>>
     ELSE Unauthorized(c, store)
  /\ UNCHANGED <<sessionVars, stale>>

(* POST /auth/refresh reaches the API.                                     *)
TryRefresh(c) ==
  /\ request[c].at = "asking"
  /\ RefreshReads(c, request[c].refresh)
  /\ request' = [request EXCEPT ![c].at = "refreshing"]
  /\ UNCHANGED <<store, stale, user, loading, abandoned>>

(* The tokens kept when an exchange is answered.                           *)
\* Variant: the new access token replaces the old one, alone.
KeptAccess(id) == [store EXCEPT !.access = id]

Kept(id) == [access |-> id, refresh |-> id]

Refreshed(c) ==
  /\ request[c].at = "refreshing" /\ Ready(c)
  /\ IF job[c].id = 0
     THEN Unauthorized(c, NoTokens)
     ELSE /\ store' = Kept(job[c].id)
          /\ SendRequest(c, request[c].kind, request[c].left, FALSE, job[c].id)
          /\ UNCHANGED <<user, loading, abandoned>>
  /\ ReadAnswer(c)
  /\ UNCHANGED stale

(* The network fails.  An exchange that fails is one that was refused; for *)
(* AuthProvider, so is any error.                                          *)
LoseAnswer(c) ==
  /\ request[c].at \in {"sent", "opening", "asking", "refreshing"}
  /\ IF request[c].at \in {"asking", "refreshing"} THEN Unauthorized(c, NoTokens)
     ELSE IF request[c].kind = "me" THEN Unauthorized(c, store)
     ELSE /\ IF request[c].left > 0 /\ Ready(c)
             THEN SendRequest(c, "query", request[c].left - 1, TRUE, store.access)
             ELSE EndRequest(c)
          /\ UNCHANGED <<store, user, loading, abandoned>>
  /\ UNCHANGED <<sessionVars, stale>>

LogoutOfTab ==
  /\ user
  /\ store' = NoTokens
  /\ user' = FALSE
  /\ UNCHANGED <<sessionVars, stale, loading, request, abandoned>>

ExpireAccess ==
  /\ \E i \in DOMAIN refreshTokens \ stale : stale' = stale \cup {i}
  /\ UNCHANGED <<sessionVars, store, user, loading, request, abandoned>>

(* The API goes on, or stops, whatever the tab does.                       *)
ServerSteps(c) ==
  /\ TokenSteps(c) \/ CrashCall(c)
  /\ UNCHANGED clientVars

TabSteps(c) ==
  \/ Serve(c) \/ ServeSession(c) \/ SessionOpened(c)
  \/ HandleDenied(c) \/ TryRefresh(c) \/ Refreshed(c)

WebInit ==
  /\ SessionsInit
  /\ store = NoTokens
  /\ stale = {}
  /\ user = FALSE
  /\ loading = FALSE
  /\ request = [c \in AuthCalls |-> NoRequest]
  /\ abandoned = {}

WebNext ==
  \/ \E c \in AuthCalls :
       Ask(c) \/ AskSession(c) \/ TabSteps(c) \/ LoseAnswer(c) \/ ServerSteps(c)
  \/ LoadPageAgain \/ LogoutOfTab \/ ExpireAccess

(* The browser and the API run what they have begun.                       *)
WebFairness ==
  \A c \in AuthCalls : WF_webVars(TabSteps(c) \/ ServerSteps(c))

WebSpec == WebInit /\ [][WebNext]_webVars /\ WebFairness

-----------------------------------------------------------------------------
WebTypeOK ==
  /\ store \in [access: Nat, refresh: Nat]
  /\ stale \subseteq Nat
  /\ user \in BOOLEAN /\ loading \in BOOLEAN
  /\ request \in [AuthCalls -> Request]
  /\ abandoned \subseteq Nat

(* The refresh token kept by the browser is one the API would exchange,    *)
(* unless its exchange is in progress or was cut by a load of the page,    *)
(* although requests exchange it concurrently (apiClient.ts:48-54,94-114). *)
StoredTokenLives ==
  store.refresh # 0 =>
    \/ ~refreshTokens[store.refresh].revoked
    \/ store.refresh \in abandoned
    \/ \E c \in AuthCalls :
         request[c].at = "refreshing" /\ request[c].refresh = store.refresh

(* Unless the user keeps loading the page again, every request is answered *)
(* and the restoration of the session ends, after as many exchanges as it  *)
(* takes (apiClient.ts:48-54, AuthContext.tsx:50-60).                      *)
RequestsEnd ==
  \/ []<><<LoadPageAgain>>_webVars
  \/ /\ \A c \in AuthCalls : []<>~Pending(c)
     /\ []<>~loading

=============================================================================
