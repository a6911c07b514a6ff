----------------------------- MODULE ApiClient -----------------------------
(***************************************************************************)
(* The browser's side of a session: the API client of each tab, which      *)
(* answers a 401 by refreshing the tokens once, and the requests waiting   *)
(* for it; and the server's rotation of refresh tokens, which all tabs     *)
(* share through one cookie.  A reload or a redirect to /login loads the   *)
(* page anew, and every load begins with initAuth.                         *)
(***************************************************************************)
EXTENDS Integers, FiniteSets

CONSTANTS
    Tabs, Slots,  \* tabs of one browser, and requests running at once in each
    MaxTokens,    \* bound: refresh tokens ever issued
    MaxRequests   \* bound: requests running at once in all tabs

ASSUME BrowserAssumption == IsFiniteSet(Tabs) /\ {MaxTokens, MaxRequests} \subseteq Nat

VARIABLES
    live,        \* refresh tokens with a Session row
    issued,      \* the last refresh token issued
    cookie,      \* the refresh token in the cookie, 0 for none
    signedIn,    \* tabs with a currentAccessToken
    refreshing,  \* tabs with isRefreshing
    open,        \* tabs that show the application
    req,         \* the requests of each tab; token is the cookie taken along, or
                 \* the refresh token granted
    blame        \* what may end a session: "fault", "ended", "hasty"

clientVars == <<live, issued, cookie, signedIn, refreshing, open, req, blame>>

Tokens == 0..MaxTokens
Endpoints  == {"api", "logout", "login", "initAuth", "refresh"}

NoRequest == [pc |-> "idle", post |-> "api", for |-> "api", retry |-> FALSE, token |-> 0]

ClientTypeOK ==
    /\ live \subseteq Tokens \ {0} /\ {issued, cookie} \subseteq Tokens
    /\ signedIn \cup refreshing \cup open \subseteq Tabs
    /\ req \in [Tabs -> [Slots -> [pc : {"idle", "sent", "queued", "granted", "refused"}, post : Endpoints,
                                   for : Endpoints, retry : BOOLEAN, token : Tokens]]]
    /\ blame \subseteq {"fault", "ended", "hasty"}

ClientInit ==
    /\ live = {} /\ issued = 0 /\ cookie = 0
    /\ signedIn = {} /\ refreshing = {} /\ open = {}
    /\ req = [t \in Tabs |-> [s \in Slots |-> NoRequest]]
    /\ blame = {}

\* The browser sends the cookie to /v1/auth only; a login does not look at it.
Sent(post, for, retry, jar) ==
    [pc |-> "sent", post |-> post, for |-> for, retry |-> retry,
     token |-> IF post \in {"api", "login"} THEN 0 ELSE jar]

InFlight(t, s, post) == req[t][s].pc = "sent" /\ req[t][s].post = post
Answered(t, s, pc)   == req[t][s].pc = pc
Becomes(t, s, r)     == req' = [req EXCEPT ![t][s] = r]
Running              == {p \in Tabs \X Slots : req[p[1]][p[2]].pc # "idle"}
-----------------------------------------------------------------------------
(* The page                                                                *)

\* main.tsx: the requests of the page before are aborted; a token granted to
\* one of them is lost.
Load(t, jar) ==
    /\ \E first \in Slots :
           req' = [req EXCEPT ![t] = [s \in Slots |->
                       IF s = first THEN Sent("initAuth", "initAuth", FALSE, jar) ELSE NoRequest]]
    /\ signedIn' = signedIn \ {t}
    /\ refreshing' = refreshing \ {t}
    /\ blame' = IF \E s \in Slots : Answered(t, s, "granted") THEN blame \cup {"fault"} ELSE blame

\* The user opens a tab or reloads it.
Open(t) ==
    /\ Cardinality(Running) < MaxRequests
    /\ Load(t, cookie)
    /\ open' = open \cup {t}
    /\ UNCHANGED <<live, issued, cookie>>

Hydrating(t) == \E s \in Slots : req[t][s].pc # "idle" /\ req[t][s].for = "initAuth"

\* Protected pages wait for initAuth; the login page does not.
Request(t, s, post) ==
    /\ t \in open /\ req[t][s].pc = "idle" /\ Cardinality(Running) < MaxRequests
    /\ IF post = "login" THEN t \notin signedIn ELSE t \in signedIn /\ ~Hydrating(t)
    /\ Becomes(t, s, Sent(post, post, FALSE, cookie))
    /\ blame' = IF post = "login" /\ Hydrating(t) THEN blame \cup {"hasty"} ELSE blame
    /\ UNCHANGED <<live, issued, cookie, signedIn, refreshing, open>>
-----------------------------------------------------------------------------
(* The server                                                              *)

Grant(t, s, used) ==
    /\ issued < MaxTokens
    /\ issued' = issued + 1
    /\ live' = (live \ used) \cup {issued + 1}
    /\ Becomes(t, s, [req[t][s] EXCEPT !.pc = "granted", !.token = issued + 1])

Refuse(t, s) == Becomes(t, s, [req[t][s] EXCEPT !.pc = "refused"]) /\ UNCHANGED <<live, issued>>

\* AuthService.refresh: the session of the cookie is replaced, or there is none.
ServeRefresh(t, s) ==
    /\ InFlight(t, s, "refresh") \/ InFlight(t, s, "initAuth")
    /\ IF req[t][s].token \in live THEN Grant(t, s, {req[t][s].token}) ELSE Refuse(t, s)
    /\ UNCHANGED <<cookie, signedIn, refreshing, open, blame>>

ServeLogin(t, s) ==
    /\ InFlight(t, s, "login")
    /\ Grant(t, s, {}) \/ Refuse(t, s)
    /\ UNCHANGED <<cookie, signedIn, refreshing, open, blame>>

\* Refused (401) once the access token has expired or was revoked, or the
\* account is not active: at any time.
ServeApi(t, s) ==
    /\ InFlight(t, s, "api")
    /\ (Becomes(t, s, NoRequest) /\ UNCHANGED <<live, issued>>) \/ Refuse(t, s)
    /\ UNCHANGED <<cookie, signedIn, refreshing, open, blame>>

\* The session of the cookie is deleted and the cookie cleared; the tab forgets
\* its access token.
ServeLogout(t, s) ==
    /\ InFlight(t, s, "logout")
    /\ \/ /\ live' = live \ {req[t][s].token}
          /\ cookie' = 0
          /\ signedIn' = signedIn \ {t}
          /\ Becomes(t, s, NoRequest)
          /\ blame' = blame \cup {"ended"}
          /\ UNCHANGED issued
       \/ Refuse(t, s) /\ UNCHANGED <<cookie, signedIn, blame>>
    /\ UNCHANGED <<refreshing, open>>

\* A password change, or an administrator, ends every session of the user.
Revoke ==
    /\ live # {}
    /\ live' = {}
    /\ blame' = blame \cup {"ended"}
    /\ UNCHANGED <<issued, cookie, signedIn, refreshing, open, req>>
-----------------------------------------------------------------------------
(* The response interceptor                                                *)

\* initAuth, or a login, got its tokens.
Receive(t, s) ==
    /\ Answered(t, s, "granted") /\ req[t][s].post # "refresh"
    /\ cookie' = req[t][s].token
    /\ signedIn' = signedIn \cup {t}
    /\ Becomes(t, s, NoRequest)
    /\ UNCHANGED <<live, issued, refreshing, open, blame>>

\* The request fails.  However a logout ends, the tab forgets its access token.
Reject(t, s) ==
    /\ Becomes(t, s, NoRequest)
    /\ signedIn' = IF req[t][s].post = "logout" THEN signedIn \ {t} ELSE signedIn

\* Mutant: every 401 begins a refresh of its own.
NeverRefreshing(t) == FALSE

IsRefreshing(t) == t \in refreshing

\* Without a cookie the server answers 400, which no refresh follows.
BadRequest(t, s) == req[t][s].post = "initAuth" /\ req[t][s].token = 0

\* A 401: a request that was retried is rejected; one that comes during a
\* refresh waits in failedQueue; any other begins a refresh, which does not
\* pass through the interceptor.
Unauthorized(t, s) ==
    /\ Answered(t, s, "refused") /\ req[t][s].post # "refresh"
    /\ IF req[t][s].retry \/ BadRequest(t, s)
       THEN Reject(t, s) /\ UNCHANGED refreshing
       ELSE IF IsRefreshing(t)
       THEN Becomes(t, s, [req[t][s] EXCEPT !.pc = "queued", !.token = 0]) /\ UNCHANGED <<signedIn, refreshing>>
       ELSE /\ Becomes(t, s, Sent("refresh", req[t][s].for, TRUE, cookie))
            /\ refreshing' = refreshing \cup {t}
            /\ UNCHANGED signedIn
    /\ UNCHANGED <<live, issued, cookie, open, blame>>

\* Mutant: the requests that waited are forgotten.
ProcessNone(t, s) == {s}

ProcessQueue(t, s) == {s} \cup {q \in Slots : req[t][q].pc = "queued"}

\* The requests that waited, and the one that did not, are sent again.
Refreshed(t, s) ==
    /\ Answered(t, s, "granted") /\ req[t][s].post = "refresh"
    /\ cookie' = req[t][s].token
    /\ req' = [req EXCEPT ![t] = [q \in Slots |->
           IF q \in ProcessQueue(t, s) THEN Sent(req[t][q].for, req[t][q].for, req[t][q].retry, cookie')
                                       ELSE req[t][q]]]
    /\ signedIn' = signedIn \cup {t}
    /\ refreshing' = refreshing \ {t}
    /\ UNCHANGED <<live, issued, open, blame>>

\* Mutant: the server clears the cookie with its refusal.
CookieCleared == 0

CookieAfterRefusal == cookie

\* The requests that waited are rejected, and the tab goes to /login.
RefreshFails(t, s) ==
    /\ Answered(t, s, "refused") /\ req[t][s].post = "refresh"
    /\ cookie' = CookieAfterRefusal
    /\ Load(t, cookie')
    /\ UNCHANGED <<live, issued, open>>

\* A request or its reply is lost, or it meets a 429 or 5xx: a refresh takes
\* this for a refusal, any other request ends.
Fault(t, s) ==
    /\ req[t][s].pc \in {"sent", "granted"}
    /\ IF req[t][s].post = "refresh"
       THEN Refuse(t, s) /\ UNCHANGED signedIn
       ELSE Reject(t, s) /\ UNCHANGED <<live, issued>>
    /\ blame' = blame \cup {"fault"}
    /\ UNCHANGED <<cookie, refreshing, open>>

ClientNext ==
    \/ \E t \in Tabs : Open(t)
    \/ \E t \in Tabs, s \in Slots :
        \/ \E post \in {"api", "logout", "login"} : Request(t, s, post)
        \/ ServeRefresh(t, s) \/ ServeLogin(t, s) \/ ServeApi(t, s) \/ ServeLogout(t, s)
        \/ Receive(t, s) \/ Unauthorized(t, s) \/ Refreshed(t, s) \/ RefreshFails(t, s)
        \/ Fault(t, s)
    \/ Revoke

ClientSpec == ClientInit /\ [][ClientNext]_clientVars
-----------------------------------------------------------------------------
\* A request that waits, waits for a refresh that is under way: no order of
\* replies, refusals and reloads leaves it in failedQueue for good.
NobodyLeftWaiting ==
    \A t \in Tabs : (\E s \in Slots : req[t][s].pc = "queued") =>
        \E s \in Slots : req[t][s].pc # "idle" /\ req[t][s].post = "refresh"

\* In the one tab there is, a refresh is refused only when the session was ended,
\* a fault took the reply of an earlier one, or a login did not wait for initAuth:
\* otherwise the requests of a tab never spend one refresh token twice
\* (isRefreshing against AuthService.refresh).
AloneNeverRefused ==
    Cardinality(open) = 1 /\ blame = {} =>
        \A t \in Tabs, s \in Slots :
            req[t][s].post \in {"refresh", "initAuth"} /\ req[t][s].pc = "refused" => req[t][s].token = 0

\* Whatever tabs race for the refresh token, the browser keeps a session that
\* the server knows: the loser is refused, but does not lose the winner's cookie.
SessionKept ==
    {"fault", "ended"} \cap blame = {} /\ live # {} =>
        \/ cookie \in live
        \/ \E t \in Tabs, s \in Slots : Answered(t, s, "granted") /\ req[t][s].token \in live

\* The following are not true of the code; the README names the configuration
\* that shows each of them violated.

\* A tab with a session the server knows is not sent to /login.
StaysOnPage ==
    [][\A t \in Tabs, s \in Slots : RefreshFails(t, s) /\ req[t][s].token # 0 => blame # {}]_clientVars

\* Loading the page does not lead to loading it again.
LoadsOnce ==
    [][\A t \in Tabs, s \in Slots : RefreshFails(t, s) => req[t][s].for # "initAuth"]_clientVars

\* Whoever has logged out stays logged out until the next login.
LogoutIsFinal ==
    [][cookie = 0 /\ "ended" \in blame /\ cookie' # 0 =>
          \E t \in Tabs, s \in Slots : Receive(t, s) /\ req[t][s].post = "login"]_clientVars
=============================================================================
