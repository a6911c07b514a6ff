--------------------------- MODULE ProviderClient ---------------------------
(***************************************************************************)
(* The client of the provider's API (NombaClient) and the access token it  *)
(* shares through Redis (NombaAuthService): a request takes the cached     *)
(* token or asks for one and caches it; refused with 401 it deletes the    *)
(* cached token, whoever put it there, and is sent once more.  Every       *)
(* answer takes its time, and requests overlap.                            *)
(***************************************************************************)
EXTENDS Integers, Sequences

CONSTANTS
    Requests,         \* requests running at once, in all servers
    Lifetime,         \* expires_in of the tokens the provider issues
    Margin, MinTtl,   \* of ttlSeconds: a minute less than expires_in, at least one
    MaxClock,         \* bound: how long the system is watched
    MaxTokens         \* bound: tokens ever issued

ASSUME ProviderAssumption ==
    /\ {Lifetime, Margin, MaxClock, MaxTokens} \subseteq Nat
    /\ MinTtl \in Nat \ {0}

VARIABLES
    clock,
    issued,   \* when each access token was issued
    cached,   \* the token in Redis, 0 for none, and when it was SET
    request   \* where each request stands: the try it is in (a refresh is
              \* between the two), its token, since when it has it, and how
              \* long the token had waited to be cached when it was read

clientVars == <<clock, issued, cached, request>>

Tries     == {"first", "refresh", "second"}
NoRequest == [pc |-> "idle", try |-> "first", token |-> 0, since |-> 0, waited |-> 0]

ClientTypeOK ==
    /\ clock \in 0..MaxClock
    /\ issued \in Seq(0..MaxClock) /\ Len(issued) <= MaxTokens
    /\ cached \in [token : 0..MaxTokens, at : 0..MaxClock]
    /\ request \in [Requests -> [pc : {"idle", "get", "authenticate", "set", "fetch", "refused"}, try : Tries,
                              token : 0..MaxTokens, since : 0..MaxClock, waited : 0..MaxClock]]

ClientInit ==
    /\ clock = 0 /\ issued = <<>>
    /\ cached = [token |-> 0, at |-> 0]
    /\ request = [c \in Requests |-> NoRequest]

In(c, step) == request[c].pc = step
Answer(c)   == request' = [request EXCEPT ![c] = NoRequest]
Becomes(c, step, try) == request' = [request EXCEPT ![c] = [NoRequest EXCEPT !.pc = step, !.try = try]]

\* With the token in hand a refresh is over, and its token is not kept: the
\* request looks for one again.
Goes(c, token, since, waited) ==
    IF request[c].try = "refresh" THEN Becomes(c, "get", "second")
    ELSE request' = [request EXCEPT ![c] = [@ EXCEPT !.pc = "fetch", !.token = token, !.since = since, !.waited = waited]]
-----------------------------------------------------------------------------
Send(c) ==
    /\ In(c, "idle")
    /\ Becomes(c, "get", "first")
    /\ UNCHANGED <<clock, issued, cached>>

\* Mutant: the token is cached for all its lifetime.
TtlWithoutMargin == Lifetime

Ttl == IF Lifetime - Margin > MinTtl THEN Lifetime - Margin ELSE MinTtl

IsCached == cached.token # 0 /\ clock < cached.at + Ttl

GetAccessToken(c) ==
    /\ In(c, "get")
    /\ IF IsCached THEN Goes(c, cached.token, clock, cached.at - issued[cached.token])
       ELSE request' = [request EXCEPT ![c].pc = "authenticate"]
    /\ UNCHANGED <<clock, issued, cached>>

\* The provider issues a token; older ones stay valid.
Authenticate(c) ==
    /\ In(c, "authenticate")
    /\ Len(issued) < MaxTokens
    /\ issued' = Append(issued, clock)
    /\ request' = [request EXCEPT ![c] = [@ EXCEPT !.pc = "set", !.token = Len(issued) + 1, !.since = clock]]
    /\ UNCHANGED <<clock, cached>>

\* SET with a time to live that counts from now, over whatever is cached.
CacheToken(c) ==
    /\ In(c, "set")
    /\ cached' = [token |-> request[c].token, at |-> clock]
    /\ Goes(c, request[c].token, request[c].since, 0)
    /\ UNCHANGED <<clock, issued>>

Expired(token) == clock >= issued[token] + Lifetime

\* The request is answered, or met by a timeout or 5xx, after which it is sent
\* once more.
Fetch(c) ==
    /\ In(c, "fetch")
    /\ \/ Expired(request[c].token) /\ request' = [request EXCEPT ![c].pc = "refused"]
       \/ ~Expired(request[c].token) /\ Answer(c)
       \/ request[c].try = "first" /\ Becomes(c, "get", "second")
    /\ UNCHANGED <<clock, issued, cached>>

\* A 401: refreshAccessToken after the first try, an error after the second.
RefreshAccessToken(c) ==
    /\ In(c, "refused")
    /\ IF request[c].try = "first"
       THEN cached' = [cached EXCEPT !.token = 0] /\ Becomes(c, "get", "refresh")
       ELSE Answer(c) /\ UNCHANGED cached
    /\ UNCHANGED <<clock, issued>>

\* A request or Redis command throws, or the server dies.
Fail(c) == ~In(c, "idle") /\ Answer(c) /\ UNCHANGED <<clock, issued, cached>>

TimePasses == clock < MaxClock /\ clock' = clock + 1 /\ UNCHANGED <<issued, cached, request>>

ClientNext ==
    \/ \E c \in Requests :
        \/ Send(c) \/ GetAccessToken(c) \/ Authenticate(c) \/ CacheToken(c)
        \/ Fetch(c) \/ RefreshAccessToken(c) \/ Fail(c)
    \/ TimePasses

ClientSpec == ClientInit /\ [][ClientNext]_clientVars
-----------------------------------------------------------------------------
\* A token is refused only when it was under way for longer than the margin,
\* from the provider to Redis and from Redis to the provider: no order of
\* requests that cache, delete and overwrite tokens keeps one beyond its life
\* (getAccessToken, refreshAccessToken).  For tokens of less than two minutes
\* it is not true: they are cached for a minute.
RefusedOnlyWhenDelayed ==
    \A c \in Requests : In(c, "fetch") /\ Expired(request[c].token) =>
        request[c].waited + (clock - request[c].since) > Margin

\* Not true of the code; the README names the configuration that shows it: a
\* request that was refused and refreshed the token is not refused again.
RefreshHelps == \A c \in Requests : In(c, "refused") => request[c].try = "first"
=============================================================================
