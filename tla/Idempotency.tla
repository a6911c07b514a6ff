---------------------------- MODULE Idempotency ----------------------------
(***************************************************************************)
(* The POSTs with one Idempotency-Key (IdempotencyMiddleware): a request   *)
(* looks for a stored reply in Redis; without one its handler runs, and    *)
(* the reply is stored as it is sent.  Nothing marks the key as taken      *)
(* meanwhile.  Keys do not interfere.                                      *)
(***************************************************************************)
EXTENDS Integers, FiniteSets

CONSTANTS
    Posts,    \* requests with the key handled at once
    MaxRuns   \* bound: executions of the handler

ASSUME IdempotencyAssumption == IsFiniteSet(Posts) /\ MaxRuns \in Nat

VARIABLES
    cached,   \* the execution whose reply is stored, 0 for none
    runs,     \* executions of the handler begun
    lapses,   \* how often the stored reply expired
    faults,   \* Redis commands that failed and executions that ended without a reply
    replied,  \* executions whose reply was sent, by their handler or from Redis
    post      \* where each request stands, and its execution

postVars == <<cached, runs, lapses, faults, replied, post>>

Free == [pc |-> "free", run |-> 0]

PostsTypeOK ==
    /\ runs \in 0..MaxRuns
    /\ cached \in 0..runs
    /\ lapses \in Nat /\ faults \in Nat
    /\ replied \subseteq 1..runs
    /\ post \in [Posts -> [pc : {"free", "handle", "running"}, run : 0..runs]]

PostsInit ==
    /\ cached = 0 /\ runs = 0 /\ lapses = 0 /\ faults = 0
    /\ replied = {}
    /\ post = [p \in Posts |-> Free]

\* Mutant: the reply is looked up under another key than it is stored under.
NeverHit == FALSE

Hit == cached # 0

\* A stored reply is sent again; a failed GET lets the request through.
Lookup(p) ==
    /\ post[p].pc = "free"
    /\ \/ Hit /\ replied' = replied \cup {cached} /\ UNCHANGED <<faults, post>>
       \/ /\ ~Hit
          /\ post' = [post EXCEPT ![p].pc = "handle"]
          /\ UNCHANGED <<faults, replied>>
       \/ /\ post' = [post EXCEPT ![p].pc = "handle"]
          /\ faults' = faults + 1
          /\ UNCHANGED replied
    /\ UNCHANGED <<cached, runs, lapses>>

Handle(p) ==
    /\ post[p].pc = "handle"
    /\ runs < MaxRuns
    /\ runs' = runs + 1
    /\ post' = [post EXCEPT ![p] = [pc |-> "running", run |-> runs + 1]]
    /\ UNCHANGED <<cached, lapses, faults, replied>>

\* reply.send, of any status: SET is issued before the reply goes out, on the
\* connection that later GETs use; its failure is ignored.
Send(p) ==
    /\ post[p].pc = "running"
    /\ replied' = replied \cup {post[p].run}
    /\ \/ cached' = post[p].run /\ UNCHANGED faults
       \/ faults' = faults + 1 /\ UNCHANGED cached
    /\ post' = [post EXCEPT ![p] = Free]
    /\ UNCHANGED <<runs, lapses>>

\* The server dies.
Die(p) ==
    /\ post[p].pc = "running"
    /\ faults' = faults + 1
    /\ post' = [post EXCEPT ![p] = Free]
    /\ UNCHANGED <<cached, runs, lapses, replied>>

\* A day has passed since the reply was stored.
Lapse24h ==
    /\ cached # 0
    /\ cached' = 0 /\ lapses' = lapses + 1
    /\ UNCHANGED <<runs, faults, replied, post>>

PostsNext == Lapse24h \/ \E p \in Posts : Lookup(p) \/ Handle(p) \/ Send(p) \/ Die(p)

PostsSpec == PostsInit /\ [][PostsNext]_postVars
-----------------------------------------------------------------------------
\* The handler of a key runs at most once for each request that was let through
\* before a reply was stored, and once more for every Redis command that failed
\* or execution that died: later requests get the stored reply, whatever the
\* order in which overlapping executions end (handle).
RunsBounded ==
    runs <= Cardinality(Posts) * (lapses + 1) + faults

\* Not true of the code; the README names the configuration that shows it: the
\* handler of a key runs once while nothing fails or expires.
RunsOnce == faults = 0 /\ lapses = 0 => runs <= 1

\* Not true of the code: every request with the key gets the same reply.
SameReply == faults = 0 /\ lapses = 0 => \A j, k \in replied : j = k
=============================================================================
