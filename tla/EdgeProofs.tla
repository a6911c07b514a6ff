----------------------------- MODULE EdgeProofs -----------------------------
(***************************************************************************)
(* Proofs about WebhookIntake, for any number of deliveries at once, any   *)
(* events and window; about Idempotency, for any finite number of requests *)
(* at once; about ApiClient, for any number of tabs and requests; and      *)
(* about Deliveries, for any number of workers and notifications.          *)
(***************************************************************************)
EXTENDS WebhookIntake, Idempotency, ApiClient, Deliveries, TLAPS, FiniteSetTheorems, SequenceTheorems

(* Idempotency                                                             *)

OpenPosts == {p \in Posts : post[p].pc # "free"}
Handling  == {p \in Posts : post[p].pc = "handle"}

Paid == Cardinality(Posts) * lapses + faults

\* Executions, with those about to begin, are paid for by the faults, by a round
\* of all requests for every reply that lapsed, and by the requests that are let
\* through now; those cannot be let through again before a reply is stored.
RunsPaidFor ==
    runs + Cardinality(Handling) <=
        Paid + (IF cached = 0 THEN Cardinality(OpenPosts) ELSE Cardinality(Posts))

RunsNamed == \A p \in Posts : post[p].pc = "running" => post[p].run # 0

PostsInv == PostsTypeOK /\ RunsNamed /\ RunsPaidFor

\* How many requests are open and about to execute.
LEMMA Counts ==
    ASSUME PostsTypeOK
    PROVE  /\ IsFiniteSet(OpenPosts) /\ IsFiniteSet(Handling)
           /\ Cardinality(Posts) \in Nat /\ Cardinality(OpenPosts) \in Nat /\ Cardinality(Handling) \in Nat
           /\ Cardinality(OpenPosts) <= Cardinality(Posts)
<1>1. OpenPosts \subseteq Posts /\ Handling \subseteq Posts /\ IsFiniteSet(Posts)
  BY IdempotencyAssumption DEF OpenPosts, Handling
<1> QED BY <1>1, FS_Subset, FS_CardinalityType

LEMMA TakenOut ==
    ASSUME NEW S, IsFiniteSet(S), NEW x \in S
    PROVE  Cardinality(S \ {x}) = Cardinality(S) - 1
BY FS_RemoveElement

LEMMA PutIn ==
    ASSUME NEW S, IsFiniteSet(S), NEW x, x \notin S
    PROVE  Cardinality(S \cup {x}) = Cardinality(S) + 1
BY FS_AddElement

\* Whatever a request, the clock or a fault does, executions stay paid for.
LEMMA PostsStep == PostsInv /\ [PostsNext]_postVars => PostsInv'
<1> SUFFICES ASSUME PostsInv, [PostsNext]_postVars PROVE PostsInv'
  OBVIOUS
<1> USE IdempotencyAssumption DEF PostsInv
<1>t. /\ runs \in Nat /\ cached \in Nat /\ Paid \in Nat
      /\ Cardinality(Posts) \in Nat /\ Cardinality(OpenPosts) \in Nat /\ Cardinality(Handling) \in Nat
      /\ Cardinality(OpenPosts) <= Cardinality(Posts)
  BY Counts DEF PostsTypeOK, Paid
<1>p. lapses' = lapses => Paid' = Paid + (faults' - faults)
  <2>1. \A m, f, g \in Int : m + g = m + f + (g - f)
    OBVIOUS
  <2>2. [PostsNext]_postVars => faults' \in {faults, faults + 1}
    BY DEF PostsNext, Lapse24h, Lookup, Handle, Send, Die, postVars
  <2>3. Cardinality(Posts) * lapses \in Int /\ faults \in Int /\ faults' \in Int
    BY <1>t, <2>2 DEF PostsTypeOK
  <2> QED BY <2>1, <2>3 DEF Paid
<1>1. CASE UNCHANGED postVars
  <2>1. UNCHANGED <<cached, runs, lapses, faults, replied, post>>
    BY <1>1 DEF postVars
  <2>2. OpenPosts' = OpenPosts /\ Handling' = Handling /\ Paid' = Paid
    BY <2>1 DEF OpenPosts, Handling, Paid
  <2> QED BY <2>1, <2>2 DEF PostsTypeOK, RunsNamed, RunsPaidFor
<1>2. CASE Lapse24h
  <2>1. PostsTypeOK' /\ RunsNamed'
    BY <1>2 DEF Lapse24h, PostsTypeOK, RunsNamed
  <2>2. OpenPosts' = OpenPosts /\ Handling' = Handling
    BY <1>2 DEF Lapse24h, OpenPosts, Handling
  <2>3. Paid' = Paid + Cardinality(Posts)
    <3>1. \A n, l, f \in Nat : n * (l + 1) + f = n * l + f + n
      OBVIOUS
    <3> QED BY <1>2, <1>t, <3>1 DEF Lapse24h, Paid, PostsTypeOK
  <2>4. runs' = runs /\ cached' = 0 /\ cached # 0
    BY <1>2 DEF Lapse24h
  <2>5. RunsPaidFor'
    BY <1>t, <2>2, <2>3, <2>4 DEF RunsPaidFor
  <2> QED BY <2>1, <2>5
<1>3. ASSUME NEW p \in Posts, Lookup(p)
      PROVE  PostsInv'
  <2>1. PostsTypeOK' /\ RunsNamed'
    BY <1>3 DEF Lookup, Hit, PostsTypeOK, RunsNamed
  <2>2. runs' = runs /\ lapses' = lapses /\ cached' = cached
    BY <1>3 DEF Lookup
  <2>3. CASE post' = post /\ faults' = faults
    <3>1. OpenPosts' = OpenPosts /\ Handling' = Handling /\ Paid' = Paid
      BY <2>2, <2>3 DEF OpenPosts, Handling, Paid
    <3> QED BY <2>1, <2>2, <3>1 DEF RunsPaidFor
  <2>4. CASE post' = [post EXCEPT ![p].pc = "handle"] /\ (faults' = faults + 1 \/ (faults' = faults /\ cached = 0))
    <3>1. OpenPosts' = OpenPosts \cup {p} /\ Handling' = Handling \cup {p} /\ p \notin OpenPosts /\ p \notin Handling
      BY <1>3, <2>4 DEF OpenPosts, Handling, Lookup, PostsTypeOK
    <3>2. Cardinality(OpenPosts)' = Cardinality(OpenPosts) + 1 /\ Cardinality(Handling)' = Cardinality(Handling) + 1
      BY <3>1, Counts, PutIn
    <3>3. Paid' = Paid + 1 \/ (Paid' = Paid /\ cached = 0)
      BY <1>p, <1>t, <2>2, <2>4 DEF PostsTypeOK
    <3>4. RunsPaidFor'
      BY <1>t, <2>2, <3>2, <3>3 DEF RunsPaidFor
    <3> QED BY <2>1, <3>4
  <2> QED BY <1>3, <2>3, <2>4 DEF Lookup, Hit
<1>4. ASSUME NEW p \in Posts, Handle(p)
      PROVE  PostsInv'
  <2>1. PostsTypeOK' /\ RunsNamed'
    BY <1>4 DEF Handle, PostsTypeOK, RunsNamed
  <2>2. OpenPosts' = OpenPosts /\ Handling' = Handling \ {p} /\ p \in Handling
    BY <1>4 DEF OpenPosts, Handling, Handle, PostsTypeOK
  <2>3. Cardinality(Handling)' = Cardinality(Handling) - 1
    BY <2>2, Counts, TakenOut
  <2>4. runs' = runs + 1 /\ cached' = cached /\ Paid' = Paid
    BY <1>4 DEF Handle, Paid
  <2>5. RunsPaidFor'
    BY <1>t, <2>2, <2>3, <2>4 DEF RunsPaidFor
  <2> QED BY <2>1, <2>5
<1>5. ASSUME NEW p \in Posts, Send(p) \/ Die(p)
      PROVE  PostsInv'
  <2>0. post[p].run \in 1..runs
    BY <1>5 DEF Send, Die, PostsTypeOK, RunsNamed
  <2>1. PostsTypeOK' /\ RunsNamed'
    <3>1. /\ runs' = runs /\ cached' \in 0..runs /\ replied' \subseteq 1..runs
          /\ lapses' \in Nat /\ faults' \in Nat
      <4>1. /\ runs \in Nat /\ cached \in 0..runs /\ replied \subseteq 1..runs
            /\ lapses \in Nat /\ faults \in Nat
        BY DEF PostsTypeOK
      <4>2. CASE Send(p)
        <5>1. replied' = replied \cup {post[p].run} /\ runs' = runs /\ lapses' = lapses
              /\ (cached' = post[p].run \/ cached' = cached) /\ (faults' = faults \/ faults' = faults + 1)
          BY <4>2 DEF Send
        <5>2. post[p].run \in 0..runs
          BY <2>0
        <5>3. replied' \subseteq 1..runs
          BY <2>0, <4>1, <5>1
        <5>4. lapses' \in Nat /\ faults' \in Nat
          BY <4>1, <5>1
        <5>5. cached' \in 0..runs
          BY <4>1, <5>1, <5>2
        <5> QED BY <5>1, <5>3, <5>4, <5>5
      <4>3. CASE Die(p)
        BY <4>1, <4>3 DEF Die
      <4> QED BY <1>5, <4>2, <4>3
    <3>2. Free \in [pc : {"free", "handle", "running"}, run : 0..runs] /\ Free.pc = "free"
      BY <1>t DEF Free
    <3>3. post' = [post EXCEPT ![p] = Free]
      BY <1>5 DEF Send, Die
    <3>4. post' \in [Posts -> [pc : {"free", "handle", "running"}, run : 0..runs]] /\ RunsNamed'
      BY <3>2, <3>3 DEF PostsTypeOK, RunsNamed
    <3> QED BY <3>1, <3>4 DEF PostsTypeOK
  <2>2. OpenPosts' = OpenPosts \ {p} /\ Handling' = Handling /\ p \in OpenPosts
    BY <1>5 DEF OpenPosts, Handling, Send, Die, PostsTypeOK, Free
  <2>3. Cardinality(OpenPosts)' = Cardinality(OpenPosts) - 1
    BY <2>2, Counts, TakenOut
  <2>4. /\ runs' = runs /\ lapses' = lapses
        /\ (faults' = faults + 1 /\ cached' = cached) \/ (faults' = faults /\ cached' # 0)
    BY <1>5, <2>0 DEF Send, Die
  <2>5. (Paid' = Paid + 1 /\ cached' = cached) \/ (Paid' = Paid /\ cached' # 0)
    BY <1>p, <1>t, <2>4 DEF PostsTypeOK
  <2>6. RunsPaidFor'
    BY <1>t, <2>2, <2>3, <2>4, <2>5 DEF RunsPaidFor
  <2> QED BY <2>1, <2>6
<1> QED BY <1>1, <1>2, <1>3, <1>4, <1>5 DEF PostsNext

\* The handler of a key runs at most once for each request that can be in the
\* server at once, again for each of them when the stored reply lapses, and once
\* more per fault, however executions overlap and end.
THEOREM ExecutionsBounded == PostsSpec => []RunsBounded
<1>1. PostsInit => PostsInv
  <2> SUFFICES ASSUME PostsInit PROVE PostsInv
    OBVIOUS
  <2>1. PostsTypeOK /\ RunsNamed
    <3>1. Free \in [pc : {"free", "handle", "running"}, run : 0..0] /\ Free.pc = "free"
      BY DEF Free
    <3> QED BY <3>1, IdempotencyAssumption DEF PostsInit, PostsTypeOK, RunsNamed
  <2>2. OpenPosts = {} /\ Handling = {}
    BY DEF PostsInit, OpenPosts, Handling, Free
  <2>3. Cardinality(OpenPosts) = 0 /\ Cardinality(Handling) = 0
    BY <2>2, FS_EmptySet
  <2>4. Cardinality(Posts) \in Nat
    BY <2>1, Counts
  <2> QED BY <2>1, <2>3, <2>4 DEF PostsInit, PostsInv, RunsPaidFor, Paid
<1>2. PostsInv => RunsBounded
  <2> SUFFICES ASSUME PostsInv PROVE RunsBounded
    OBVIOUS
  <2>1. \A n, l, f \in Nat : n * (l + 1) + f = n * l + f + n
    OBVIOUS
  <2>2. /\ runs \in Nat /\ lapses \in Nat /\ faults \in Nat /\ Cardinality(Handling) \in Nat
        /\ Cardinality(Posts) \in Nat /\ Cardinality(OpenPosts) \in Nat /\ Cardinality(OpenPosts) <= Cardinality(Posts)
        /\ Paid \in Nat
    BY Counts DEF PostsInv, PostsTypeOK, Paid
  <2>3. runs <= Paid + Cardinality(Posts)
    BY <2>2 DEF PostsInv, RunsPaidFor
  <2>4. Cardinality(Posts) * (lapses + 1) + faults = Paid + Cardinality(Posts)
    BY <2>1, <2>2 DEF Paid
  <2> QED BY <2>3, <2>4 DEF RunsBounded
<1> QED BY <1>1, <1>2, PostsStep, PTL DEF PostsSpec
-----------------------------------------------------------------------------
(* WebhookIntake                                                           *)

CallRecords == [pc : Steps, about : Message, before : SUBSET (1..MaxRows), time : Times, row : 0..MaxRows]
Busy(c) == call[c].pc # "idle"

\* The event, or one it may be taken for, is in the table.
Known(e) == \E f \in Bearers(e) \cup Likes(e) : Stored(f)

Acknowledged == \A e \in received : Known(e)

OneRowEach ==
    \A i, j \in DOMAIN rows : rows[j].event \in Bearers(rows[i].event) => i = j

\* What a row remembers of the rows before it is still there.
RowsRemember == \A j \in DOMAIN rows : rows[j].before \subseteq DOMAIN rows

\* What a call knows: the rows of its message when it began, that the message
\* was fresh then, and once it has looked for the signature, that those rows
\* were stored before the message's own stamp and the time it took; at last,
\* the row it stored.
CallKnows(c) ==
    /\ call[c].before \subseteq RowsOf(call[c].about)
    /\ call[c].pc \in {"id", "signature"} =>
          /\ call[c].time <= clock
          /\ call[c].before # {} => call[c].time - call[c].about.stamp <= Window
    /\ call[c].pc \in {"duplicate", "create"} =>
          \A i \in call[c].before : rows[i].createdAt < rows[i].stamp + call[c].time
    /\ call[c].pc = "queue" =>
          call[c].row \in DOMAIN rows /\ rows[call[c].row].event = call[c].about.event

IntakeInv ==
    /\ TypeOK
    /\ Acknowledged
    /\ OneRowEach
    /\ RowsRemember
    /\ \A c \in Calls : Busy(c) => CallKnows(c)
    /\ StoredAgainOnlyAhead

\* Sharing an id goes both ways; an event is itself known when it is stored.
LEMMA Sharing ==
    /\ \A e, f \in Events : f \in Bearers(e) => e \in Bearers(f)
    /\ \A e \in Events : e \in Likes(e) /\ (Stored(e) => Known(e)) /\ (IdStored(e) => Known(e))
BY DEF Bearers, Likes, Known, IdStored

LEMMA BusyRequest ==
    ASSUME TypeOK, NEW c \in Calls, Busy(c)
    PROVE  call[c] \in CallRecords
BY DEF TypeOK, Busy, Idle, CallRecords

LEMMA RowFacts ==
    ASSUME TypeOK
    PROVE  /\ rows \in Seq(Row) /\ DOMAIN rows = 1..Len(rows) /\ Len(rows) \in Nat
           /\ DOMAIN rows \subseteq 1..MaxRows
           /\ \A i \in DOMAIN rows : rows[i] \in Row
<1>1. rows \in Seq(Row) /\ Len(rows) <= MaxRows /\ MaxRows \in Nat
  BY WebhookIntakeAssumption DEF TypeOK
<1>2. DOMAIN rows = 1..Len(rows) /\ Len(rows) \in Nat
  BY <1>1, LenProperties
<1>3. \A i \in DOMAIN rows : rows[i] \in Row
  BY <1>1, <1>2, ElementOfSeq
<1> QED BY <1>1, <1>2, <1>3

\* Steps that store nothing, of one call: it ends, goes on, or begins.
LEMMA CallStep ==
    ASSUME IntakeInv, NEW c \in Calls,
           rows' = rows, clock' = clock, queued' \subseteq DOMAIN rows,
           NEW next \in {Idle} \cup CallRecords, call' = [call EXCEPT ![c] = next],
           next = Idle \/ CallKnows(c)',
           \/ received' = received
           \/ \E e \in Events : Known(e) /\ received' = received \cup {e}
    PROVE  IntakeInv'
<1>1. TypeOK'
  BY DEF IntakeInv, TypeOK, CallRecords
<1>2. Acknowledged' /\ OneRowEach' /\ RowsRemember' /\ StoredAgainOnlyAhead'
  BY DEF IntakeInv, Acknowledged, Known, Stored, OneRowEach, RowsRemember, StoredAgainOnlyAhead
<1>3. ASSUME NEW d \in Calls, Busy(d)'
      PROVE  CallKnows(d)'
  <2>1. CASE d # c
    <3>1. call'[d] = call[d]
      BY <2>1 DEF IntakeInv, TypeOK
    <3>2. CallKnows(d)
      BY <1>3, <3>1 DEF IntakeInv, Busy
    <3> QED BY <3>1, <3>2 DEF CallKnows, RowsOf, Stored
  <2>2. CASE d = c
    <3>1. call'[c] = next
      BY DEF IntakeInv, TypeOK
    <3> QED BY <1>3, <2>2, <3>1 DEF Busy, Idle
  <2> QED BY <2>1, <2>2
<1> QED BY <1>1, <1>2, <1>3 DEF IntakeInv

LEMMA AcknowledgeStep ==
    ASSUME IntakeInv, NEW c \in Calls, Busy(c), Known(call[c].about.event), Acknowledge(c),
           rows' = rows, clock' = clock, queued' \subseteq DOMAIN rows
    PROVE  IntakeInv'
<1>1. call[c].about.event \in Events
  BY BusyRequest DEF IntakeInv, CallRecords, Message
<1>2. call' = [call EXCEPT ![c] = Idle] /\ received' = received \cup {call[c].about.event}
  BY DEF Acknowledge, End
<1> QED BY <1>1, <1>2, CallStep

LEMMA DeliverStep ==
    ASSUME IntakeInv, NEW c \in Calls, NEW e \in Events, NEW stamp \in Times, Deliver(c, e, stamp)
    PROVE  IntakeInv'
<1>t. TypeOK
  BY DEF IntakeInv
<1> DEFINE m == [event |-> e, stamp |-> stamp]
           next == [pc |-> "id", about |-> m, before |-> RowsOf(m),
                    time |-> IF RowsOf(m) = {} THEN 0 ELSE clock, row |-> 0]
<1>1. call' = [call EXCEPT ![c] = next] /\ rows' = rows /\ clock' = clock
      /\ queued' = queued /\ received' = received /\ clock - stamp <= Window
  BY DEF Deliver, Fresh
<1>2. RowsOf(m) \subseteq 1..MaxRows
  BY <1>t, RowFacts DEF RowsOf
<1>3. next \in CallRecords
  <2>1. (IF RowsOf(m) = {} THEN 0 ELSE clock) \in Times /\ 0 \in 0..MaxRows
    BY <1>t, WebhookIntakeAssumption DEF TypeOK, Times
  <2> QED BY <1>t, <1>2, <2>1 DEF CallRecords, Steps, Message, TypeOK
<1>4. call'[c] = next /\ queued \subseteq DOMAIN rows /\ clock \in Times
  BY <1>1, <1>t DEF TypeOK
<1>5. CallKnows(c)'
  <2>1. RowsOf(m)' = RowsOf(m)
    BY <1>1 DEF RowsOf
  <2>2. clock <= clock /\ 0 <= clock
    BY <1>4, WebhookIntakeAssumption DEF Times
  <2> HIDE DEF m
  <2> QED BY <1>1, <1>4, <2>1, <2>2 DEF CallKnows, RowsOf, m
<1> HIDE DEF next
<1> QED BY <1>1, <1>3, <1>4, <1>5, CallStep

LEMMA LookStep ==
    ASSUME IntakeInv, NEW c \in Calls,
           FindByEventId(c) \/ FindRecentBySignature(c) \/ IsDuplicate(c)
    PROVE  IntakeInv'
<1>t. TypeOK
  BY DEF IntakeInv
<1>b. Busy(c)
  BY DEF FindByEventId, FindRecentBySignature, IsDuplicate, At, Busy
<1>u. rows' = rows /\ clock' = clock /\ queued' = queued /\ queued' \subseteq DOMAIN rows
  BY <1>t DEF FindByEventId, FindRecentBySignature, IsDuplicate, TypeOK
<1>r. call[c] \in CallRecords
  BY <1>t, <1>b, BusyRequest
<1>k. CallKnows(c)
  BY <1>b DEF IntakeInv
<1>1. CASE Acknowledge(c)
  <2>1. CASE ~ (At(c, "signature") /\ \E i \in SameSignature(call[c].about) : Recent(i))
    <3>1. call'[c] = Idle
      BY <1>1, <1>t DEF Acknowledge, End, TypeOK
    <3>2. IdStored(call[c].about.event) \/ \E f \in Likes(call[c].about.event) : Stored(f)
      BY <2>1, <3>1, <1>1, <1>t DEF FindByEventId, FindRecentBySignature, IsDuplicate, Go, At, Idle, TypeOK
    <3>3. Known(call[c].about.event)
      BY <3>2 DEF Known, IdStored
    <3> QED BY <1>1, <1>b, <1>u, <3>3, AcknowledgeStep
  <2>2. CASE At(c, "signature") /\ \E i \in SameSignature(call[c].about) : Recent(i)
    <3>1. Stored(call[c].about.event)
      BY <2>2 DEF SameSignature, RowsOf, Stored
    <3>2. Known(call[c].about.event)
      BY <1>r, <3>1, Sharing DEF CallRecords, Message
    <3> QED BY <1>1, <1>b, <1>u, <3>2, AcknowledgeStep
  <2> QED BY <2>1, <2>2
<1>2. CASE FindByEventId(c) /\ ~Acknowledge(c)
  <2> DEFINE next == [call[c] EXCEPT !.pc = "signature"]
  <2>1. call' = [call EXCEPT ![c] = next] /\ received' = received /\ call[c].pc = "id"
    BY <1>2 DEF FindByEventId, Go, At
  <2>2. next \in CallRecords /\ next.pc = "signature" /\ next.about = call[c].about
        /\ next.before = call[c].before /\ next.time = call[c].time
    BY <1>r DEF CallRecords, Steps
  <2>3. call'[c] = next
    BY <2>1, <1>t DEF TypeOK
  <2> HIDE DEF next
  <2>4. CallKnows(c)'
    BY <1>k, <1>u, <2>1, <2>2, <2>3 DEF CallKnows, RowsOf, Stored
  <2> QED BY <1>u, <2>1, <2>2, <2>4, CallStep
<1>3. CASE FindRecentBySignature(c) /\ ~Acknowledge(c)
  <2> DEFINE next == [call[c] EXCEPT !.pc = "duplicate", !.time = IF call[c].before = {} THEN 0 ELSE clock - call[c].time]
  <2>1. call' = [call EXCEPT ![c] = next] /\ received' = received /\ call[c].pc = "signature"
        /\ \A i \in RowsOf(call[c].about) : ~Recent(i)
    BY <1>3 DEF FindRecentBySignature, At, SameSignature
  <2>2. call[c].time \in 0..clock /\ clock \in Times /\ Times \subseteq Int
        /\ call[c].about.stamp \in Times /\ Window \in Int
        /\ (call[c].before # {} => call[c].time - call[c].about.stamp <= Window)
    BY <1>t, <1>r, <1>k, <2>1, WebhookIntakeAssumption DEF TypeOK, CallKnows, Times, CallRecords, Message
  <2>3. clock - call[c].time \in Times /\ 0 \in Times
    BY <2>2, WebhookIntakeAssumption DEF Times
  <2>4. next \in CallRecords /\ next.pc = "duplicate" /\ next.about = call[c].about
        /\ next.before = call[c].before
        /\ next.time = IF call[c].before = {} THEN 0 ELSE clock - call[c].time
    BY <1>r, <2>3 DEF CallRecords, Steps
  <2>5. call'[c] = next
    BY <2>1, <1>t DEF TypeOK
  <2> HIDE DEF next
  <2>6. ASSUME NEW i \in call[c].before
        PROVE  rows[i].createdAt < rows[i].stamp + next.time
    <3>1. i \in RowsOf(call[c].about) /\ next.time = clock - call[c].time
      BY <1>k, <2>4, <2>6 DEF CallKnows
    <3>2. rows[i] \in Row /\ rows[i].stamp = call[c].about.stamp
      BY <1>t, <3>1, RowFacts DEF RowsOf
    <3>3. ~ (rows[i].createdAt >= clock - Window) /\ rows[i].createdAt \in Times
      BY <2>1, <3>1, <3>2 DEF Recent, Row
    <3>4. \A a, s, t, k, w \in Int : a < k - w /\ t - s <= w => a < s + (k - t)
      OBVIOUS
    <3>5. /\ rows[i].createdAt \in Int /\ call[c].about.stamp \in Int /\ call[c].time \in Int
          /\ clock \in Int /\ Window \in Int
      <4>1. call[c].time \in 0..clock /\ clock \in Int
        BY <2>2
      <4>2. \A k \in Int : \A t \in 0..k : t \in Int
        OBVIOUS
      <4>3. rows[i].createdAt \in Int /\ call[c].about.stamp \in Int
        BY <2>2, <3>3
      <4> QED BY <2>2, <4>1, <4>2, <4>3
    <3>6. rows[i].createdAt < clock - Window
      BY <3>3, <3>5
    <3>7. rows[i].createdAt < call[c].about.stamp + (clock - call[c].time)
      BY <2>2, <2>6, <3>4, <3>5, <3>6
    <3> QED BY <3>1, <3>2, <3>7
  <2>7. CallKnows(c)'
    BY <1>k, <1>u, <2>4, <2>5, <2>6 DEF CallKnows, RowsOf, Stored
  <2> QED BY <1>u, <2>1, <2>4, <2>7, CallStep
<1>4. CASE IsDuplicate(c) /\ ~Acknowledge(c)
  <2> DEFINE next == [call[c] EXCEPT !.pc = "create"]
  <2>1. call' = [call EXCEPT ![c] = next] /\ received' = received /\ call[c].pc = "duplicate"
    BY <1>4 DEF IsDuplicate, Go, At
  <2>2. next \in CallRecords /\ next.pc = "create" /\ next.about = call[c].about
        /\ next.before = call[c].before /\ next.time = call[c].time
    BY <1>r DEF CallRecords, Steps
  <2>3. call'[c] = next
    BY <2>1, <1>t DEF TypeOK
  <2> HIDE DEF next
  <2>4. CallKnows(c)'
    BY <1>k, <1>u, <2>1, <2>2, <2>3 DEF CallKnows, RowsOf, Stored
  <2> QED BY <1>u, <2>1, <2>2, <2>4, CallStep
<1> QED BY <1>1, <1>2, <1>3, <1>4

\* Only a row whose event has no id, or an id not stored yet, is added.
LEMMA CreateStep ==
    ASSUME IntakeInv, NEW c \in Calls, CreateEvent(c)
    PROVE  IntakeInv'
<1>t. TypeOK
  BY DEF IntakeInv
<1>b. Busy(c) /\ call[c].pc = "create"
  BY DEF CreateEvent, At, Busy
<1>r. call[c] \in CallRecords /\ CallKnows(c)
  BY <1>t, <1>b, BusyRequest DEF IntakeInv
<1>u. clock' = clock /\ queued' = queued /\ queued' \subseteq DOMAIN rows
  BY <1>t DEF CreateEvent, TypeOK
<1>1. CASE IdStored(call[c].about.event)
  <2>1. Known(call[c].about.event)
    BY <1>1, <1>r, Sharing DEF CallRecords, Message
  <2> QED BY <1>1, <1>b, <1>u, <2>1, AcknowledgeStep DEF CreateEvent
<1>2. CASE ~ IdStored(call[c].about.event)
  <2> DEFINE n == Len(rows) + 1
             row == [event |-> call[c].about.event, stamp |-> call[c].about.stamp,
                     before |-> call[c].before, took |-> call[c].time, createdAt |-> clock]
             next == [call[c] EXCEPT !.pc = "queue", !.row = n, !.time = 0, !.before = {}]
  <2>1. /\ Len(rows) < MaxRows /\ rows' = Append(rows, row) /\ received' = received
        /\ call' = [call EXCEPT ![c] = next]
    BY <1>2 DEF CreateEvent
  <2>2. row \in Row
    BY <1>t, <1>r DEF Row, CallRecords, Message, TypeOK
  <2>3. /\ rows \in Seq(Row) /\ Len(rows) \in Nat /\ DOMAIN rows = 1..Len(rows) /\ n \in 0..MaxRows
        /\ rows' \in Seq(Row) /\ Len(rows') = n /\ DOMAIN rows' = 1..n
        /\ rows'[n] = row /\ \A i \in DOMAIN rows : rows'[i] = rows[i]
    BY <1>t, <2>1, <2>2, RowFacts, AppendProperties, LenProperties, WebhookIntakeAssumption
  <2>4. next \in CallRecords /\ next.pc = "queue" /\ next.about = call[c].about /\ next.before = {} /\ next.row = n
    <3>1. 0 \in Times /\ "queue" \in Steps /\ {} \in SUBSET (1..MaxRows)
      BY WebhookIntakeAssumption DEF Times, Steps
    <3>2. n \in 0..MaxRows
      BY <2>3
    <3> HIDE DEF n
    <3> QED BY <1>r, <3>1, <3>2 DEF CallRecords
  <2>5. call'[c] = next /\ \A d \in Calls : d # c => call'[d] = call[d]
    BY <2>1, <1>t DEF TypeOK
  <2>6. /\ \A i \in DOMAIN rows' : i \in DOMAIN rows \/ i = n
        /\ DOMAIN rows \subseteq DOMAIN rows' /\ n \in DOMAIN rows' /\ n \notin DOMAIN rows
    BY <2>3
  <2> HIDE DEF n, next
  <2>7. TypeOK'
    <3>1. call' \in [Calls -> {Idle} \cup CallRecords]
      BY <2>1, <2>4, <1>t DEF TypeOK, CallRecords
    <3>2. Len(rows') <= MaxRows
      BY <2>3, WebhookIntakeAssumption
    <3> QED BY <1>t, <1>u, <2>1, <2>3, <2>6, <3>1, <3>2 DEF TypeOK, CallRecords
  <2>8. \A e \in Events : Stored(e) => Stored(e)'
    BY <2>3, <2>6 DEF Stored
  <2>9. Acknowledged'
    <3>1. \A e \in Events : Known(e) => Known(e)'
      BY <2>8 DEF Known, Bearers, Likes
    <3> QED BY <1>t, <2>1, <3>1 DEF IntakeInv, Acknowledged, TypeOK
  <2>10. OneRowEach'
    <3>1. ASSUME NEW i \in DOMAIN rows
          PROVE  rows[i].event \notin Bearers(row.event) /\ row.event \notin Bearers(rows[i].event)
      <4>1. rows[i].event \in Events /\ row.event \in Events
        BY <1>t, <2>2, RowFacts DEF Row
      <4>2. rows[i].event \notin Bearers(row.event)
        BY <1>2 DEF IdStored, Stored
      <4> QED BY <4>1, <4>2, Sharing
    <3> HIDE DEF row
    <3> QED BY <2>3, <2>6, <3>1 DEF IntakeInv, OneRowEach
  <2>11. call[c].before \subseteq DOMAIN rows
    BY <1>r DEF CallKnows, RowsOf
  <2>12. RowsRemember'
    BY <2>3, <2>6, <2>11 DEF IntakeInv, RowsRemember
  <2>13. StoredAgainOnlyAhead'
    <3> SUFFICES ASSUME NEW j \in DOMAIN rows', NEW i \in rows'[j].before
                 PROVE  rows'[i].createdAt < rows'[i].stamp + rows'[j].took
      BY DEF StoredAgainOnlyAhead
    <3>1. CASE j \in DOMAIN rows
      BY <3>1, <2>3 DEF IntakeInv, RowsRemember, StoredAgainOnlyAhead
    <3>2. CASE j = n
      <4>1. i \in call[c].before /\ i \in DOMAIN rows /\ rows'[j].took = call[c].time
        BY <3>2, <2>3, <2>11
      <4>2. rows[i].createdAt < rows[i].stamp + call[c].time
        BY <1>b, <1>r, <4>1 DEF CallKnows
      <4> QED BY <2>3, <4>1, <4>2
    <3> QED BY <2>6, <3>1, <3>2
  <2>14. ASSUME NEW d \in Calls, Busy(d)'
         PROVE  CallKnows(d)'
    <3>1. CASE d = c
      <4>1. n \in DOMAIN rows' /\ rows'[n].event = call[c].about.event
        BY <2>3, <2>6
      <4> QED BY <3>1, <2>4, <2>5, <4>1 DEF CallKnows
    <3>2. CASE d # c
      <4>1. call'[d] = call[d] /\ CallKnows(d) /\ call[d] \in CallRecords
        BY <1>t, <2>14, <3>2, <2>5, BusyRequest DEF IntakeInv, Busy
      <4>2. RowsOf(call[d].about) \subseteq RowsOf(call[d].about)' /\ RowsOf(call[d].about) \subseteq DOMAIN rows
        BY <4>1, <2>3, <2>6 DEF RowsOf
      <4>3. call[d].about.event \in Events
        BY <4>1 DEF CallRecords, Message
      <4>4. /\ \A i \in call[d].before : rows'[i] = rows[i]
            /\ call[d].pc = "queue" => rows'[call[d].row] = rows[call[d].row] /\ call[d].row \in DOMAIN rows'
        BY <4>1, <4>2, <2>3, <2>6 DEF CallKnows
      <4> QED BY <4>1, <4>2, <4>3, <4>4, <2>8, <1>u DEF CallKnows
    <3> QED BY <3>1, <3>2
  <2> QED BY <2>7, <2>9, <2>10, <2>12, <2>13, <2>14 DEF IntakeInv
<1> QED BY <1>1, <1>2

LEMMA EndStep ==
    ASSUME IntakeInv, NEW c \in Calls, AddJob(c) \/ Interrupt(c)
    PROVE  IntakeInv'
<1>t. TypeOK
  BY DEF IntakeInv
<1>1. CASE Interrupt(c)
  <2>1. call' = [call EXCEPT ![c] = Idle] /\ rows' = rows /\ clock' = clock
        /\ queued' \subseteq DOMAIN rows /\ received' = received
    BY <1>1, <1>t DEF Interrupt, End, TypeOK
  <2> QED BY <2>1, CallStep
<1>2. CASE AddJob(c)
  <2>1. Busy(c) /\ call[c].pc = "queue" /\ rows' = rows /\ clock' = clock /\ Acknowledge(c)
    BY <1>2 DEF AddJob, At, Busy
  <2>2. Known(call[c].about.event)
    <3>1. Stored(call[c].about.event) /\ call[c] \in CallRecords
      BY <2>1, <1>t, BusyRequest DEF IntakeInv, CallKnows, Stored
    <3> QED BY <3>1, Sharing DEF CallRecords, Message
  <2>3. queued' \subseteq DOMAIN rows
    BY <1>2, <1>t, <2>1 DEF AddJob, IntakeInv, CallKnows, TypeOK
  <2> QED BY <2>1, <2>2, <2>3, AcknowledgeStep
<1> QED BY <1>1, <1>2

LEMMA TickStep ==
    ASSUME IntakeInv, Tick
    PROVE  IntakeInv'
<1>t. TypeOK
  BY DEF IntakeInv
<1>1. /\ clock' = clock + 1 /\ clock \in Times /\ clock' \in Times /\ Times \subseteq Int
      /\ UNCHANGED <<rows, queued, call, received>>
  BY <1>t, WebhookIntakeAssumption DEF Tick, Times, TypeOK
<1>2. TypeOK' /\ Acknowledged' /\ OneRowEach' /\ RowsRemember' /\ StoredAgainOnlyAhead'
  BY <1>1 DEF IntakeInv, TypeOK, Acknowledged, Known, Stored, OneRowEach, RowsRemember, StoredAgainOnlyAhead
<1>3. ASSUME NEW c \in Calls, Busy(c)'
      PROVE  CallKnows(c)'
  <2>1. CallKnows(c) /\ call[c] \in CallRecords
    BY <1>1, <1>3, <1>t, BusyRequest DEF IntakeInv, Busy
  <2>2. call[c].time <= clock => call[c].time <= clock'
    <3>1. call[c].time \in Int /\ clock \in Int
      BY <1>1, <2>1 DEF CallRecords
    <3> QED BY <1>1, <3>1
  <2> QED BY <1>1, <2>1, <2>2 DEF CallKnows, RowsOf, Stored
<1> QED BY <1>2, <1>3 DEF IntakeInv

\* Every step of a delivery keeps what the calls know true.
LEMMA IntakeStep == IntakeInv /\ [Next]_vars => IntakeInv'
<1> SUFFICES ASSUME IntakeInv, [Next]_vars PROVE IntakeInv'
  OBVIOUS
<1>1. ASSUME NEW c \in Calls, NEW e \in Events, NEW stamp \in Times, Deliver(c, e, stamp)
      PROVE  IntakeInv'
  BY <1>1, DeliverStep
<1>2. ASSUME NEW c \in Calls, FindByEventId(c) \/ FindRecentBySignature(c) \/ IsDuplicate(c)
      PROVE  IntakeInv'
  BY <1>2, LookStep
<1>3. ASSUME NEW c \in Calls, CreateEvent(c)
      PROVE  IntakeInv'
  BY <1>3, CreateStep
<1>4. ASSUME NEW c \in Calls, AddJob(c) \/ Interrupt(c)
      PROVE  IntakeInv'
  BY <1>4, EndStep
<1>5. CASE UNCHANGED vars
  BY <1>5 DEF vars, IntakeInv, TypeOK, Acknowledged, Known, Stored, OneRowEach, RowsRemember,
              StoredAgainOnlyAhead, Busy, CallKnows, RowsOf
<1> QED BY <1>1, <1>2, <1>3, <1>4, <1>5, TickStep DEF Next

LEMMA IntakeInit == Init => IntakeInv
<1> SUFFICES ASSUME Init PROVE IntakeInv
  OBVIOUS
<1>1. rows = <<>> /\ DOMAIN rows = {} /\ rows \in Seq(Row) /\ Len(rows) = 0
  BY EmptySeq DEF Init
<1>2. TypeOK
  BY <1>1, WebhookIntakeAssumption DEF Init, TypeOK, Times
<1>3. \A c \in Calls : ~ Busy(c)
  BY DEF Init, Busy, Idle
<1> QED BY <1>1, <1>2, <1>3 DEF Init, IntakeInv, Acknowledged, OneRowEach, RowsRemember, StoredAgainOnlyAhead

\* IntakeInv holds in every reachable state of every instance.
THEOREM IntakeInductive == Spec => []IntakeInv
BY IntakeInit, IntakeStep, PTL DEF Spec

\* The event rows and what the calls read of them keep their shape.
THEOREM IntakeTyping == Spec => []TypeOK
<1>1. IntakeInv => TypeOK
  BY DEF IntakeInv
<1> QED BY <1>1, IntakeInductive, PTL

\* Whatever the provider was told was received is in the table, or an event is
\* that it was taken for, by its id or by its type and reference, and one row has
\* an id: the three look-ups race, the unique index decides.  For any way in
\* which events share ids and references; an event that shares none is stored.
THEOREM ReceivedOrTakenForAnother == Spec => []ReceivedIsKnown
<1>1. IntakeInv => ReceivedIsKnown
  <2> SUFFICES ASSUME IntakeInv, NEW id \in Ids
               PROVE  Cardinality({i \in DOMAIN rows : rows[i].event \in id}) <= 1
    BY DEF ReceivedIsKnown, IntakeInv, Acknowledged, Known
  <2> DEFINE found == {i \in DOMAIN rows : rows[i].event \in id}
  <2>2. Cardinality(found) <= 1
    <3>1. \A i, j \in found : i = j
      <4> SUFFICES ASSUME NEW i \in found, NEW j \in found PROVE i = j
        OBVIOUS
      <4>1. rows[i].event \in Events /\ rows[j].event \in Events
        BY RowFacts DEF IntakeInv, Row
      <4>2. rows[j].event \in Bearers(rows[i].event)
        BY <4>1 DEF Bearers
      <4> QED BY <4>2 DEF IntakeInv, OneRowEach
    <3>2. found = {} \/ \E i \in found : found = {i}
      BY <3>1
    <3> HIDE DEF found
    <3>3. CASE found = {}
      BY <3>3, FS_EmptySet
    <3>4. ASSUME NEW i \in found, found = {i}
          PROVE  Cardinality(found) <= 1
      <4>1. Cardinality({i}) = 1
        BY FS_Singleton
      <4> QED BY <3>4, <4>1
    <3> QED BY <3>2, <3>3, <3>4
  <2> QED BY <2>2
<1> QED BY <1>1, IntakeInductive, PTL

\* A message without an id gets past the signature look-up a second time only if
\* its stamp is from a clock ahead of the server's, for any window and however
\* late it is delivered again.
THEOREM WindowsMeet == Spec => []StoredAgainOnlyAhead
<1>1. IntakeInv => StoredAgainOnlyAhead
  BY DEF IntakeInv
<1> QED BY <1>1, IntakeInductive, PTL
-----------------------------------------------------------------------------
(* Deliveries                                                              *)

\* Worker k is busy with row d, or will be.
Touches(k, d) == (work[k].pc # "idle" /\ work[k].row = d) \/ d \in work[k].list

\* It is retrying d, and has not handed it over yet.
Holds(k, d) ==
    work[k].retrying /\ (d \in work[k].list \/ (work[k].row = d /\ work[k].pc \in {"again", "send"}))

Holders(d) == {k \in Workers : Holds(k, d)}

\* It is creating d, and has not handed it over yet.
Creates(k, d) == ~work[k].retrying /\ work[k].row = d /\ work[k].pc \in {"show", "deliver", "send"}

Untouched(d) == delivery[d].attempts = 0 /\ delivery[d].handed = 0 /\ delivery[d].status # "FAILED"

WorkShape(k) ==
    /\ work[k].pc = "idle" => ~work[k].retrying
    /\ work[k].pc # "idle" => work[k].row \in Deliveries
    /\ ~work[k].retrying => work[k].list = {} /\ work[k].pc # "again"
    /\ work[k].retrying => work[k].row \notin work[k].list /\ work[k].pc \notin {"show", "deliver"}

\* Nobody else is concerned with a notification while it is created.
CreatedAlone(d) ==
    /\ notification[d] = "none" => Untouched(d) /\ \A k \in Workers : ~Touches(k, d)
    /\ \A k \in Workers : Creates(k, d) => Untouched(d) /\ \A j \in Workers \ {k} : ~Touches(j, d)

Counted(d) ==
    (delivery[d].status = "FAILED" \/ \E k \in Workers : Holds(k, d)) => delivery[d].attempts >= 1

\* Until a retry is about to hand d over it was handed over by its creator only.
\* From then on too many attempts are counted for it to be listed again, and
\* those who hold it hand it over once each.
HandedByCreator(d) ==
    /\ delivery[d].handed <= 1
    /\ \A k \in Workers : work[k].row = d /\ work[k].pc = "send" => ~work[k].retrying

HandedByHolders(d) ==
    /\ delivery[d].attempts >= 2
    /\ delivery[d].status = "FAILED" => delivery[d].attempts >= 3
    /\ delivery[d].handed + Cardinality(Holders(d)) <= 1 + Cardinality(Workers)

DeliveryInv(d) == CreatedAlone(d) /\ Counted(d) /\ (HandedByCreator(d) \/ HandedByHolders(d))

DeliveriesInv ==
    /\ DeliveriesTypeOK
    /\ \A k \in Workers : WorkShape(k)
    /\ \A d \in Deliveries : DeliveryInv(d)

LEMMA WorkersFinite == Cardinality(Workers) \in Nat
BY DeliveriesAssumption, FS_CardinalityType

LEMMA HoldersCount ==
    \A d : /\ IsFiniteSet(Holders(d)) /\ Cardinality(Holders(d)) \in Nat
           /\ Cardinality(Holders(d)) <= Cardinality(Workers)
<1> SUFFICES ASSUME NEW d
             PROVE  /\ IsFiniteSet(Holders(d)) /\ Cardinality(Holders(d)) \in Nat
                    /\ Cardinality(Holders(d)) <= Cardinality(Workers)
  OBVIOUS
<1>1. Holders(d) \subseteq Workers
  BY DEF Holders
<1> QED BY <1>1, DeliveriesAssumption, FS_Subset, FS_CardinalityType

WorkRecords ==
    [pc : {"idle", "show", "deliver", "again", "send", "accepted", "rejected", "caught", "record"},
     row : Deliveries \cup {"none"}, retrying : BOOLEAN, list : SUBSET Deliveries]

DeliveryRecords == [status : Statuses, attempts : Nat, handed : Nat, accepted : BOOLEAN]

\* A step gives one worker another record, and leaves the others theirs.
Becoming(k, r) ==
    /\ work' \in [Workers -> WorkRecords] /\ work'[k] = r
    /\ \A j \in Workers \ {k} : work'[j] = work[j]

LEMMA WorkPut ==
    ASSUME DeliveriesTypeOK, NEW k \in Workers, NEW r \in WorkRecords, work' = [work EXCEPT ![k] = r]
    PROVE  Becoming(k, r)
<1>1. work \in [Workers -> WorkRecords]
  BY DEF DeliveriesTypeOK, WorkRecords
<1> QED BY <1>1 DEF Becoming

\* Where Turn, EndWork and Through leave a worker.
LEMMA Turned ==
    ASSUME DeliveriesTypeOK, NEW k \in Workers,
           NEW step \in {"deliver", "send", "accepted", "rejected", "caught", "record"}, Turn(k, step)
    PROVE  /\ Becoming(k, work'[k]) /\ work'[k].pc = step
           /\ work'[k].row = work[k].row /\ work'[k].retrying = work[k].retrying /\ work'[k].list = work[k].list
<1> DEFINE r == [work[k] EXCEPT !.pc = step]
<1>1. work[k] \in WorkRecords
  BY DEF DeliveriesTypeOK, WorkRecords
<1>2. /\ r \in WorkRecords /\ r.pc = step
      /\ r.row = work[k].row /\ r.retrying = work[k].retrying /\ r.list = work[k].list
  BY <1>1 DEF WorkRecords
<1>3. work' = [work EXCEPT ![k] = r]
  BY DEF Turn, DeliveriesTypeOK
<1> HIDE DEF r
<1>4. Becoming(k, r)
  BY <1>2, <1>3, WorkPut
<1> QED BY <1>2, <1>4 DEF Becoming

LEMMA Ended ==
    ASSUME DeliveriesTypeOK, NEW k \in Workers, EndWork(k)
    PROVE  Becoming(k, work'[k]) /\ work'[k].pc = "idle" /\ ~work'[k].retrying /\ work'[k].list = {}
<1>1. NoWork \in WorkRecords /\ NoWork.pc = "idle" /\ ~NoWork.retrying /\ NoWork.list = {}
  BY DEF NoWork, WorkRecords
<1>2. Becoming(k, NoWork)
  BY <1>1, WorkPut DEF EndWork
<1> QED BY <1>1, <1>2 DEF Becoming

LEMMA WentThrough ==
    ASSUME DeliveriesTypeOK, NEW k \in Workers, WorkShape(k), Through(k)
    PROVE  /\ Becoming(k, work'[k])
           /\ \/ work'[k].pc = "idle" /\ ~work'[k].retrying /\ work'[k].list = {}
              \/ /\ work'[k].pc = "again" /\ work'[k].retrying /\ work[k].retrying
                 /\ work'[k].row \in work[k].list /\ work'[k].list = work[k].list \ {work'[k].row}
<1>1. CASE work[k].list = {}
  BY <1>1, Ended DEF Through
<1>2. CASE work[k].list # {}
  <2>1. PICK d \in work[k].list : work' = [work EXCEPT ![k].pc = "again", ![k].row = d, ![k].list = @ \ {d}]
    BY <1>2 DEF Through
  <2>2. work \in [Workers -> WorkRecords]
    BY DEF DeliveriesTypeOK, WorkRecords
  <2>3. d \in Deliveries
    BY <2>1, <2>2 DEF WorkRecords
  <2>4. Becoming(k, work'[k])
    BY <2>1, <2>2, <2>3 DEF Becoming, WorkRecords
  <2>5. /\ work'[k].pc = "again" /\ work'[k].row = d /\ work'[k].retrying = work[k].retrying
        /\ work'[k].list = work[k].list \ {d}
    BY <2>1, <2>2 DEF WorkRecords
  <2>6. work[k].retrying
    BY <1>2, <2>2 DEF WorkShape, WorkRecords
  <2> QED BY <2>1, <2>4, <2>5, <2>6
<1> QED BY <1>1, <1>2

\* What writing a status does to the rows.
LEMMA Updated ==
    ASSUME DeliveriesTypeOK, NEW d \in Deliveries, NEW status \in {"PENDING", "SENT", "FAILED"}, UpdateStatus(d, status)
    PROVE  /\ delivery' \in [Deliveries -> DeliveryRecords]
           /\ \A e \in Deliveries \ {d} : delivery'[e] = delivery[e]
           /\ delivery'[d].status = status /\ delivery'[d].attempts = delivery[d].attempts + 1
           /\ delivery'[d].handed = delivery[d].handed
<1>1. delivery \in [Deliveries -> DeliveryRecords]
  BY DEF DeliveriesTypeOK, DeliveryRecords
<1>2. delivery' = [delivery EXCEPT ![d].status = status, ![d].attempts = @ + 1]
  BY DEF UpdateStatus, Attempt
<1> QED BY <1>1, <1>2 DEF DeliveryRecords, Statuses

LEMMA TypesKept ==
    ASSUME delivery' \in [Deliveries -> DeliveryRecords], work' \in [Workers -> WorkRecords],
           notification' \in [Deliveries -> {"none", "PENDING", "SENT", "READ"}]
    PROVE  DeliveriesTypeOK'
BY DEF DeliveriesTypeOK, DeliveryRecords, WorkRecords

\* A row whose delivery a step leaves alone, and which its worker k is not more
\* concerned with than before, is as it was.
LEMMA Bystander ==
    ASSUME DeliveriesTypeOK, DeliveriesTypeOK', NEW d \in Deliveries, DeliveryInv(d),
           delivery'[d] = delivery[d], notification'[d] = "none" => notification[d] = "none",
           NEW k \in Workers, \A j \in Workers \ {k} : work'[j] = work[j],
           Touches(k, d)' => Touches(k, d), Holds(k, d)' => Holds(k, d), Creates(k, d)' => Creates(k, d),
           (work'[k].row = d /\ work'[k].pc = "send" /\ work'[k].retrying) =>
               (work[k].row = d /\ work[k].pc = "send" /\ work[k].retrying)
    PROVE  DeliveryInv(d)'
<1>1. \A j \in Workers : /\ Touches(j, d)' => Touches(j, d)
                         /\ Holds(j, d)' => Holds(j, d)
                         /\ Creates(j, d)' => Creates(j, d)
  BY DEF Touches, Holds, Creates
<1>2. Holders(d)' \subseteq Holders(d)
  BY <1>1 DEF Holders
<1>3. Cardinality(Holders(d)') <= Cardinality(Holders(d))
  BY <1>2, HoldersCount, FS_Subset
<1>4. CreatedAlone(d)'
  BY <1>1 DEF DeliveryInv, CreatedAlone, Untouched
<1>5. Counted(d)'
  BY <1>1 DEF DeliveryInv, Counted
<1>6. HandedByCreator(d) => HandedByCreator(d)'
  BY DEF HandedByCreator
<1>7. HandedByHolders(d) => HandedByHolders(d)'
  <2>1. Cardinality(Holders(d)') \in Nat /\ delivery[d].handed \in Nat /\ Cardinality(Holders(d)) \in Nat
    BY <1>2, HoldersCount, FS_Subset, FS_CardinalityType DEF DeliveriesTypeOK
  <2> QED BY <1>3, <2>1, WorkersFinite DEF HandedByHolders
<1> QED BY <1>4, <1>5, <1>6, <1>7 DEF DeliveryInv

\* A row of which k has finished an attempt, and is not concerned with any more
\* or only to write its status.
LEMMA AttemptCounted ==
    ASSUME DeliveriesTypeOK, DeliveriesTypeOK', NEW d \in Deliveries, DeliveryInv(d), NEW k \in Workers,
           work[k].row = d, work[k].pc \in {"accepted", "rejected", "caught", "record"},
           \A j \in Workers \ {k} : work'[j] = work[j],
           delivery'[d].attempts = delivery[d].attempts + 1, delivery'[d].handed = delivery[d].handed,
           UNCHANGED notification,
           ~Holds(k, d), ~Holds(k, d)', ~Creates(k, d)',
           ~(work'[k].row = d /\ work'[k].pc = "send")
    PROVE  DeliveryInv(d)'
<1>1. Touches(k, d)
  BY DEF Touches
<1>2. notification[d] # "none" /\ \A j \in Workers : ~Creates(j, d)
  <2>1. ~Creates(k, d)
    BY DEF Creates
  <2> QED BY <1>1, <2>1 DEF DeliveryInv, CreatedAlone
<1>3. \A j \in Workers : ~Creates(j, d)'
  BY <1>2 DEF Creates
<1>4. CreatedAlone(d)'
  BY <1>2, <1>3 DEF CreatedAlone
<1>5. \A j \in Workers : Holds(j, d)' <=> Holds(j, d)
  BY DEF Holds
<1>6. Holders(d)' = Holders(d)
  BY <1>5 DEF Holders
<1>7. delivery[d].attempts \in Nat
  BY DEF DeliveriesTypeOK
<1>8. Counted(d)'
  BY <1>7 DEF Counted
<1>9. HandedByCreator(d) => HandedByCreator(d)'
  BY DEF HandedByCreator
<1>10. HandedByHolders(d) => HandedByHolders(d)'
  BY <1>6, <1>7 DEF HandedByHolders
<1> QED BY <1>4, <1>8, <1>9, <1>10 DEF DeliveryInv

\* Every step of a worker, and every notification read, keeps the invariant.
LEMMA DeliveryStep ==
    ASSUME MaxRetries <= 3
    PROVE  DeliveriesInv /\ [DeliveriesNext]_deliveryVars => DeliveriesInv'
<1> SUFFICES ASSUME DeliveriesInv, [DeliveriesNext]_deliveryVars PROVE DeliveriesInv'
  OBVIOUS
<1>t. /\ DeliveriesTypeOK
      /\ delivery \in [Deliveries -> DeliveryRecords] /\ work \in [Workers -> WorkRecords]
      /\ notification \in [Deliveries -> {"none", "PENDING", "SENT", "READ"}]
      /\ \A k \in Workers : WorkShape(k)
      /\ \A d \in Deliveries : DeliveryInv(d)
  BY DEF DeliveriesInv, DeliveriesTypeOK, DeliveryRecords, WorkRecords
\* It is enough to look at the worker that moves, and at each row.
<1>g. ASSUME NEW k \in Workers, Becoming(k, work'[k]), WorkShape(k)', DeliveriesTypeOK',
             \A d \in Deliveries : DeliveryInv(d)'
      PROVE  DeliveriesInv'
  <2>1. \A j \in Workers : WorkShape(j)'
    BY <1>t, <1>g DEF Becoming, WorkShape
  <2> QED BY <1>g, <2>1 DEF DeliveriesInv
<1>1. CASE UNCHANGED deliveryVars
  <2>1. UNCHANGED <<notification, delivery, work>>
    BY <1>1 DEF deliveryVars
  <2>2. DeliveriesTypeOK' /\ \A j \in Workers : WorkShape(j)'
    BY <1>t, <2>1 DEF DeliveriesTypeOK, WorkShape
  <2>3. \A d \in Deliveries : DeliveryInv(d)'
    BY <1>t, <2>1 DEF DeliveryInv, CreatedAlone, Untouched, Counted, HandedByCreator, HandedByHolders,
                      Holders, Touches, Holds, Creates
  <2> QED BY <2>2, <2>3 DEF DeliveriesInv
<1>2. ASSUME NEW e \in Deliveries, MarkAsRead(e)
      PROVE  DeliveriesInv'
  <2>1. /\ UNCHANGED <<delivery, work>>
        /\ \A d \in Deliveries : notification'[d] = "none" => notification[d] = "none"
        /\ notification' \in [Deliveries -> {"none", "PENDING", "SENT", "READ"}]
    BY <1>2, <1>t DEF MarkAsRead
  <2>2. DeliveriesTypeOK' /\ \A j \in Workers : WorkShape(j)'
    BY <1>t, <2>1, TypesKept DEF WorkShape
  <2>3. ASSUME NEW d \in Deliveries
        PROVE  DeliveryInv(d)'
    <3>1. CreatedAlone(d)'
      BY <1>t, <2>1 DEF DeliveryInv, CreatedAlone, Untouched, Touches, Creates
    <3>2. /\ Counted(d)' = Counted(d)
          /\ HandedByCreator(d)' = HandedByCreator(d)
          /\ HandedByHolders(d)' = HandedByHolders(d)
      BY <2>1 DEF Counted, HandedByCreator, HandedByHolders, Holders, Holds
    <3> QED BY <1>t, <3>1, <3>2 DEF DeliveryInv
  <2> QED BY <2>2, <2>3 DEF DeliveriesInv
\* The rows a step does not write.
<1>3. ASSUME NEW k \in Workers, NEW e \in Deliveries, NEW step \in {"deliver", "caught"},
             Turn(k, step), UNCHANGED delivery, work[k].row = e, work[k].pc # "idle",
             \A d \in Deliveries : notification'[d] = "none" => notification[d] = "none",
             notification' \in [Deliveries -> {"none", "PENDING", "SENT", "READ"}],
             step = "deliver" => work[k].pc = "show"
      PROVE  DeliveriesInv'
  <2>1. /\ Becoming(k, work'[k]) /\ work'[k].pc = step
        /\ work'[k].row = work[k].row /\ work'[k].retrying = work[k].retrying /\ work'[k].list = work[k].list
    BY <1>3, <1>t, Turned
  <2>2. WorkShape(k)' /\ DeliveriesTypeOK'
    BY <1>3, <1>t, <2>1, TypesKept DEF WorkShape, Becoming
  <2>3. ASSUME NEW d \in Deliveries
        PROVE  DeliveryInv(d)'
    <3>1. Creates(k, d)' => Creates(k, d)
      BY <1>3, <2>1 DEF Creates
    <3>2. /\ Touches(k, d)' => Touches(k, d)
          /\ Holds(k, d)' => Holds(k, d)
          /\ work'[k].pc # "send" /\ delivery'[d] = delivery[d]
          /\ \A j \in Workers \ {k} : work'[j] = work[j]
      BY <1>3, <2>1 DEF Touches, Holds, Becoming
    <3> QED BY <1>3, <1>t, <2>2, <3>1, <3>2, Bystander
  <2> QED BY <2>1, <2>2, <2>3, <1>g
<1>4. ASSUME NEW k \in Workers, GiveUp(k)
      PROVE  DeliveriesInv'
  <2>1. /\ Becoming(k, work'[k]) /\ work'[k].pc = "idle" /\ ~work'[k].retrying /\ work'[k].list = {}
        /\ UNCHANGED <<notification, delivery>>
    BY <1>4, <1>t, Ended DEF GiveUp
  <2>2. WorkShape(k)' /\ DeliveriesTypeOK'
    BY <1>t, <2>1, TypesKept DEF WorkShape, Becoming
  <2>3. ASSUME NEW d \in Deliveries
        PROVE  DeliveryInv(d)'
    <3>1. /\ ~Touches(k, d)' /\ ~Holds(k, d)' /\ ~Creates(k, d)'
          /\ work'[k].pc # "send" /\ delivery'[d] = delivery[d]
          /\ \A j \in Workers \ {k} : work'[j] = work[j]
      BY <2>1 DEF Touches, Holds, Creates, Becoming
    <3> QED BY <1>t, <2>1, <2>2, <3>1, Bystander
  <2> QED BY <2>1, <2>2, <2>3, <1>g
<1>5. ASSUME NEW k \in Workers, NEW e \in Deliveries, Show(k, e) \/ WriteThrows(k, e)
      PROVE  DeliveriesInv'
  <2>1. CASE Show(k, e)
    <3>1. /\ Turn(k, "deliver") /\ UNCHANGED delivery /\ work[k].row = e /\ work[k].pc = "show"
          /\ \A d \in Deliveries : notification'[d] = "none" => notification[d] = "none"
          /\ notification' \in [Deliveries -> {"none", "PENDING", "SENT", "READ"}]
      BY <2>1, <1>t DEF Show, Works
    <3> QED BY <3>1, <1>3
  <2>2. CASE WriteThrows(k, e)
    <3>1. Turn(k, "caught") /\ UNCHANGED <<notification, delivery>> /\ work[k].row = e /\ work[k].pc # "idle"
      BY <2>2 DEF WriteThrows
    <3> QED BY <3>1, <1>3, <1>t
  <2> QED BY <1>5, <2>1, <2>2
<1>6. ASSUME NEW k \in Workers, NEW e \in Deliveries, Create(k, e)
      PROVE  DeliveriesInv'
  <2> DEFINE r == [NoWork EXCEPT !.pc = "show", !.row = e]
  <2>1. /\ work[k].pc = "idle" /\ notification[e] = "none" /\ UNCHANGED delivery
        /\ notification' \in [Deliveries -> {"none", "PENDING", "SENT", "READ"}]
        /\ notification'[e] # "none" /\ \A d \in Deliveries \ {e} : notification'[d] = notification[d]
    BY <1>6, <1>t DEF Create
  <2>2. NoWork \in WorkRecords /\ ~NoWork.retrying /\ NoWork.list = {}
    BY DEF NoWork, WorkRecords
  <2>r. r \in WorkRecords /\ r.pc = "show" /\ r.row = e /\ ~r.retrying /\ r.list = {}
    BY <2>2 DEF WorkRecords
  <2>i. work' = [work EXCEPT ![k] = r]
    BY <1>6 DEF Create
  <2> HIDE DEF r
  <2>3. Becoming(k, r)
    BY <2>r, <2>i, <1>t, WorkPut
  <2>4. /\ Becoming(k, work'[k]) /\ work'[k].pc = "show" /\ work'[k].row = e
        /\ ~work'[k].retrying /\ work'[k].list = {}
    BY <2>r, <2>3 DEF Becoming
  <2>5. WorkShape(k)' /\ DeliveriesTypeOK'
    BY <1>t, <2>1, <2>4, TypesKept DEF WorkShape, Becoming
  <2>6. ASSUME NEW d \in Deliveries \ {e}
        PROVE  DeliveryInv(d)'
    <3>1. /\ ~Touches(k, d)' /\ ~Holds(k, d)' /\ ~Creates(k, d)'
          /\ work'[k].row # d /\ delivery'[d] = delivery[d]
          /\ \A j \in Workers \ {k} : work'[j] = work[j]
      BY <2>1, <2>4 DEF Touches, Holds, Creates, Becoming
    <3> QED BY <1>t, <2>1, <2>5, <3>1, Bystander
  <2>7. DeliveryInv(e)'
    <3>1. Untouched(e) /\ \A j \in Workers : ~Touches(j, e)
      BY <1>t, <2>1 DEF DeliveryInv, CreatedAlone
    <3>2. Untouched(e)' /\ \A j \in Workers \ {k} : ~Touches(j, e)'
      BY <2>1, <2>4, <3>1 DEF Untouched, Touches, Becoming
    <3>3. \A j \in Workers : ~Holds(j, e)'
      BY <2>4, <3>2 DEF Holds, Touches
    <3>4. \A j \in Workers \ {k} : ~Creates(j, e)'
      BY <3>2 DEF Creates, Touches
    <3>5. CreatedAlone(e)'
      BY <2>1, <3>2, <3>4 DEF CreatedAlone
    <3>6. Counted(e)'
      BY <3>2, <3>3 DEF Counted, Untouched
    <3>7. HandedByCreator(e)'
      BY <2>4, <3>2 DEF HandedByCreator, Untouched, Touches
    <3> QED BY <3>5, <3>6, <3>7 DEF DeliveryInv
  <2> QED BY <2>4, <2>5, <2>6, <2>7, <1>g
<1>7. ASSUME NEW k \in Workers, NEW e \in Deliveries, CreateDelivery(k, e)
      PROVE  DeliveriesInv'
  <2>1. /\ work[k].pc = "deliver" /\ work[k].row = e /\ UNCHANGED notification
        /\ delivery' \in [Deliveries -> DeliveryRecords]
        /\ \A d \in Deliveries \ {e} : delivery'[d] = delivery[d]
        /\ delivery'[e].status = "PENDING" /\ delivery'[e].attempts = delivery[e].attempts
        /\ delivery'[e].handed = delivery[e].handed
    BY <1>7, <1>t DEF CreateDelivery, Works, DeliveryRecords, Statuses
  <2>2. /\ Becoming(k, work'[k]) /\ work'[k].pc = "send"
        /\ work'[k].row = work[k].row /\ work'[k].retrying = work[k].retrying /\ work'[k].list = work[k].list
    BY <1>7, <1>t, Turned DEF CreateDelivery
  <2>3. ~work[k].retrying /\ work[k].list = {}
    BY <1>t, <2>1 DEF WorkShape
  <2>4. WorkShape(k)' /\ DeliveriesTypeOK'
    BY <1>t, <2>1, <2>2, <2>3, TypesKept DEF WorkShape, Becoming
  <2>5. ASSUME NEW d \in Deliveries \ {e}
        PROVE  DeliveryInv(d)'
    <3>1. /\ ~Touches(k, d)' /\ ~Holds(k, d)' /\ ~Creates(k, d)'
          /\ work'[k].row # d /\ delivery'[d] = delivery[d]
          /\ \A j \in Workers \ {k} : work'[j] = work[j]
      BY <2>1, <2>2, <2>3 DEF Touches, Holds, Creates, Becoming
    <3> QED BY <1>t, <2>1, <2>4, <3>1, Bystander
  <2>6. DeliveryInv(e)'
    <3>1. Creates(k, e) /\ Touches(k, e)
      BY <2>1, <2>3 DEF Creates, Touches
    <3>2. notification[e] # "none" /\ Untouched(e) /\ \A j \in Workers \ {k} : ~Touches(j, e)
      BY <1>t, <3>1 DEF DeliveryInv, CreatedAlone
    <3>3. Untouched(e)' /\ \A j \in Workers \ {k} : ~Touches(j, e)'
      BY <2>1, <2>2, <3>2 DEF Untouched, Touches, Becoming
    <3>4. \A j \in Workers : ~Holds(j, e)'
      BY <2>2, <2>3, <3>3 DEF Holds, Touches
    <3>5. \A j \in Workers \ {k} : ~Creates(j, e)'
      BY <3>3 DEF Creates, Touches
    <3>6. CreatedAlone(e)'
      BY <2>1, <3>2, <3>3, <3>5 DEF CreatedAlone
    <3>7. Counted(e)'
      BY <3>3, <3>4 DEF Counted, Untouched
    <3>8. HandedByCreator(e)'
      BY <2>2, <2>3, <3>3 DEF HandedByCreator, Untouched, Touches
    <3> QED BY <3>6, <3>7, <3>8 DEF DeliveryInv
  <2> QED BY <2>2, <2>4, <2>5, <2>6, <1>g
<1>8. ASSUME NEW k \in Workers, RetryFailed(k)
      PROVE  DeliveriesInv'
  <2> DEFINE found == {d \in Deliveries : delivery[d].status = "FAILED" /\ delivery[d].attempts < MaxRetries}
  <2>1. PICK e \in found : work' = [work EXCEPT ![k] = [pc |-> "again", row |-> e, retrying |-> TRUE, list |-> found \ {e}]]
    BY <1>8 DEF RetryFailed
  <2>2. work[k].pc = "idle" /\ UNCHANGED <<notification, delivery>> /\ e \in Deliveries
    BY <1>8 DEF RetryFailed
  <2> DEFINE r == [pc |-> "again", row |-> e, retrying |-> TRUE, list |-> found \ {e}]
  <2>3. r \in WorkRecords
    BY DEF WorkRecords
  <2>4. Becoming(k, r)
    BY <2>1, <2>3, <1>t, WorkPut
  <2>5. /\ Becoming(k, work'[k]) /\ work'[k].pc = "again" /\ work'[k].row = e
        /\ work'[k].retrying /\ work'[k].list = found \ {e}
    BY <2>4 DEF Becoming
  <2>6. WorkShape(k)' /\ DeliveriesTypeOK'
    BY <1>t, <2>2, <2>5, TypesKept DEF WorkShape, Becoming
  <2>7. ASSUME NEW d \in Deliveries \ found
        PROVE  DeliveryInv(d)'
    <3>1. /\ ~Touches(k, d)' /\ ~Holds(k, d)' /\ ~Creates(k, d)'
          /\ work'[k].row # d /\ delivery'[d] = delivery[d]
          /\ \A j \in Workers \ {k} : work'[j] = work[j]
      BY <2>1, <2>2, <2>5 DEF Touches, Holds, Creates, Becoming
    <3> QED BY <1>t, <2>2, <2>6, <3>1, Bystander
  <2>8. ASSUME NEW d \in found
        PROVE  DeliveryInv(d)'
    <3>1. delivery'[d].status = "FAILED" /\ delivery[d].status = "FAILED" /\ delivery'[d] = delivery[d]
          /\ delivery[d].attempts < 3 /\ delivery[d].attempts \in Nat
      BY <1>t, <2>2, DeliveriesAssumption DEF DeliveryRecords
    <3>2. notification[d] # "none" /\ \A j \in Workers : ~Creates(j, d)
      BY <1>t, <3>1 DEF DeliveryInv, CreatedAlone, Untouched
    <3>3. notification'[d] # "none" /\ \A j \in Workers : ~Creates(j, d)'
      BY <2>2, <2>5, <3>2 DEF Creates, Becoming
    <3>4. CreatedAlone(d)'
      BY <3>3 DEF CreatedAlone
    <3>5. Counted(d)'
      BY <1>t, <3>1 DEF DeliveryInv, Counted
    <3>6. ~HandedByHolders(d)
      BY <3>1 DEF HandedByHolders
    <3>7. HandedByCreator(d)'
      BY <1>t, <2>5, <3>1, <3>6 DEF DeliveryInv, HandedByCreator, Becoming
    <3> QED BY <3>4, <3>5, <3>7 DEF DeliveryInv
  <2> QED BY <2>5, <2>6, <2>7, <2>8, <1>g
<1>9. ASSUME NEW k \in Workers, NEW e \in Deliveries, MarkPending(k, e)
      PROVE  DeliveriesInv'
  <2>1. work[k].pc = "again" /\ work[k].row = e /\ UNCHANGED notification
    BY <1>9 DEF MarkPending, Works
  <2>2. /\ delivery' \in [Deliveries -> DeliveryRecords]
        /\ \A d \in Deliveries \ {e} : delivery'[d] = delivery[d]
        /\ delivery'[e].status = "PENDING" /\ delivery'[e].attempts = delivery[e].attempts + 1
        /\ delivery'[e].handed = delivery[e].handed
    BY <1>9, <1>t, Updated DEF MarkPending
  <2>3. /\ Becoming(k, work'[k]) /\ work'[k].pc = "send"
        /\ work'[k].row = work[k].row /\ work'[k].retrying = work[k].retrying /\ work'[k].list = work[k].list
    BY <1>9, <1>t, Turned DEF MarkPending
  <2>4. work[k].retrying /\ e \notin work[k].list
    BY <1>t, <2>1 DEF WorkShape
  <2>5. WorkShape(k)' /\ DeliveriesTypeOK'
    BY <1>t, <2>1, <2>2, <2>3, <2>4, TypesKept DEF WorkShape, Becoming
  <2>6. ASSUME NEW d \in Deliveries \ {e}
        PROVE  DeliveryInv(d)'
    <3>1. /\ Touches(k, d)' => Touches(k, d)
          /\ Holds(k, d)' => Holds(k, d)
          /\ ~Creates(k, d)'
          /\ work'[k].row # d /\ delivery'[d] = delivery[d]
          /\ \A j \in Workers \ {k} : work'[j] = work[j]
      BY <2>1, <2>2, <2>3, <2>4 DEF Touches, Holds, Creates, Becoming
    <3> QED BY <1>t, <2>1, <2>5, <3>1, Bystander
  <2>7. DeliveryInv(e)'
    <3>1. Holds(k, e) /\ Touches(k, e) /\ ~Creates(k, e)
      BY <2>1, <2>4 DEF Holds, Touches, Creates
    <3>2. notification[e] # "none" /\ \A j \in Workers : ~Creates(j, e)
      BY <1>t, <3>1 DEF DeliveryInv, CreatedAlone
    <3>3. \A j \in Workers : ~Creates(j, e)'
      BY <2>3, <2>4, <3>2 DEF Creates, Becoming
    <3>4. CreatedAlone(e)'
      BY <2>1, <3>2, <3>3 DEF CreatedAlone
    <3>5. delivery[e].attempts >= 1 /\ delivery[e].attempts \in Nat /\ delivery[e].handed \in Nat
      BY <1>t, <3>1 DEF DeliveryInv, Counted, DeliveryRecords
    <3>6. Counted(e)'
      BY <2>2, <3>5 DEF Counted
    <3>7. Holders(e)' = Holders(e)
      BY <2>1, <2>3, <2>4 DEF Holders, Holds, Becoming
    <3>8. HandedByHolders(e)'
      <4>1. CASE HandedByCreator(e)
        <5>1. delivery[e].handed <= 1
          BY <4>1 DEF HandedByCreator
        <5>2. delivery'[e].handed + Cardinality(Holders(e)') <= 1 + Cardinality(Workers)
          BY <2>2, <3>5, <3>7, <5>1, HoldersCount, WorkersFinite
        <5> QED BY <2>2, <3>5, <5>2 DEF HandedByHolders
      <4>2. CASE HandedByHolders(e)
        BY <2>2, <3>5, <3>7, <4>2 DEF HandedByHolders
      <4> QED BY <1>t, <4>1, <4>2 DEF DeliveryInv
    <3> QED BY <3>4, <3>6, <3>8 DEF DeliveryInv
  <2> QED BY <2>3, <2>5, <2>6, <2>7, <1>g
<1>10. ASSUME NEW k \in Workers, NEW e \in Deliveries, SendEmail(k, e)
       PROVE  DeliveriesInv'
  <2>1. work[k].pc = "send" /\ work[k].row = e /\ UNCHANGED notification
    BY <1>10 DEF SendEmail, Works
  <2>2. CASE Turn(k, "caught") /\ UNCHANGED delivery
    BY <2>1, <2>2, <1>3, <1>t
  <2>3. ASSUME NEW step \in {"rejected", "accepted"}, Turn(k, step),
               delivery' \in [Deliveries -> DeliveryRecords],
               \A d \in Deliveries \ {e} : delivery'[d] = delivery[d],
               delivery'[e].status = delivery[e].status, delivery'[e].attempts = delivery[e].attempts,
               delivery'[e].handed = delivery[e].handed + 1
        PROVE  DeliveriesInv'
    <3>1. /\ Becoming(k, work'[k]) /\ work'[k].pc = step
          /\ work'[k].row = work[k].row /\ work'[k].retrying = work[k].retrying /\ work'[k].list = work[k].list
      BY <2>3, <1>t, Turned
    <3>2. WorkShape(k)' /\ DeliveriesTypeOK'
      BY <1>t, <2>1, <2>3, <3>1, TypesKept DEF WorkShape, Becoming
    <3>3. ASSUME NEW d \in Deliveries \ {e}
          PROVE  DeliveryInv(d)'
      <4>1. /\ Touches(k, d)' => Touches(k, d)
            /\ Holds(k, d)' => Holds(k, d)
            /\ ~Creates(k, d)'
            /\ work'[k].row # d /\ delivery'[d] = delivery[d]
            /\ \A j \in Workers \ {k} : work'[j] = work[j]
        BY <2>1, <2>3, <3>1 DEF Touches, Holds, Creates, Becoming
      <4> QED BY <1>t, <2>1, <3>2, <4>1, Bystander
    <3>4. Touches(k, e) /\ ~Creates(k, e)' /\ delivery[e].handed \in Nat
      BY <1>t, <2>1, <3>1 DEF Touches, Creates, DeliveryRecords
    <3>5. ASSUME work[k].retrying
          PROVE  DeliveryInv(e)'
      <4>1. Holds(k, e) /\ ~Creates(k, e) /\ ~Holds(k, e)'
        BY <1>t, <2>1, <3>1, <3>5 DEF Holds, Creates, WorkShape
      <4>2. notification[e] # "none" /\ \A j \in Workers : ~Creates(j, e)
        BY <1>t, <3>4, <4>1 DEF DeliveryInv, CreatedAlone
      <4>3. \A j \in Workers : ~Creates(j, e)'
        BY <3>1, <3>4, <4>2 DEF Creates, Becoming
      <4>4. CreatedAlone(e)'
        BY <2>1, <4>2, <4>3 DEF CreatedAlone
      <4>5. Counted(e)'
        BY <1>t, <2>3, <4>1 DEF DeliveryInv, Counted
      <4>6. HandedByHolders(e)
        BY <1>t, <2>1, <3>5 DEF DeliveryInv, HandedByCreator
      <4>7. \A j \in Workers : Holds(j, e)' <=> (Holds(j, e) /\ j # k)
        BY <3>1, <4>1 DEF Holds, Becoming
      <4>8. Holders(e)' = Holders(e) \ {k} /\ k \in Holders(e)
        BY <4>1, <4>7 DEF Holders
      <4>9. Cardinality(Holders(e)') = Cardinality(Holders(e)) - 1
        BY <4>8, HoldersCount, FS_RemoveElement
      <4>n. Cardinality(Holders(e)) \in Nat
        BY HoldersCount
      <4>10. HandedByHolders(e)'
        BY <2>3, <3>4, <4>6, <4>9, <4>n, WorkersFinite DEF HandedByHolders
      <4> QED BY <4>4, <4>5, <4>10 DEF DeliveryInv
    <3>6. ASSUME ~work[k].retrying
          PROVE  DeliveryInv(e)'
      <4>1. Creates(k, e) /\ ~Holds(k, e)'
        BY <2>1, <3>1, <3>6 DEF Creates, Holds
      <4>2. notification[e] # "none" /\ Untouched(e) /\ \A j \in Workers \ {k} : ~Touches(j, e)
        BY <1>t, <4>1, <3>4 DEF DeliveryInv, CreatedAlone
      <4>3. \A j \in Workers \ {k} : ~Touches(j, e)'
        BY <3>1, <4>2 DEF Touches, Becoming
      <4>4. \A j \in Workers : ~Holds(j, e)' /\ ~Creates(j, e)'
        BY <3>4, <4>1, <4>3 DEF Holds, Creates, Touches
      <4>5. CreatedAlone(e)'
        BY <2>1, <4>2, <4>4 DEF CreatedAlone
      <4>6. Counted(e)'
        BY <2>3, <4>2, <4>4 DEF Counted, Untouched
      <4>7. delivery'[e].handed <= 1
        BY <2>3, <4>2 DEF Untouched
      <4>8. \A j \in Workers : ~(work'[j].row = e /\ work'[j].pc = "send")
        BY <2>3, <3>1, <4>3 DEF Touches
      <4>9. HandedByCreator(e)'
        BY <4>7, <4>8 DEF HandedByCreator
      <4> QED BY <4>5, <4>6, <4>9 DEF DeliveryInv
    <3> QED BY <3>1, <3>2, <3>3, <3>5, <3>6, <1>g
  <2>4. CASE Turn(k, "rejected") /\ delivery' = [delivery EXCEPT ![e].handed = @ + 1]
    <3>1. /\ delivery' \in [Deliveries -> DeliveryRecords]
          /\ \A d \in Deliveries \ {e} : delivery'[d] = delivery[d]
          /\ delivery'[e].status = delivery[e].status /\ delivery'[e].attempts = delivery[e].attempts
          /\ delivery'[e].handed = delivery[e].handed + 1
      BY <2>4, <1>t DEF DeliveryRecords
    <3> QED BY <2>3, <2>4, <3>1
  <2>5. CASE Turn(k, "accepted") /\ delivery' = [delivery EXCEPT ![e].handed = @ + 1, ![e].accepted = TRUE]
    <3>1. /\ delivery' \in [Deliveries -> DeliveryRecords]
          /\ \A d \in Deliveries \ {e} : delivery'[d] = delivery[d]
          /\ delivery'[e].status = delivery[e].status /\ delivery'[e].attempts = delivery[e].attempts
          /\ delivery'[e].handed = delivery[e].handed + 1
      <4>1. delivery \in [Deliveries -> DeliveryRecords]
        BY <1>t
      <4> DEFINE handed == [delivery EXCEPT ![e].handed = @ + 1]
      <4>2. delivery' \in [Deliveries -> DeliveryRecords]
        <5>1. handed \in [Deliveries -> DeliveryRecords]
          BY <4>1 DEF DeliveryRecords
        <5>2. delivery' = [handed EXCEPT ![e].accepted = TRUE]
          BY <2>5
        <5> HIDE DEF handed
        <5>3. [handed[e] EXCEPT !.accepted = TRUE] \in DeliveryRecords
          BY <5>1 DEF DeliveryRecords
        <5> QED BY <5>1, <5>2, <5>3
      <4>3. \A d \in Deliveries \ {e} : delivery'[d] = delivery[d]
        BY <2>5, <4>1
      <4> QED BY <2>5, <4>1, <4>2, <4>3 DEF DeliveryRecords
    <3> QED BY <2>3, <2>5, <3>1
  <2> QED BY <1>10, <2>2, <2>4, <2>5 DEF SendEmail
<1>11. ASSUME NEW k \in Workers, NEW e \in Deliveries, Report(k, e) \/ Record(k, e)
       PROVE  DeliveriesInv'
  <2>1. /\ work[k].row = e /\ work[k].pc \in {"accepted", "rejected", "caught", "record"} /\ UNCHANGED notification
        /\ \E status \in {"PENDING", "SENT", "FAILED"} : UpdateStatus(e, status)
        /\ Turn(k, "record") \/ Through(k)
    BY <1>11 DEF Report, Record, Works
  <2>2. /\ delivery' \in [Deliveries -> DeliveryRecords]
        /\ \A d \in Deliveries \ {e} : delivery'[d] = delivery[d]
        /\ delivery'[e].attempts = delivery[e].attempts + 1
        /\ delivery'[e].handed = delivery[e].handed
    BY <2>1, <1>t, Updated
  <2>3. /\ Becoming(k, work'[k])
        /\ \/ work'[k].pc = "record" /\ work'[k].row = work[k].row
              /\ work'[k].retrying = work[k].retrying /\ work'[k].list = work[k].list
           \/ work'[k].pc = "idle" /\ ~work'[k].retrying /\ work'[k].list = {}
           \/ /\ work'[k].pc = "again" /\ work'[k].retrying /\ work[k].retrying
              /\ work'[k].row \in work[k].list /\ work'[k].list = work[k].list \ {work'[k].row}
    BY <2>1, <1>t, Turned, WentThrough
  <2>4. e \notin work[k].list /\ work[k].list \subseteq Deliveries /\ (~work[k].retrying => work[k].list = {})
    BY <1>t, <2>1 DEF WorkShape, WorkRecords
  <2>5. WorkShape(k)' /\ DeliveriesTypeOK'
    <3>1. DeliveriesTypeOK'
      BY <1>t, <2>1, <2>2, <2>3, TypesKept DEF Becoming
    <3>2. WorkShape(k)'
      BY <1>t, <2>1, <2>3, <2>4 DEF WorkShape
    <3> QED BY <3>1, <3>2
  <2>6. ASSUME NEW d \in Deliveries \ {e}
        PROVE  DeliveryInv(d)'
    <3>1. /\ Touches(k, d)' => Touches(k, d)
          /\ Holds(k, d)' => Holds(k, d)
          /\ ~Creates(k, d)'
          /\ work'[k].pc # "send" /\ delivery'[d] = delivery[d]
          /\ \A j \in Workers \ {k} : work'[j] = work[j]
      BY <2>1, <2>2, <2>3, <2>4 DEF Touches, Holds, Creates, Becoming
    <3> QED BY <1>t, <2>1, <2>5, <3>1, Bystander
  <2>7. DeliveryInv(e)'
    <3>1. ~Holds(k, e) /\ ~Holds(k, e)' /\ ~Creates(k, e)' /\ work'[k].pc # "send"
      BY <2>1, <2>3, <2>4 DEF Holds, Creates
    <3>2. \A j \in Workers \ {k} : work'[j] = work[j]
      BY <2>3 DEF Becoming
    <3> QED BY <1>t, <2>1, <2>2, <2>5, <3>1, <3>2, AttemptCounted
  <2> QED BY <2>3, <2>5, <2>6, <2>7, <1>g
<1> QED BY <1>1, <1>2, <1>4, <1>5, <1>6, <1>7, <1>8, <1>9, <1>10, <1>11 DEF DeliveriesNext

LEMMA DeliveryInductive ==
    ASSUME MaxRetries <= 3
    PROVE  DeliveriesSpec => []DeliveriesInv
<1>1. DeliveriesInit => DeliveriesInv
  <2> SUFFICES ASSUME DeliveriesInit PROVE DeliveriesInv
    OBVIOUS
  <2>1. DeliveriesTypeOK /\ \A k \in Workers : WorkShape(k)
    BY DEF DeliveriesInit, DeliveriesTypeOK, WorkShape, NoWork, NoRow, Statuses
  <2>2. ASSUME NEW d \in Deliveries
        PROVE  DeliveryInv(d)
    BY DEF DeliveriesInit, DeliveryInv, CreatedAlone, Untouched, Counted, HandedByCreator,
           Touches, Holds, Creates, NoWork, NoRow
  <2> QED BY <2>1, <2>2 DEF DeliveriesInv
<1> QED BY <1>1, DeliveryStep, PTL DEF DeliveriesSpec

\* With the configured limit of three retries or a lower one, a notification is
\* handed to the mail server at most once by its creator and once by each other
\* request at work (retryFailedDeliveries): whoever found a row to retry counts
\* an attempt before sending, so that later requests find it no more.
THEOREM HandedOncePerWorkerHolds ==
    ASSUME MaxRetries <= 3
    PROVE  DeliveriesSpec => []HandedOncePerWorker
<1>1. DeliveriesInv => HandedOncePerWorker
  <2> SUFFICES ASSUME DeliveriesInv, NEW d \in Deliveries
               PROVE  delivery[d].handed <= 1 + Cardinality(Workers)
    BY DEF HandedOncePerWorker
  <2>1. delivery[d].handed \in Nat
    BY DEF DeliveriesInv, DeliveriesTypeOK
  <2>2. HandedByCreator(d) \/ HandedByHolders(d)
    BY DEF DeliveriesInv, DeliveryInv
  <2> QED BY <2>1, <2>2, HoldersCount, WorkersFinite DEF HandedByCreator, HandedByHolders
<1> QED BY <1>1, DeliveryInductive, PTL
-----------------------------------------------------------------------------
(* ApiClient                                                               *)

Active(t, s)     == req[t][s].pc # "idle"
Refreshes(t, s)  == Active(t, s) /\ req[t][s].post = "refresh"
Exchanges(t, s)  == Active(t, s) /\ req[t][s].post \in {"refresh", "initAuth"}
Initialises(t, s) == Active(t, s) /\ req[t][s].for = "initAuth"

\* A request that is not a refresh was posted for itself.
Posted(t, s) ==
    /\ req[t][s].for # "refresh"
    /\ req[t][s].post # "refresh" => req[t][s].post = req[t][s].for
    /\ req[t][s].pc = "queued" => req[t][s].post # "refresh"

\* isRefreshing is set exactly while one refresh of the tab is under way.
OneRefresh(t) ==
    /\ \A s \in Slots : req[t][s].pc = "queued" => t \in refreshing
    /\ t \in refreshing => \E s \in Slots : Refreshes(t, s)
    /\ \A s \in Slots : Refreshes(t, s) => t \in refreshing /\ \A q \in Slots : Refreshes(t, q) => q = s

QueueInv ==
    /\ ClientTypeOK
    /\ \A t \in Tabs, s \in Slots : Posted(t, s)
    /\ \A t \in Tabs : OneRefresh(t)

\* No token was issued twice: one that is granted is in the hands of one request.
TokensIssued ==
    /\ \A token \in live : token <= issued
    /\ cookie <= issued
    /\ \A t \in Tabs, s \in Slots : req[t][s].token <= issued

GrantedOnce ==
    \A t \in Tabs, s \in Slots : req[t][s].pc = "granted" =>
        /\ req[t][s].token # cookie
        /\ \A u \in Tabs, q \in Slots : (u # t \/ q # s) => req[u][q].token # req[t][s].token

\* Until a session is ended a token that is granted is live.
GrantedIsLive ==
    \A t \in Tabs, s \in Slots : req[t][s].pc = "granted" =>
        req[t][s].token # 0 /\ ("ended" \notin blame => req[t][s].token \in live)

TokensInv == TokensIssued /\ GrantedOnce /\ GrantedIsLive /\ SessionKept

\* Requests belong to open tabs.
Shown == \A t \in Tabs, s \in Slots : Active(t, s) => t \in open

\* The only tab: nothing runs beside initAuth, an exchange has a live token or
\* none, and so has the cookie unless an exchange has just got the next one.
AloneInv(t) ==
    /\ \A s \in Slots : Initialises(t, s) => \A q \in Slots : Active(t, q) => q = s
    /\ \A s \in Slots : Exchanges(t, s) /\ req[t][s].pc = "sent" => req[t][s].token \in live \cup {0}
    /\ \A s \in Slots : Exchanges(t, s) /\ req[t][s].pc = "refused" => req[t][s].token = 0
    /\ cookie \in live \cup {0} \/ \E s \in Slots : Exchanges(t, s) /\ req[t][s].pc = "granted"

BrowserInv ==
    /\ Shown
    /\ \A t \in Tabs : open \subseteq {t} /\ blame = {} => AloneInv(t)

BrowserRequests ==
    [pc : {"idle", "sent", "queued", "granted", "refused"}, post : Endpoints,
     for : Endpoints, retry : BOOLEAN, token : Tokens]

\* Only one request changes, and what it becomes: none, one that was sent, or
\* the same at another point.
Replaced(t, s) ==
    /\ req' \in [Tabs -> [Slots -> BrowserRequests]]
    /\ \A u \in Tabs, q \in Slots : (u # t \/ q # s) => req'[u][q] = req[u][q]

Clears(t, s) ==
    /\ Replaced(t, s)
    /\ req'[t][s].pc = "idle" /\ req'[t][s].post = "api" /\ req'[t][s].for = "api" /\ req'[t][s].token = 0

Sends(t, s, url, for, jar) ==
    /\ Replaced(t, s)
    /\ req'[t][s].pc = "sent" /\ req'[t][s].post = url /\ req'[t][s].for = for
    /\ req'[t][s].token = IF url \in {"api", "login"} THEN 0 ELSE jar

Moves(t, s, pc, token) ==
    /\ Replaced(t, s)
    /\ req'[t][s].pc = pc /\ req'[t][s].token = token
    /\ req'[t][s].post = req[t][s].post /\ req'[t][s].for = req[t][s].for

LEMMA ZeroToken == 0 \in Tokens /\ MaxTokens \in Nat
BY BrowserAssumption DEF Tokens

LEMMA RequestsTyped ==
    ClientTypeOK => /\ req \in [Tabs -> [Slots -> BrowserRequests]]
                    /\ \A t \in Tabs, s \in Slots : req[t][s] \in BrowserRequests
BY DEF ClientTypeOK, BrowserRequests

LEMMA Replacing ==
    ASSUME ClientTypeOK, NEW t \in Tabs, NEW s \in Slots, NEW r \in BrowserRequests, Becomes(t, s, r)
    PROVE  Replaced(t, s) /\ req'[t][s] = r
<1>1. req' = [req EXCEPT ![t][s] = r]
  BY DEF Becomes
<1> QED BY <1>1, RequestsTyped DEF Replaced

LEMMA NoRequestTyped ==
    /\ NoRequest \in BrowserRequests
    /\ NoRequest.pc = "idle" /\ NoRequest.post = "api" /\ NoRequest.for = "api" /\ NoRequest.token = 0
BY ZeroToken DEF NoRequest, BrowserRequests, Endpoints

LEMMA SentTyped ==
    ASSUME NEW url \in Endpoints, NEW for \in Endpoints, NEW retry \in BOOLEAN, NEW jar \in Tokens
    PROVE  /\ Sent(url, for, retry, jar) \in BrowserRequests
           /\ Sent(url, for, retry, jar).pc = "sent"
           /\ Sent(url, for, retry, jar).post = url
           /\ Sent(url, for, retry, jar).for = for
           /\ Sent(url, for, retry, jar).token = IF url \in {"api", "login"} THEN 0 ELSE jar
BY ZeroToken DEF Sent, BrowserRequests

LEMMA Clearing ==
    ASSUME ClientTypeOK, NEW t \in Tabs, NEW s \in Slots, Becomes(t, s, NoRequest)
    PROVE  Clears(t, s)
<1>1. Replaced(t, s) /\ req'[t][s] = NoRequest
  BY NoRequestTyped, Replacing
<1> QED BY <1>1, NoRequestTyped DEF Clears

LEMMA Sending ==
    ASSUME ClientTypeOK, NEW t \in Tabs, NEW s \in Slots,
           NEW url \in Endpoints, NEW for \in Endpoints, NEW retry \in BOOLEAN, NEW jar \in Tokens,
           Becomes(t, s, Sent(url, for, retry, jar))
    PROVE  Sends(t, s, url, for, jar)
<1>1. Replaced(t, s) /\ req'[t][s] = Sent(url, for, retry, jar)
  BY SentTyped, Replacing
<1> QED BY <1>1, SentTyped DEF Sends

LEMMA Moving ==
    ASSUME ClientTypeOK, NEW t \in Tabs, NEW s \in Slots,
           NEW pc \in {"queued", "granted", "refused"}, NEW token \in Tokens
    PROVE  /\ Becomes(t, s, [req[t][s] EXCEPT !.pc = pc, !.token = token]) => Moves(t, s, pc, token)
           /\ Becomes(t, s, [req[t][s] EXCEPT !.pc = pc]) => Moves(t, s, pc, req[t][s].token)
<1>0. req[t][s] \in BrowserRequests
  BY RequestsTyped
<1>1. ASSUME Becomes(t, s, [req[t][s] EXCEPT !.pc = pc, !.token = token])
      PROVE  Moves(t, s, pc, token)
  <2> DEFINE r == [req[t][s] EXCEPT !.pc = pc, !.token = token]
  <2>1. r \in BrowserRequests /\ r.pc = pc /\ r.token = token /\ r.post = req[t][s].post /\ r.for = req[t][s].for
    BY <1>0 DEF BrowserRequests
  <2> HIDE DEF r
  <2>2. Becomes(t, s, r)
    BY <1>1 DEF r
  <2>3. Replaced(t, s) /\ req'[t][s] = r
    BY <2>1, <2>2, Replacing
  <2> QED BY <2>1, <2>3 DEF Moves
<1>2. ASSUME Becomes(t, s, [req[t][s] EXCEPT !.pc = pc])
      PROVE  Moves(t, s, pc, req[t][s].token)
  <2> DEFINE r == [req[t][s] EXCEPT !.pc = pc]
  <2>1. /\ r \in BrowserRequests /\ r.pc = pc /\ r.token = req[t][s].token
        /\ r.post = req[t][s].post /\ r.for = req[t][s].for
    BY <1>0 DEF BrowserRequests
  <2> HIDE DEF r
  <2>2. Becomes(t, s, r)
    BY <1>2 DEF r
  <2>3. Replaced(t, s) /\ req'[t][s] = r
    BY <2>1, <2>2, Replacing
  <2> QED BY <2>1, <2>3 DEF Moves
<1> QED BY <1>1, <1>2

\* Loading a page leaves its tab with initAuth only.
Loads(t, jar) ==
    /\ req' \in [Tabs -> [Slots -> BrowserRequests]]
    /\ \A u \in Tabs \ {t}, q \in Slots : req'[u][q] = req[u][q]
    /\ \E first \in Slots :
        /\ req'[t][first].pc = "sent" /\ req'[t][first].post = "initAuth" /\ req'[t][first].for = "initAuth"
        /\ req'[t][first].token = jar
        /\ \A q \in Slots \ {first} :
               /\ req'[t][q].pc = "idle" /\ req'[t][q].post = "api" /\ req'[t][q].for = "api"
               /\ req'[t][q].token = 0

LEMMA Loading ==
    ASSUME ClientTypeOK, NEW t \in Tabs, NEW jar \in Tokens, Load(t, jar)
    PROVE  Loads(t, jar)
<1> DEFINE sent == Sent("initAuth", "initAuth", FALSE, jar)
<1>1. /\ sent \in BrowserRequests /\ sent.pc = "sent" /\ sent.post = "initAuth" /\ sent.for = "initAuth"
      /\ sent.token = jar
  BY DEF Sent, BrowserRequests, Endpoints
<1>2. PICK first \in Slots : req' = [req EXCEPT ![t] = [s \in Slots |-> IF s = first THEN sent ELSE NoRequest]]
  BY DEF Load
<1> HIDE DEF sent
<1>3. [s \in Slots |-> IF s = first THEN sent ELSE NoRequest] \in [Slots -> BrowserRequests]
  BY <1>1, NoRequestTyped
<1>4. req' \in [Tabs -> [Slots -> BrowserRequests]]
  BY <1>2, <1>3, RequestsTyped
<1>5. \A u \in Tabs \ {t}, q \in Slots : req'[u][q] = req[u][q]
  BY <1>2, RequestsTyped
<1>6. req'[t][first] = sent /\ \A q \in Slots \ {first} : req'[t][q] = NoRequest
  BY <1>2, RequestsTyped
<1> QED BY <1>1, <1>4, <1>5, <1>6, NoRequestTyped DEF Loads

\* The end of a refresh sends those in its queue for what they were for.
Resends(t, s) ==
    /\ req' \in [Tabs -> [Slots -> BrowserRequests]]
    /\ \A u \in Tabs \ {t}, q \in Slots : req'[u][q] = req[u][q]
    /\ \A q \in Slots : IF q = s \/ req[t][q].pc = "queued"
           THEN /\ req'[t][q].pc = "sent" /\ req'[t][q].post = req[t][q].for /\ req'[t][q].for = req[t][q].for
                /\ req'[t][q].token = IF req[t][q].for \in {"api", "login"} THEN 0 ELSE req[t][s].token
           ELSE req'[t][q] = req[t][q]

LEMMA Resending ==
    ASSUME ClientTypeOK, NEW t \in Tabs, NEW s \in Slots, Refreshed(t, s)
    PROVE  Resends(t, s) /\ cookie' = req[t][s].token
<1> DEFINE again(q) == Sent(req[t][q].for, req[t][q].for, req[t][q].retry, cookie')
<1>0. cookie' = req[t][s].token /\ cookie' \in Tokens
  BY RequestsTyped DEF Refreshed, BrowserRequests
<1>1. \A q \in Slots : /\ again(q) \in BrowserRequests /\ again(q).pc = "sent"
                       /\ again(q).post = req[t][q].for /\ again(q).for = req[t][q].for
                       /\ again(q).token = IF req[t][q].for \in {"api", "login"} THEN 0 ELSE cookie'
  <2> SUFFICES ASSUME NEW q \in Slots
               PROVE  /\ again(q) \in BrowserRequests /\ again(q).pc = "sent"
                      /\ again(q).post = req[t][q].for /\ again(q).for = req[t][q].for
                      /\ again(q).token = IF req[t][q].for \in {"api", "login"} THEN 0 ELSE cookie'
    OBVIOUS
  <2>1. req[t][q].for \in Endpoints /\ req[t][q].retry \in BOOLEAN
    BY RequestsTyped DEF BrowserRequests
  <2> QED BY <1>0, <2>1, SentTyped
<1>2. req' = [req EXCEPT ![t] = [q \in Slots |-> IF q \in ProcessQueue(t, s) THEN again(q) ELSE req[t][q]]]
  BY DEF Refreshed
<1>3. \A q \in Slots : q \in ProcessQueue(t, s) <=> q = s \/ req[t][q].pc = "queued"
  BY DEF ProcessQueue
<1> HIDE DEF again
<1>4. [q \in Slots |-> IF q \in ProcessQueue(t, s) THEN again(q) ELSE req[t][q]] \in [Slots -> BrowserRequests]
  BY <1>1, RequestsTyped
<1>5. req' \in [Tabs -> [Slots -> BrowserRequests]]
  BY <1>2, <1>4, RequestsTyped
<1>6. \A u \in Tabs \ {t}, q \in Slots : req'[u][q] = req[u][q]
  BY <1>2, RequestsTyped
<1>7. \A q \in Slots : req'[t][q] = IF q = s \/ req[t][q].pc = "queued" THEN again(q) ELSE req[t][q]
  BY <1>2, <1>3, RequestsTyped
<1> QED BY <1>0, <1>1, <1>5, <1>6, <1>7 DEF Resends

\* The types, where only requests and isRefreshing change.
LEMMA BrowserTypes ==
    ASSUME ClientTypeOK, req' \in [Tabs -> [Slots -> BrowserRequests]],
           live' \subseteq Tokens \ {0}, issued' \in Tokens, cookie' \in Tokens,
           signedIn' \subseteq Tabs, refreshing' \subseteq Tabs, open' \subseteq Tabs,
           blame' \subseteq {"fault", "ended", "hasty"}
    PROVE  ClientTypeOK'
BY DEF ClientTypeOK, BrowserRequests

\* A step that changes one request, and isRefreshing of its tab at most.
LEMMA OthersWait ==
    ASSUME QueueInv, ClientTypeOK', NEW t \in Tabs, NEW s \in Slots, Replaced(t, s),
           \A u \in Tabs \ {t} : u \in refreshing' <=> u \in refreshing,
           Posted(t, s)', OneRefresh(t)'
    PROVE  QueueInv'
<1>1. \A u \in Tabs, q \in Slots : Posted(u, q)'
  BY DEF QueueInv, Posted, Replaced
<1>2. \A u \in Tabs \ {t} : OneRefresh(u)'
  BY DEF QueueInv, OneRefresh, Refreshes, Active, Replaced
<1> QED BY <1>1, <1>2 DEF QueueInv

\* It goes on refreshing, or not, as before.
LEMMA SameRefresh ==
    ASSUME QueueInv, ClientTypeOK', NEW t \in Tabs, NEW s \in Slots, Replaced(t, s),
           refreshing' = refreshing, Posted(t, s)', Refreshes(t, s)' <=> Refreshes(t, s),
           req'[t][s].pc = "queued" => t \in refreshing
    PROVE  QueueInv'
<1>1. \A q \in Slots : Refreshes(t, q)' <=> Refreshes(t, q)
  BY DEF Refreshes, Active, Replaced
<1>2. \A q \in Slots : req'[t][q].pc = "queued" => t \in refreshing
  BY DEF QueueInv, OneRefresh, Replaced
<1>3. OneRefresh(t)'
  BY <1>1, <1>2 DEF QueueInv, OneRefresh
<1> QED BY <1>3, OthersWait

LEMMA LoadedTab ==
    ASSUME QueueInv, ClientTypeOK', NEW t \in Tabs, NEW jar, Loads(t, jar), refreshing' = refreshing \ {t}
    PROVE  QueueInv'
<1>1. \A u \in Tabs, q \in Slots : Posted(u, q)'
  BY DEF QueueInv, Posted, Loads
<1>2. OneRefresh(t)'
  BY DEF OneRefresh, Refreshes, Active, Loads
<1>3. ASSUME NEW u \in Tabs \ {t}
      PROVE  OneRefresh(u)'
  <2>1. \A q \in Slots : req'[u][q] = req[u][q]
    BY DEF Loads
  <2>2. u \in refreshing' <=> u \in refreshing
    OBVIOUS
  <2> QED BY <2>1, <2>2 DEF QueueInv, OneRefresh, Refreshes, Active
<1> QED BY <1>1, <1>2, <1>3 DEF QueueInv

\* Every step of a page, a request or the server keeps the queues attended.
LEMMA QueueStep == QueueInv /\ [ClientNext]_clientVars => QueueInv'
<1> SUFFICES ASSUME QueueInv, [ClientNext]_clientVars PROVE QueueInv'
  OBVIOUS
<1>t. /\ ClientTypeOK
      /\ live \subseteq Tokens \ {0} /\ issued \in Tokens /\ cookie \in Tokens
      /\ signedIn \subseteq Tabs /\ refreshing \subseteq Tabs /\ open \subseteq Tabs
      /\ blame \subseteq {"fault", "ended", "hasty"}
      /\ req \in [Tabs -> [Slots -> BrowserRequests]]
      /\ \A t \in Tabs, s \in Slots : req[t][s].token \in Tokens /\ req[t][s].for \in Endpoints
  BY RequestsTyped DEF QueueInv, ClientTypeOK, BrowserRequests
<1>p. \A t \in Tabs, s \in Slots : Posted(t, s)
  BY DEF QueueInv
\* A request that was sent moves on, or ends.
<1>m. ASSUME NEW t \in Tabs, NEW s \in Slots, NEW pc \in {"granted", "refused"}, NEW token \in Tokens, Moves(t, s, pc, token),
             Active(t, s), ClientTypeOK', refreshing' = refreshing
      PROVE  QueueInv'
  <2>1. Posted(t, s)' /\ (Refreshes(t, s)' <=> Refreshes(t, s)) /\ Replaced(t, s)
    BY <1>m, <1>p DEF Posted, Moves, Refreshes, Active
  <2>2. req'[t][s].pc # "queued"
    BY <1>m DEF Moves
  <2> QED BY <1>m, <2>1, <2>2, SameRefresh
<1>c. ASSUME NEW t \in Tabs, NEW s \in Slots, Clears(t, s), ~Refreshes(t, s), ClientTypeOK', refreshing' = refreshing
      PROVE  QueueInv'
  <2>1. Posted(t, s)' /\ ~Refreshes(t, s)' /\ Replaced(t, s) /\ req'[t][s].pc # "queued"
    BY <1>c DEF Posted, Clears, Refreshes, Active
  <2> QED BY <1>c, <2>1, SameRefresh
<1>1. CASE UNCHANGED clientVars
  BY <1>1 DEF QueueInv, ClientTypeOK, Posted, OneRefresh, Refreshes, Active, clientVars
<1>2. CASE Revoke
  <2>1. UNCHANGED <<req, refreshing>> /\ ClientTypeOK'
    BY <1>2, <1>t, BrowserTypes DEF Revoke
  <2> QED BY <2>1 DEF QueueInv, Posted, OneRefresh, Refreshes, Active
<1>3. ASSUME NEW t \in Tabs, Open(t)
      PROVE  QueueInv'
  <2>1. Loads(t, cookie) /\ refreshing' = refreshing \ {t}
    BY <1>3, <1>t, Loading DEF Open, Load
  <2>2. ClientTypeOK'
    BY <1>3, <1>t, <2>1, BrowserTypes DEF Open, Load, Loads
  <2> QED BY <2>1, <2>2, LoadedTab
<1>4. ASSUME NEW t \in Tabs, NEW s \in Slots, RefreshFails(t, s)
      PROVE  QueueInv'
  <2>1. Loads(t, cookie) /\ refreshing' = refreshing \ {t} /\ cookie' = cookie
    <3>1. cookie' = cookie /\ Load(t, cookie')
      BY <1>4 DEF RefreshFails, CookieAfterRefusal
    <3>2. Load(t, cookie)
      BY <3>1
    <3> QED BY <3>1, <3>2, <1>t, Loading DEF Load
  <2>2. ClientTypeOK'
    BY <1>4, <1>t, <2>1, BrowserTypes DEF RefreshFails, Load, Loads
  <2> QED BY <2>1, <2>2, LoadedTab
<1>5. ASSUME NEW t \in Tabs, NEW s \in Slots, NEW url \in {"api", "logout", "login"}, Request(t, s, url)
      PROVE  QueueInv'
  <2>1. Sends(t, s, url, url, cookie)
    <3>1. Becomes(t, s, Sent(url, url, FALSE, cookie)) /\ url \in Endpoints /\ FALSE \in BOOLEAN
      BY <1>5 DEF Request, Endpoints
    <3> QED BY <3>1, <1>t, Sending
  <2>2. ClientTypeOK'
    BY <1>5, <1>t, <2>1, BrowserTypes DEF Request, Sends, Replaced
  <2>3. Posted(t, s)' /\ ~Refreshes(t, s)' /\ ~Refreshes(t, s) /\ Replaced(t, s) /\ req'[t][s].pc # "queued"
    BY <1>5, <2>1 DEF Posted, Sends, Refreshes, Active, Request
  <2> QED BY <1>5, <2>2, <2>3, SameRefresh DEF Request
<1>6. ASSUME NEW t \in Tabs, NEW s \in Slots,
             ServeRefresh(t, s) \/ ServeLogin(t, s) \/ ServeApi(t, s) \/ ServeLogout(t, s)
      PROVE  QueueInv'
  <2>1. Active(t, s) /\ refreshing' = refreshing
    BY <1>6 DEF ServeRefresh, ServeLogin, ServeApi, ServeLogout, InFlight, Active
  <2>2. ClientTypeOK' /\ (Clears(t, s) => ~Refreshes(t, s))
        /\ (Clears(t, s) \/ \E pc \in {"granted", "refused"}, token \in Tokens : Moves(t, s, pc, token))
    <3>1. ASSUME NEW used, Grant(t, s, used), UNCHANGED <<cookie, signedIn, open, blame>>
          PROVE  ClientTypeOK' /\ Moves(t, s, "granted", issued + 1) /\ issued + 1 \in Tokens
      <4>1. issued + 1 \in Tokens \ {0} /\ issued' = issued + 1 /\ live' \subseteq Tokens \ {0}
        BY <3>1, <1>t, ZeroToken DEF Grant, Tokens
      <4>2. Moves(t, s, "granted", issued + 1)
        BY <3>1, <4>1, <1>t, Moving DEF Grant
      <4> QED BY <3>1, <1>t, <2>1, <4>1, <4>2, BrowserTypes DEF Moves, Replaced
    <3>2. ASSUME Refuse(t, s), UNCHANGED <<cookie, signedIn, open, blame>>
          PROVE  ClientTypeOK' /\ Moves(t, s, "refused", req[t][s].token)
      <4>1. Moves(t, s, "refused", req[t][s].token)
        BY <3>2, <1>t, Moving DEF Refuse
      <4> QED BY <3>2, <1>t, <2>1, <4>1, BrowserTypes DEF Moves, Replaced, Refuse
    <3>3. ASSUME Becomes(t, s, NoRequest), live' \subseteq live, issued' = issued, cookie' \in {cookie, 0},
                 signedIn' \subseteq signedIn, UNCHANGED open, blame' \subseteq blame \cup {"ended"}
          PROVE  ClientTypeOK' /\ Clears(t, s)
      <4>1. Clears(t, s)
        BY <3>3, <1>t, Clearing
      <4> QED BY <3>3, <1>t, <2>1, <4>1, ZeroToken, BrowserTypes DEF Clears, Replaced
    <3>4. CASE ServeRefresh(t, s)
      BY <3>4, <3>1, <3>2, <1>t DEF ServeRefresh, Moves, Clears
    <3>5. CASE ServeLogin(t, s)
      BY <3>5, <3>1, <3>2, <1>t DEF ServeLogin, Moves, Clears
    <3>6. CASE ServeApi(t, s)
      BY <3>6, <3>2, <3>3, <1>t DEF ServeApi, InFlight, Refreshes
    <3>7. CASE ServeLogout(t, s)
      BY <3>7, <3>2, <3>3, <1>t DEF ServeLogout, InFlight, Refreshes
    <3> QED BY <1>6, <3>4, <3>5, <3>6, <3>7
  <2> QED BY <2>1, <2>2, <1>m, <1>c
<1>7. ASSUME NEW t \in Tabs, NEW s \in Slots, Receive(t, s)
      PROVE  QueueInv'
  <2>1. Clears(t, s) /\ ~Refreshes(t, s)
    BY <1>7, <1>t, Clearing DEF Receive, Refreshes
  <2>2. ClientTypeOK'
    BY <1>7, <1>t, <2>1, BrowserTypes DEF Receive, Clears, Replaced
  <2> QED BY <1>7, <2>1, <2>2, <1>c DEF Receive
<1>8. ASSUME NEW t \in Tabs, NEW s \in Slots, Fault(t, s)
      PROVE  QueueInv'
  <2>1. CASE req[t][s].post = "refresh"
    <3>1. Moves(t, s, "refused", req[t][s].token)
      BY <1>8, <2>1, <1>t, Moving DEF Fault, Refuse
    <3>2. ClientTypeOK' /\ Active(t, s) /\ refreshing' = refreshing
      BY <1>8, <2>1, <1>t, <3>1, BrowserTypes DEF Fault, Refuse, Moves, Replaced, Active
    <3> QED BY <3>1, <3>2, <1>t, <1>m
  <2>2. CASE req[t][s].post # "refresh"
    <3>1. Clears(t, s) /\ ~Refreshes(t, s)
      BY <1>8, <2>2, <1>t, Clearing DEF Fault, Reject, Refreshes
    <3>2. ClientTypeOK' /\ refreshing' = refreshing
      BY <1>8, <2>2, <1>t, <3>1, BrowserTypes DEF Fault, Reject, Clears, Replaced
    <3> QED BY <3>1, <3>2, <1>c
  <2> QED BY <2>1, <2>2
<1>9. ASSUME NEW t \in Tabs, NEW s \in Slots, Unauthorized(t, s)
      PROVE  QueueInv'
  <2>1. req[t][s].pc = "refused" /\ req[t][s].post # "refresh" /\ ~Refreshes(t, s)
        /\ UNCHANGED <<live, issued, cookie, open, blame>>
    BY <1>9 DEF Unauthorized, Answered, Refreshes
  <2>2. CASE Reject(t, s) /\ UNCHANGED refreshing
    <3>1. Clears(t, s)
      BY <2>2, <1>t, Clearing DEF Reject
    <3>2. ClientTypeOK'
      BY <2>1, <2>2, <1>t, <3>1, BrowserTypes DEF Reject, Clears, Replaced
    <3> QED BY <2>1, <2>2, <3>1, <3>2, <1>c
  <2>3. CASE /\ Becomes(t, s, [req[t][s] EXCEPT !.pc = "queued", !.token = 0])
             /\ UNCHANGED <<signedIn, refreshing>> /\ t \in refreshing
    <3>1. Moves(t, s, "queued", 0)
      BY <2>3, <1>t, ZeroToken, Moving
    <3>2. ClientTypeOK'
      BY <2>1, <2>3, <1>t, <3>1, BrowserTypes DEF Moves, Replaced
    <3>3. Posted(t, s)' /\ ~Refreshes(t, s)' /\ Replaced(t, s)
      BY <2>1, <3>1, <1>p DEF Posted, Moves, Refreshes
    <3> QED BY <2>1, <2>3, <3>2, <3>3, SameRefresh
  <2>4. CASE /\ Becomes(t, s, Sent("refresh", req[t][s].for, TRUE, cookie))
             /\ refreshing' = refreshing \cup {t} /\ UNCHANGED signedIn /\ t \notin refreshing
    <3>1. Sends(t, s, "refresh", req[t][s].for, cookie)
      <4>1. "refresh" \in Endpoints /\ TRUE \in BOOLEAN
        BY DEF Endpoints
      <4> QED BY <2>4, <4>1, <1>t, Sending
    <3>2. ClientTypeOK'
      BY <2>1, <2>4, <1>t, <3>1, BrowserTypes DEF Sends, Replaced
    <3>3. Posted(t, s)' /\ Replaced(t, s)
      BY <3>1, <1>p DEF Posted, Sends
    <3>4. \A q \in Slots : ~Refreshes(t, q) /\ req[t][q].pc # "queued"
      BY <2>4 DEF QueueInv, OneRefresh
    <3>5. \A q \in Slots : (Refreshes(t, q)' <=> q = s) /\ req'[t][q].pc # "queued"
      BY <3>1, <3>4 DEF Refreshes, Active, Sends, Replaced
    <3>6. OneRefresh(t)'
      BY <2>4, <3>5 DEF OneRefresh
    <3> QED BY <2>4, <3>2, <3>3, <3>6, OthersWait
  <2> QED BY <1>9, <2>2, <2>3, <2>4 DEF Unauthorized, IsRefreshing
<1>10. ASSUME NEW t \in Tabs, NEW s \in Slots, Refreshed(t, s)
       PROVE  QueueInv'
  <2>1. Resends(t, s) /\ cookie' = req[t][s].token
    BY <1>10, <1>t, Resending
  <2>2. refreshing' = refreshing \ {t} /\ Refreshes(t, s)
    BY <1>10 DEF Refreshed, Answered, Refreshes, Active
  <2>3. ClientTypeOK'
    BY <1>10, <1>t, <2>1, BrowserTypes DEF Refreshed, Resends
  <2>4. \A u \in Tabs \ {t} : OneRefresh(u)' /\ \A q \in Slots : Posted(u, q)'
    BY <2>1, <2>2 DEF QueueInv, OneRefresh, Refreshes, Active, Posted, Resends
  <2>5. \A q \in Slots : Posted(t, q)'
    BY <2>1, <1>p DEF Posted, Resends
  <2>6. \A q \in Slots : q # s => ~Refreshes(t, q)
    BY <2>2 DEF QueueInv, OneRefresh
  <2>7. \A q \in Slots : ~Refreshes(t, q)' /\ req'[t][q].pc # "queued"
    BY <2>1, <2>6, <1>p DEF Refreshes, Active, Resends, Posted
  <2>8. OneRefresh(t)'
    BY <2>2, <2>7 DEF OneRefresh
  <2> QED BY <2>3, <2>4, <2>5, <2>8 DEF QueueInv
<1> QED BY <1>1, <1>2, <1>3, <1>4, <1>5, <1>6, <1>7, <1>8, <1>9, <1>10 DEF ClientNext

LEMMA QueueInductive == ClientSpec => []QueueInv
<1>1. ClientInit => QueueInv
  BY ZeroToken DEF ClientInit, QueueInv, ClientTypeOK, Posted, OneRefresh, Refreshes, Active, NoRequest, Endpoints
<1> QED BY <1>1, QueueStep, PTL DEF ClientSpec

\* The types of the browser's state.
THEOREM BrowserTypeCorrect == ClientSpec => []ClientTypeOK
<1>1. QueueInv => ClientTypeOK
  BY DEF QueueInv
<1> QED BY <1>1, QueueInductive, PTL

\* A request that waits in failedQueue waits for a refresh under way, in any
\* number of tabs with any number of requests: isRefreshing stands for exactly
\* one refresh, and whatever ends that one empties the queue or the page.
THEOREM QueueIsAttended == ClientSpec => []NobodyLeftWaiting
<1>1. QueueInv => NobodyLeftWaiting
  BY DEF QueueInv, OneRefresh, NobodyLeftWaiting, Refreshes, Active
<1> QED BY <1>1, QueueInductive, PTL
-----------------------------------------------------------------------------
\* A step that grants nothing, and leaves the tokens of the server and the cookie.
LEMMA NothingGranted ==
    ASSUME QueueInv, QueueInv', TokensInv, NEW t \in Tabs, NEW s \in Slots, Replaced(t, s),
           req'[t][s].pc # "granted", req'[t][s].token \in {0, cookie, req[t][s].token},
           UNCHANGED <<live, issued, cookie>>, blame \subseteq blame',
           req[t][s].pc = "granted" => "fault" \in blame'
    PROVE  TokensInv'
<1>1. \A u \in Tabs, q \in Slots : req'[u][q].pc = "granted" => (u # t \/ q # s) /\ req'[u][q] = req[u][q]
  BY DEF Replaced
<1>0. issued \in Nat
  BY ZeroToken DEF QueueInv, ClientTypeOK, Tokens
<1>2. TokensIssued'
  <2>1. req'[t][s].token <= issued
    BY <1>0 DEF TokensInv, TokensIssued
  <2> QED BY <2>1 DEF TokensInv, TokensIssued, Replaced
<1>3. GrantedOnce'
  <2> SUFFICES ASSUME NEW u \in Tabs, NEW q \in Slots, req'[u][q].pc = "granted"
               PROVE  /\ req'[u][q].token # cookie
                      /\ \A v \in Tabs, p \in Slots : (v # u \/ p # q) => req'[v][p].token # req'[u][q].token
    BY DEF GrantedOnce
  <2>1. req'[u][q] = req[u][q] /\ (u # t \/ q # s)
    BY <1>1
  <2>2. /\ req[u][q].token # cookie /\ req[u][q].token # 0
        /\ \A v \in Tabs, p \in Slots : (v # u \/ p # q) => req[v][p].token # req[u][q].token
    BY <2>1 DEF TokensInv, GrantedOnce, GrantedIsLive
  <2>3. req'[t][s].token # req[u][q].token
    BY <2>1, <2>2
  <2>4. ASSUME NEW v \in Tabs, NEW p \in Slots, v # u \/ p # q
        PROVE  req'[v][p].token # req'[u][q].token
    <3>1. CASE v = t /\ p = s
      BY <3>1, <2>1, <2>3
    <3>2. CASE v # t \/ p # s
      BY <3>2, <2>1, <2>2, <2>4 DEF Replaced
    <3> QED BY <3>1, <3>2
  <2> QED BY <2>1, <2>2, <2>4
<1>4. GrantedIsLive'
  BY <1>1 DEF TokensInv, GrantedIsLive
<1>5. SessionKept'
  <2> SUFFICES ASSUME {"fault", "ended"} \cap blame' = {}, live # {}, cookie \notin live
               PROVE  \E u \in Tabs, q \in Slots : req'[u][q].pc = "granted" /\ req'[u][q].token \in live
    BY DEF SessionKept, Answered
  <2>1. {"fault", "ended"} \cap blame = {} /\ "fault" \notin blame'
    OBVIOUS
  <2>2. PICK u \in Tabs, q \in Slots : req[u][q].pc = "granted" /\ req[u][q].token \in live
    BY <2>1 DEF TokensInv, SessionKept, Answered
  <2>3. u # t \/ q # s
    BY <2>1, <2>2
  <2>4. req'[u][q] = req[u][q]
    BY <2>3 DEF Replaced
  <2> QED BY <2>2, <2>4
<1> QED BY <1>2, <1>3, <1>4, <1>5 DEF TokensInv

\* The next token goes to one request, whose own token may be used up.
LEMMA NextGranted ==
    ASSUME QueueInv, QueueInv', TokensInv, NEW t \in Tabs, NEW s \in Slots, NEW used,
           req[t][s].pc = "sent", Moves(t, s, "granted", issued + 1),
           issued' = issued + 1, live' = (live \ used) \cup {issued + 1}, used \subseteq {req[t][s].token},
           UNCHANGED <<cookie, blame>>
    PROVE  TokensInv'
<1>0. issued \in Nat /\ req'[t][s].token = issued + 1 /\ req'[t][s].pc = "granted" /\ cookie \in Nat
      /\ \A u \in Tabs, q \in Slots : req[u][q].token \in Nat /\ req[u][q].token <= issued
  BY ZeroToken, RequestsTyped DEF QueueInv, ClientTypeOK, Tokens, Moves, BrowserRequests, TokensInv, TokensIssued
<1>r. \A u \in Tabs, q \in Slots : (u # t \/ q # s) => req'[u][q] = req[u][q]
  BY DEF Moves, Replaced
<1>1. TokensIssued'
  <2>1. \A token \in live' : token <= issued + 1
    BY <1>0 DEF TokensInv, TokensIssued, QueueInv, ClientTypeOK, Tokens
  <2>2. cookie <= issued + 1
    BY <1>0 DEF TokensInv, TokensIssued
  <2>3. ASSUME NEW u \in Tabs, NEW q \in Slots
        PROVE  req'[u][q].token <= issued + 1
    <3>1. CASE u = t /\ q = s
      BY <3>1, <1>0
    <3>2. CASE u # t \/ q # s
      BY <3>2, <1>0, <1>r
    <3> QED BY <3>1, <3>2
  <2> QED BY <2>1, <2>2, <2>3 DEF TokensIssued
<1>2. GrantedOnce'
  <2> SUFFICES ASSUME NEW u \in Tabs, NEW q \in Slots, req'[u][q].pc = "granted"
               PROVE  /\ req'[u][q].token # cookie
                      /\ \A v \in Tabs, p \in Slots : (v # u \/ p # q) => req'[v][p].token # req'[u][q].token
    BY DEF GrantedOnce
  <2>1. CASE u = t /\ q = s
    <3>1. cookie # issued + 1
      BY <1>0 DEF TokensInv, TokensIssued
    <3>2. ASSUME NEW v \in Tabs, NEW p \in Slots, v # t \/ p # s
          PROVE  req'[v][p].token # issued + 1
      BY <3>2, <1>0, <1>r
    <3> QED BY <2>1, <3>1, <3>2, <1>0
  <2>2. CASE u # t \/ q # s
    <3>1. req'[u][q] = req[u][q]
      BY <2>2, <1>r
    <3>2. /\ req[u][q].token # cookie /\ req[u][q].token # issued + 1
          /\ \A v \in Tabs, p \in Slots : (v # u \/ p # q) => req[v][p].token # req[u][q].token
      BY <3>1, <1>0 DEF TokensInv, GrantedOnce
    <3>3. ASSUME NEW v \in Tabs, NEW p \in Slots, v # u \/ p # q
          PROVE  req'[v][p].token # req'[u][q].token
      <4>1. CASE v = t /\ p = s
        BY <4>1, <3>1, <3>2, <1>0
      <4>2. CASE v # t \/ p # s
        BY <4>2, <3>1, <3>2, <3>3, <1>r
      <4> QED BY <4>1, <4>2
    <3> QED BY <3>1, <3>2, <3>3
  <2> QED BY <2>1, <2>2
<1>3. GrantedIsLive'
  <2> SUFFICES ASSUME NEW u \in Tabs, NEW q \in Slots, req'[u][q].pc = "granted"
               PROVE  req'[u][q].token # 0 /\ ("ended" \notin blame => req'[u][q].token \in live')
    BY DEF GrantedIsLive
  <2>1. CASE u = t /\ q = s
    BY <2>1, <1>0
  <2>2. CASE u # t \/ q # s
    <3>1. req'[u][q] = req[u][q] /\ req[t][s].token # req[u][q].token
      BY <2>2, <1>r DEF TokensInv, GrantedOnce
    <3> QED BY <3>1 DEF TokensInv, GrantedIsLive
  <2> QED BY <2>1, <2>2
<1>4. SessionKept'
  BY <1>0 DEF SessionKept, Answered
<1> QED BY <1>1, <1>2, <1>3, <1>4 DEF TokensInv

\* A granted token goes into the cookie, and with requests sent with it.
LEMMA GrantReceived ==
    ASSUME QueueInv, QueueInv', TokensInv, NEW t \in Tabs, NEW s \in Slots, req[t][s].pc = "granted",
           \A u \in Tabs, q \in Slots :
               \/ req'[u][q] = req[u][q] /\ (u # t \/ q # s)
               \/ req'[u][q].pc # "granted" /\ req'[u][q].token \in {0, req[t][s].token},
           cookie' = req[t][s].token, UNCHANGED <<live, issued, blame>>
    PROVE  TokensInv'
<1>0. issued \in Nat
  BY ZeroToken DEF QueueInv, ClientTypeOK, Tokens
<1>1. \A u \in Tabs, q \in Slots : req'[u][q].pc = "granted" => (u # t \/ q # s) /\ req'[u][q] = req[u][q]
  OBVIOUS
<1>2. TokensIssued'
  <2>1. \A u \in Tabs, q \in Slots : req'[u][q].token <= issued
    BY <1>0 DEF TokensInv, TokensIssued
  <2> QED BY <2>1 DEF TokensInv, TokensIssued
<1>3. GrantedOnce'
  <2> SUFFICES ASSUME NEW u \in Tabs, NEW q \in Slots, req'[u][q].pc = "granted"
               PROVE  /\ req'[u][q].token # cookie'
                      /\ \A v \in Tabs, p \in Slots : (v # u \/ p # q) => req'[v][p].token # req'[u][q].token
    BY DEF GrantedOnce
  <2>1. req'[u][q] = req[u][q] /\ (u # t \/ q # s)
    BY <1>1
  <2>2. /\ req[u][q].token # req[t][s].token /\ req[u][q].token # 0
        /\ \A v \in Tabs, p \in Slots : (v # u \/ p # q) => req[v][p].token # req[u][q].token
    BY <2>1 DEF TokensInv, GrantedOnce, GrantedIsLive
  <2> QED BY <2>1, <2>2
<1>4. GrantedIsLive'
  BY <1>1 DEF TokensInv, GrantedIsLive
<1>5. SessionKept'
  BY DEF TokensInv, SessionKept, GrantedIsLive
<1> QED BY <1>2, <1>3, <1>4, <1>5 DEF TokensInv

\* A page that is loaded takes the cookie along; what was granted to the page
\* before it is lost.
LEMMA LoadTokens ==
    ASSUME QueueInv, QueueInv', TokensInv, NEW t \in Tabs, Loads(t, cookie), UNCHANGED <<live, issued, cookie>>,
           blame' = IF \E s \in Slots : req[t][s].pc = "granted" THEN blame \cup {"fault"} ELSE blame
    PROVE  TokensInv'
<1>0. issued \in Nat
  BY ZeroToken DEF QueueInv, ClientTypeOK, Tokens
<1>t. /\ \A q \in Slots : req'[t][q].pc # "granted" /\ req'[t][q].token \in {0, cookie}
      /\ \A u \in Tabs \ {t}, q \in Slots : req'[u][q] = req[u][q]
  BY DEF Loads
<1>1. \A u \in Tabs, q \in Slots : req'[u][q].pc = "granted" => u # t /\ req'[u][q] = req[u][q]
  BY <1>t
<1>2. TokensIssued'
  <2>1. ASSUME NEW u \in Tabs, NEW q \in Slots
        PROVE  req'[u][q].token <= issued
    <3>1. CASE u = t
      BY <3>1, <1>0, <1>t DEF TokensInv, TokensIssued
    <3>2. CASE u # t
      BY <3>2, <1>t DEF TokensInv, TokensIssued
    <3> QED BY <3>1, <3>2
  <2> QED BY <2>1 DEF TokensInv, TokensIssued
<1>3. GrantedOnce'
  <2> SUFFICES ASSUME NEW u \in Tabs, NEW q \in Slots, req'[u][q].pc = "granted"
               PROVE  /\ req'[u][q].token # cookie
                      /\ \A v \in Tabs, p \in Slots : (v # u \/ p # q) => req'[v][p].token # req'[u][q].token
    BY DEF GrantedOnce
  <2>1. req'[u][q] = req[u][q] /\ u # t
    BY <1>1
  <2>2. /\ req[u][q].token # cookie /\ req[u][q].token # 0
        /\ \A v \in Tabs, p \in Slots : (v # u \/ p # q) => req[v][p].token # req[u][q].token
    BY <2>1 DEF TokensInv, GrantedOnce, GrantedIsLive
  <2>3. ASSUME NEW v \in Tabs, NEW p \in Slots, v # u \/ p # q
        PROVE  req'[v][p].token # req'[u][q].token
    <3>1. CASE v = t
      BY <3>1, <1>t, <2>1, <2>2
    <3>2. CASE v # t
      BY <3>2, <1>t, <2>1, <2>2, <2>3
    <3> QED BY <3>1, <3>2
  <2> QED BY <2>1, <2>2, <2>3
<1>4. GrantedIsLive'
  BY <1>1 DEF TokensInv, GrantedIsLive
<1>5. SessionKept'
  <2> SUFFICES ASSUME {"fault", "ended"} \cap blame' = {}, live # {}, cookie \notin live
               PROVE  \E u \in Tabs, q \in Slots : req'[u][q].pc = "granted" /\ req'[u][q].token \in live
    BY DEF SessionKept, Answered
  <2>1. {"fault", "ended"} \cap blame = {} /\ \A q \in Slots : req[t][q].pc # "granted"
    OBVIOUS
  <2>2. PICK u \in Tabs, q \in Slots : req[u][q].pc = "granted" /\ req[u][q].token \in live
    BY <2>1 DEF TokensInv, SessionKept, Answered
  <2>3. u # t
    BY <2>1, <2>2
  <2> QED BY <2>2, <2>3, <1>t
<1> QED BY <1>2, <1>3, <1>4, <1>5 DEF TokensInv

\* Sessions are ended, and nothing is granted.
LEMMA SessionsEnded ==
    ASSUME QueueInv, QueueInv', TokensInv, live' \subseteq live, issued' = issued, cookie' \in {cookie, 0},
           "ended" \in blame',
           \A u \in Tabs, q \in Slots : req'[u][q] = req[u][q] \/ (req'[u][q].pc # "granted" /\ req'[u][q].token = 0)
    PROVE  TokensInv'
<1>0. issued \in Nat
  BY ZeroToken DEF QueueInv, ClientTypeOK, Tokens
<1>1. TokensIssued'
  BY <1>0 DEF TokensInv, TokensIssued
<1>2. GrantedOnce'
  BY DEF TokensInv, GrantedOnce, GrantedIsLive
<1>3. GrantedIsLive' /\ SessionKept'
  BY DEF TokensInv, GrantedIsLive, SessionKept
<1> QED BY <1>1, <1>2, <1>3 DEF TokensInv

LEMMA TokensStep == QueueInv /\ QueueInv' /\ TokensInv /\ [ClientNext]_clientVars => TokensInv'
<1> SUFFICES ASSUME QueueInv, QueueInv', TokensInv, [ClientNext]_clientVars PROVE TokensInv'
  OBVIOUS
<1>t. /\ ClientTypeOK /\ cookie \in Tokens
      /\ \A t \in Tabs, s \in Slots : req[t][s].token \in Tokens /\ req[t][s].for \in Endpoints
  BY RequestsTyped DEF QueueInv, ClientTypeOK, BrowserRequests
<1>1. CASE UNCHANGED clientVars
  BY <1>1 DEF TokensInv, TokensIssued, GrantedOnce, GrantedIsLive, SessionKept, Answered, clientVars
<1>2. CASE Revoke
  BY <1>2, SessionsEnded DEF Revoke
<1>3. ASSUME NEW t \in Tabs, Open(t)
      PROVE  TokensInv'
  BY <1>3, <1>t, Loading, LoadTokens DEF Open, Load, Answered
<1>4. ASSUME NEW t \in Tabs, NEW s \in Slots, RefreshFails(t, s)
      PROVE  TokensInv'
  <2>1. cookie' = cookie /\ Load(t, cookie') /\ UNCHANGED <<live, issued>>
    BY <1>4 DEF RefreshFails, CookieAfterRefusal
  <2>2. Load(t, cookie)
    BY <2>1
  <2>3. Loads(t, cookie)
    BY <2>2, <1>t, Loading
  <2> QED BY <2>1, <2>2, <2>3, LoadTokens DEF Load, Answered
<1>5. ASSUME NEW t \in Tabs, NEW s \in Slots, NEW url \in {"api", "logout", "login"}, Request(t, s, url)
      PROVE  TokensInv'
  <2>1. Sends(t, s, url, url, cookie)
    <3>1. Becomes(t, s, Sent(url, url, FALSE, cookie)) /\ url \in Endpoints /\ FALSE \in BOOLEAN
      BY <1>5 DEF Request, Endpoints
    <3> QED BY <3>1, <1>t, Sending
  <2>2. /\ UNCHANGED <<live, issued, cookie>> /\ blame \subseteq blame' /\ req[t][s].pc = "idle"
    BY <1>5 DEF Request
  <2> QED BY <2>1, <2>2, NothingGranted DEF Sends
<1>6. ASSUME NEW t \in Tabs, NEW s \in Slots, NEW used, Grant(t, s, used), UNCHANGED <<cookie, blame>>,
             req[t][s].pc = "sent", used \subseteq {req[t][s].token}
      PROVE  TokensInv'
  <2>1. issued + 1 \in Tokens
    BY <1>6, ZeroToken DEF Grant, QueueInv, ClientTypeOK, Tokens
  <2>2. Moves(t, s, "granted", issued + 1)
    BY <1>6, <1>t, <2>1, Moving DEF Grant
  <2> QED BY <1>6, <2>2, NextGranted DEF Grant
<1>7. ASSUME NEW t \in Tabs, NEW s \in Slots, Refuse(t, s), cookie' = cookie, blame \subseteq blame',
             req[t][s].pc = "granted" => "fault" \in blame'
      PROVE  TokensInv'
  <2>1. Moves(t, s, "refused", req[t][s].token)
    BY <1>7, <1>t, Moving DEF Refuse
  <2> QED BY <1>7, <2>1, NothingGranted DEF Refuse, Moves
<1>8. ASSUME NEW t \in Tabs, NEW s \in Slots, Becomes(t, s, NoRequest), UNCHANGED <<live, issued, cookie>>,
             blame \subseteq blame', req[t][s].pc = "granted" => "fault" \in blame'
      PROVE  TokensInv'
  <2>1. Clears(t, s)
    BY <1>8, <1>t, Clearing
  <2> QED BY <1>8, <2>1, NothingGranted DEF Clears
<1>9. ASSUME NEW t \in Tabs, NEW s \in Slots, ServeRefresh(t, s)
      PROVE  TokensInv'
  BY <1>9, <1>6, <1>7 DEF ServeRefresh, InFlight
<1>10. ASSUME NEW t \in Tabs, NEW s \in Slots, ServeLogin(t, s)
       PROVE  TokensInv'
  BY <1>10, <1>6, <1>7 DEF ServeLogin, InFlight
<1>11. ASSUME NEW t \in Tabs, NEW s \in Slots, ServeApi(t, s)
       PROVE  TokensInv'
  BY <1>11, <1>7, <1>8 DEF ServeApi, InFlight
<1>12. ASSUME NEW t \in Tabs, NEW s \in Slots, ServeLogout(t, s)
       PROVE  TokensInv'
  <2>1. CASE Becomes(t, s, NoRequest) /\ live' \subseteq live /\ cookie' = 0 /\ issued' = issued /\ "ended" \in blame'
    <3>1. Clears(t, s)
      BY <2>1, <1>t, Clearing
    <3>2. \A u \in Tabs, q \in Slots : req'[u][q] = req[u][q] \/ (req'[u][q].pc # "granted" /\ req'[u][q].token = 0)
      BY <3>1 DEF Clears, Replaced
    <3> QED BY <2>1, <3>2, SessionsEnded
  <2> QED BY <1>12, <2>1, <1>7 DEF ServeLogout, InFlight
<1>13. ASSUME NEW t \in Tabs, NEW s \in Slots, Receive(t, s)
       PROVE  TokensInv'
  <2>1. Clears(t, s)
    BY <1>13, <1>t, Clearing DEF Receive
  <2>2. \A u \in Tabs, q \in Slots :
               \/ req'[u][q] = req[u][q] /\ (u # t \/ q # s)
               \/ req'[u][q].pc # "granted" /\ req'[u][q].token \in {0, req[t][s].token}
    BY <2>1 DEF Clears, Replaced
  <2> QED BY <1>13, <2>2, GrantReceived DEF Receive, Answered
<1>14. ASSUME NEW t \in Tabs, NEW s \in Slots, Refreshed(t, s)
       PROVE  TokensInv'
  <2>1. Resends(t, s) /\ cookie' = req[t][s].token
    BY <1>14, <1>t, Resending
  <2>2. ASSUME NEW u \in Tabs, NEW q \in Slots
        PROVE  \/ req'[u][q] = req[u][q] /\ (u # t \/ q # s)
               \/ req'[u][q].pc # "granted" /\ req'[u][q].token \in {0, req[t][s].token}
    <3>1. CASE u # t
      BY <3>1, <2>1 DEF Resends
    <3>2. CASE u = t
      BY <3>2, <2>1 DEF Resends
    <3> QED BY <3>1, <3>2
  <2> QED BY <1>14, <2>1, <2>2, GrantReceived DEF Refreshed, Answered
<1>15. ASSUME NEW t \in Tabs, NEW s \in Slots, Fault(t, s)
       PROVE  TokensInv'
  BY <1>15, <1>7, <1>8 DEF Fault, Reject
<1>16. ASSUME NEW t \in Tabs, NEW s \in Slots, Unauthorized(t, s)
       PROVE  TokensInv'
  <2>1. req[t][s].pc = "refused" /\ UNCHANGED <<live, issued, cookie, blame>>
    BY <1>16 DEF Unauthorized, Answered
  <2>2. CASE Reject(t, s)
    BY <2>1, <2>2, <1>8 DEF Reject
  <2>3. CASE Becomes(t, s, [req[t][s] EXCEPT !.pc = "queued", !.token = 0])
    <3>1. Moves(t, s, "queued", 0)
      BY <2>3, <1>t, ZeroToken, Moving
    <3> QED BY <2>1, <3>1, NothingGranted DEF Moves
  <2>4. CASE Becomes(t, s, Sent("refresh", req[t][s].for, TRUE, cookie))
    <3>1. Sends(t, s, "refresh", req[t][s].for, cookie)
      <4>1. "refresh" \in Endpoints /\ TRUE \in BOOLEAN
        BY DEF Endpoints
      <4> QED BY <2>4, <4>1, <1>t, Sending
    <3> QED BY <2>1, <3>1, NothingGranted DEF Sends
  <2> QED BY <1>16, <2>2, <2>3, <2>4 DEF Unauthorized
<1> QED BY <1>1, <1>2, <1>3, <1>4, <1>5, <1>9, <1>10, <1>11, <1>12, <1>13, <1>14, <1>15, <1>16 DEF ClientNext

LEMMA TokensInductive == ClientSpec => []TokensInv
<1>1. ClientInit => TokensInv
  BY DEF ClientInit, TokensInv, TokensIssued, GrantedOnce, GrantedIsLive, SessionKept, NoRequest
<1> QED BY <1>1, QueueInductive, TokensStep, PTL DEF ClientSpec

\* Whatever tabs race for the refresh token, and in whatever order replies are
\* received: as long as nothing is lost and no session ended, the browser holds
\* a token that the server knows (refresh and refreshTokens against each other).
THEOREM SessionIsKept == ClientSpec => []SessionKept
<1>1. TokensInv => SessionKept
  BY DEF TokensInv
<1> QED BY <1>1, TokensInductive, PTL
-----------------------------------------------------------------------------
\* The only tab runs one exchange at a time.
LEMMA OneExchange ==
    ASSUME QueueInv, NEW t \in Tabs, AloneInv(t), NEW s \in Slots, NEW q \in Slots, Exchanges(t, s), Exchanges(t, q)
    PROVE  s = q
<1>1. Posted(t, s) /\ Posted(t, q) /\ OneRefresh(t)
  BY DEF QueueInv
<1>2. CASE req[t][s].post = "initAuth" \/ req[t][q].post = "initAuth"
  BY <1>1, <1>2 DEF Posted, AloneInv, Initialises, Exchanges
<1>3. CASE req[t][s].post = "refresh" /\ req[t][q].post = "refresh"
  BY <1>1, <1>3 DEF OneRefresh, Refreshes, Exchanges
<1> QED BY <1>2, <1>3 DEF Exchanges

\* A request that ends, or that is no exchange: the tokens sent stay live.
LEMMA OneLess ==
    ASSUME NEW t \in Tabs, AloneInv(t), NEW s \in Slots, Replaced(t, s), live \subseteq live',
           \/ ~Active(t, s)'
           \/ Active(t, s) /\ req'[t][s].for = req[t][s].for /\ (~Exchanges(t, s)' \/ req'[t][s].pc = "queued"),
           \/ cookie' \in live' \cup {0}
           \/ cookie' = cookie /\ ~(Exchanges(t, s) /\ req[t][s].pc = "granted")
    PROVE  AloneInv(t)'
<1>1. \A q \in Slots : q # s => req'[t][q] = req[t][q]
  BY DEF Replaced
<1>2. \A q \in Slots : (Active(t, q)' => Active(t, q)) /\ (Initialises(t, q)' => Initialises(t, q))
  BY <1>1 DEF Active, Initialises
<1>3. \A q \in Slots : Exchanges(t, q)' /\ req'[t][q].pc # "queued" => q # s /\ Exchanges(t, q) /\ req'[t][q] = req[t][q]
  BY <1>1 DEF Active, Exchanges
<1>4. cookie' \in live' \cup {0} \/ \E q \in Slots : Exchanges(t, q)' /\ req'[t][q].pc = "granted"
  <2>1. ASSUME NEW q \in Slots, q # s, Exchanges(t, q), req[t][q].pc = "granted"
        PROVE  Exchanges(t, q)' /\ req'[t][q].pc = "granted"
    BY <2>1, <1>1 DEF Exchanges, Active
  <2> QED BY <2>1 DEF AloneInv
<1> QED BY <1>2, <1>3, <1>4 DEF AloneInv

\* A page that is loaded: its cookie is live, for nothing was granted to it.
LEMMA LoadedAlone ==
    ASSUME NEW t \in Tabs, AloneInv(t), Loads(t, cookie), UNCHANGED <<live, cookie>>,
           \A s \in Slots : req[t][s].pc # "granted"
    PROVE  AloneInv(t)'
<1>1. cookie \in live \cup {0}
  BY DEF AloneInv
<1> QED BY <1>1 DEF AloneInv, Loads, Initialises, Exchanges, Active

\* What one step of a request does to the only tab.
LEMMA AloneStep ==
    ASSUME QueueInv, QueueInv', TokensInv, NEW t \in Tabs, AloneInv(t), blame = {}, blame' = {},
           NEW s \in Slots,
           \/ \E url \in {"api", "logout", "login"} : Request(t, s, url)
           \/ ServeRefresh(t, s) \/ ServeLogin(t, s) \/ ServeApi(t, s) \/ ServeLogout(t, s)
           \/ Receive(t, s) \/ Unauthorized(t, s) \/ Refreshed(t, s) \/ RefreshFails(t, s)
           \/ Fault(t, s)
    PROVE  AloneInv(t)'
<1>t. /\ ClientTypeOK /\ cookie \in Tokens /\ issued \in Nat
      /\ \A q \in Slots : req[t][q].token \in Tokens /\ req[t][q].for \in Endpoints
  BY RequestsTyped, ZeroToken DEF QueueInv, ClientTypeOK, BrowserRequests, Tokens
<1>p. \A q \in Slots : Posted(t, q)
  BY DEF QueueInv
<1>l. \A q \in Slots : req[t][q].pc = "granted" => req[t][q].token \in live
  BY DEF TokensInv, GrantedIsLive
<1>1. ASSUME NEW url \in {"api", "logout", "login"}, Request(t, s, url)
      PROVE  AloneInv(t)'
  <2>1. Sends(t, s, url, url, cookie)
    <3>1. Becomes(t, s, Sent(url, url, FALSE, cookie)) /\ url \in Endpoints /\ FALSE \in BOOLEAN
      BY <1>1 DEF Request, Endpoints
    <3> QED BY <3>1, <1>t, Sending
  <2>2. ~Active(t, s) /\ UNCHANGED <<live, cookie>>
    BY <1>1 DEF Request, Active
  <2>3. ~Hydrating(t)
    BY <1>1 DEF Request
  <2>4. \A q \in Slots : ~Initialises(t, q)
    BY <2>3 DEF Hydrating, Initialises, Active
  <2>5. ~Initialises(t, s)' /\ ~Exchanges(t, s)'
    BY <2>1 DEF Sends, Initialises, Exchanges
  <2>6. \A q \in Slots : q # s => req'[t][q] = req[t][q]
    BY <2>1 DEF Sends, Replaced
  <2>7. \A q \in Slots : ~Initialises(t, q)' /\ (Exchanges(t, q)' <=> Exchanges(t, q))
    BY <2>2, <2>4, <2>5, <2>6 DEF Initialises, Exchanges, Active
  <2>8. \A q \in Slots : Exchanges(t, q) => req'[t][q] = req[t][q]
    BY <2>2, <2>6 DEF Exchanges
  <2> QED BY <2>2, <2>7, <2>8 DEF AloneInv
<1>2. CASE ServeRefresh(t, s)
  <2>1. Exchanges(t, s) /\ req[t][s].pc = "sent" /\ cookie' = cookie
    BY <1>2 DEF ServeRefresh, InFlight, Exchanges, Active
  <2>2. \A q \in Slots : q # s => ~Exchanges(t, q)
    BY <2>1, OneExchange
  <2>3. cookie \in live \cup {0} /\ req[t][s].token \in live \cup {0}
    BY <2>1, <2>2 DEF AloneInv
  <2>m. ASSUME NEW pc \in {"granted", "refused"}, NEW token \in Tokens, Moves(t, s, pc, token)
        PROVE  /\ \A q \in Slots : q # s => ~Exchanges(t, q)'
               /\ \A q \in Slots : (Active(t, q)' <=> Active(t, q)) /\ (Initialises(t, q)' <=> Initialises(t, q))
               /\ Exchanges(t, s)' /\ req'[t][s].pc = pc /\ req'[t][s].token = token
    BY <2>m, <2>1, <2>2 DEF Moves, Replaced, Exchanges, Initialises, Active
  <2>4. CASE req[t][s].token \in live
    <3>1. Grant(t, s, {req[t][s].token})
      BY <1>2, <2>4 DEF ServeRefresh
    <3>2. issued + 1 \in Tokens
      BY <3>1, <1>t, ZeroToken DEF Grant, Tokens
    <3>3. Moves(t, s, "granted", issued + 1)
      BY <3>1, <3>2, <1>t, Moving DEF Grant
    <3> QED BY <3>2, <3>3, <2>m DEF AloneInv
  <2>5. CASE req[t][s].token \notin live
    <3>1. Refuse(t, s) /\ req[t][s].token = 0
      BY <1>2, <2>3, <2>5 DEF ServeRefresh
    <3>2. Moves(t, s, "refused", req[t][s].token) /\ live' = live
      BY <3>1, <1>t, Moving DEF Refuse
    <3> QED BY <3>1, <3>2, <2>1, <2>3, <2>m, <1>t DEF AloneInv
  <2> QED BY <2>4, <2>5
\* Of other requests the server grants, refuses or ends them.
<1>g. ASSUME ~Exchanges(t, s), req[t][s].pc = "sent", cookie' = cookie, Grant(t, s, {})
      PROVE  AloneInv(t)'
  <2>1. issued + 1 \in Tokens
    BY <1>g, <1>t, ZeroToken DEF Grant, Tokens
  <2>2. Moves(t, s, "granted", issued + 1) /\ live \subseteq live'
    BY <1>g, <2>1, <1>t, Moving DEF Grant
  <2> QED BY <1>g, <2>2, OneLess DEF Moves, Exchanges, Active
<1>f. ASSUME ~Exchanges(t, s), req[t][s].pc = "sent", cookie' = cookie, Refuse(t, s)
      PROVE  AloneInv(t)'
  <2>2. Moves(t, s, "refused", req[t][s].token) /\ live \subseteq live'
    BY <1>f, <1>t, Moving DEF Refuse
  <2> QED BY <1>f, <2>2, OneLess DEF Moves, Exchanges, Active
<1>c. ASSUME Becomes(t, s, NoRequest), UNCHANGED live,
             cookie' \in live \cup {0} \/ (cookie' = cookie /\ req[t][s].pc # "granted")
      PROVE  AloneInv(t)'
  <2>1. Clears(t, s)
    BY <1>c, <1>t, Clearing
  <2> QED BY <1>c, <2>1, OneLess DEF Clears, Active
<1>3. CASE ServeLogin(t, s)
  BY <1>3, <1>g, <1>f DEF ServeLogin, InFlight, Exchanges
<1>4. CASE ServeApi(t, s)
  <2>1. req[t][s].pc = "sent" /\ ~Exchanges(t, s) /\ cookie' = cookie
    BY <1>4 DEF ServeApi, InFlight, Exchanges
  <2>2. CASE Refuse(t, s)
    BY <2>1, <2>2, <1>f
  <2>3. CASE Becomes(t, s, NoRequest) /\ UNCHANGED <<live, issued>>
    BY <2>1, <2>3, <1>c
  <2> QED BY <1>4, <2>2, <2>3 DEF ServeApi
<1>5. CASE ServeLogout(t, s)
  <2>1. req[t][s].pc = "sent" /\ ~Exchanges(t, s) /\ cookie' = cookie /\ Refuse(t, s)
    BY <1>5 DEF ServeLogout, InFlight, Exchanges
  <2> QED BY <2>1, <1>f
<1>6. CASE Receive(t, s)
  <2>1. cookie' = req[t][s].token /\ cookie' \in live /\ live' = live /\ Becomes(t, s, NoRequest)
    BY <1>6, <1>l DEF Receive, Answered
  <2> QED BY <2>1, <1>c
<1>7. CASE Unauthorized(t, s)
  <2>1. req[t][s].pc = "refused" /\ req[t][s].post # "refresh" /\ UNCHANGED <<live, cookie>>
    BY <1>7 DEF Unauthorized, Answered
  <2>2. CASE Reject(t, s)
    BY <2>1, <2>2, <1>c DEF Reject
  <2>3. CASE Becomes(t, s, [req[t][s] EXCEPT !.pc = "queued", !.token = 0])
    <3>1. Moves(t, s, "queued", 0)
      BY <2>3, <1>t, ZeroToken, Moving
    <3> QED BY <2>1, <3>1, OneLess DEF Moves, Active
  <2>4. CASE t \notin refreshing /\ Becomes(t, s, Sent("refresh", req[t][s].for, TRUE, cookie))
    <3>1. Sends(t, s, "refresh", req[t][s].for, cookie)
      <4>1. "refresh" \in Endpoints /\ TRUE \in BOOLEAN
        BY DEF Endpoints
      <4> QED BY <2>4, <4>1, <1>t, Sending
    <3>2. \A q \in Slots : ~Refreshes(t, q)
      BY <2>4 DEF QueueInv, OneRefresh
    <3>3. \A q \in Slots : Exchanges(t, q) => q = s
      BY <3>2, <2>1, <1>p DEF AloneInv, Posted, Exchanges, Refreshes, Initialises, Active
    <3>4. cookie \in live \cup {0}
      BY <3>3, <2>1 DEF AloneInv
    <3>5. \A q \in Slots : (Active(t, q)' <=> Active(t, q)) /\ (Initialises(t, q)' <=> Initialises(t, q))
      BY <3>1, <2>1 DEF Sends, Replaced, Initialises, Active
    <3>6. \A q \in Slots : Exchanges(t, q)' => q = s
      BY <3>3, <3>1 DEF Sends, Replaced, Exchanges, Active
    <3>7. req'[t][s].pc = "sent" /\ req'[t][s].token = cookie
      BY <3>1 DEF Sends
    <3> QED BY <2>1, <3>4, <3>5, <3>6, <3>7 DEF AloneInv
  <2> QED BY <1>7, <2>2, <2>3, <2>4 DEF Unauthorized, IsRefreshing
<1>8. CASE Refreshed(t, s)
  <2>1. Resends(t, s) /\ cookie' = req[t][s].token /\ live' = live /\ req[t][s].pc = "granted"
    BY <1>8, <1>t, Resending DEF Refreshed, Answered
  <2>2. cookie' \in live'
    BY <2>1, <1>l
  <2>3. \A q \in Slots : (Active(t, q)' <=> Active(t, q)) /\ (Initialises(t, q)' <=> Initialises(t, q))
    BY <2>1 DEF Resends, Initialises, Active
  <2>4. ASSUME NEW q \in Slots, Exchanges(t, q)'
        PROVE  /\ req'[t][q].pc = "sent" => req'[t][q].token \in live'
                                             \/ (Exchanges(t, q) /\ req'[t][q] = req[t][q])
               /\ req'[t][q].pc = "refused" => Exchanges(t, q) /\ req'[t][q] = req[t][q]
    <3>1. CASE q = s \/ req[t][q].pc = "queued"
      BY <3>1, <2>1, <2>2, <2>4 DEF Resends, Exchanges
    <3>2. CASE ~(q = s \/ req[t][q].pc = "queued")
      BY <3>2, <2>1, <2>4 DEF Resends, Exchanges, Active
    <3> QED BY <3>1, <3>2
  <2> QED BY <2>1, <2>2, <2>3, <2>4 DEF AloneInv
<1>9. CASE RefreshFails(t, s)
  <2>1. cookie' = cookie /\ Load(t, cookie') /\ live' = live
    BY <1>9 DEF RefreshFails, CookieAfterRefusal
  <2>2. Load(t, cookie)
    BY <2>1
  <2>3. Loads(t, cookie) /\ \A q \in Slots : req[t][q].pc # "granted"
    BY <2>2, <1>t, Loading DEF Load, Answered
  <2> QED BY <2>1, <2>3, LoadedAlone
<1>10. ~Fault(t, s)
  BY DEF Fault
<1> QED BY <1>1, <1>2, <1>3, <1>4, <1>5, <1>6, <1>7, <1>8, <1>9, <1>10

LEMMA ShownStep == QueueInv /\ Shown /\ [ClientNext]_clientVars => Shown' /\ open \subseteq open' /\ blame \subseteq blame'
<1> SUFFICES ASSUME QueueInv, Shown, [ClientNext]_clientVars PROVE Shown' /\ open \subseteq open' /\ blame \subseteq blame'
  OBVIOUS
<1>t. ClientTypeOK /\ req \in [Tabs -> [Slots -> BrowserRequests]]
  BY RequestsTyped DEF QueueInv
<1>r. ASSUME NEW t \in Tabs, NEW s \in Slots, NEW r, Becomes(t, s, r), t \in open', open \subseteq open'
      PROVE  Shown'
  <2>1. req' = [req EXCEPT ![t][s] = r]
    BY <1>r DEF Becomes
  <2>2. ASSUME NEW u \in Tabs, NEW q \in Slots, u # t
        PROVE  req'[u][q] = req[u][q]
    BY <2>1, <2>2, <1>t
  <2> QED BY <1>r, <2>2 DEF Shown, Active
<1>l. ASSUME NEW t \in Tabs, NEW jar, Load(t, jar), t \in open', open \subseteq open'
      PROVE  Shown' /\ blame \subseteq blame'
  <2>1. \A u \in Tabs \ {t}, q \in Slots : req'[u][q] = req[u][q]
    BY <1>l, <1>t DEF Load
  <2> QED BY <1>l, <2>1 DEF Shown, Active, Load
<1>1. CASE UNCHANGED clientVars
  BY <1>1 DEF clientVars, Shown, Active
<1>2. CASE Revoke
  BY <1>2 DEF Revoke, Shown, Active
<1>3. ASSUME NEW t \in Tabs, Open(t)
      PROVE  Shown' /\ open \subseteq open' /\ blame \subseteq blame'
  BY <1>3, <1>l DEF Open
<1>4. ASSUME NEW t \in Tabs, NEW s \in Slots, RefreshFails(t, s)
      PROVE  Shown' /\ open \subseteq open' /\ blame \subseteq blame'
  <2>1. Load(t, cookie') /\ open' = open /\ t \in open
    BY <1>4 DEF RefreshFails, Answered, Shown, Active
  <2> QED BY <2>1, <1>l
<1>5. ASSUME NEW t \in Tabs, NEW s \in Slots, NEW url \in {"api", "logout", "login"}, Request(t, s, url)
      PROVE  Shown' /\ open \subseteq open' /\ blame \subseteq blame'
  BY <1>5, <1>r DEF Request
<1>6. ASSUME NEW t \in Tabs, NEW s \in Slots,
             \/ ServeRefresh(t, s) \/ ServeLogin(t, s) \/ ServeApi(t, s) \/ ServeLogout(t, s)
             \/ Receive(t, s) \/ Unauthorized(t, s) \/ Fault(t, s)
      PROVE  Shown' /\ open \subseteq open' /\ blame \subseteq blame'
  <2>1. t \in open /\ open' = open /\ blame \subseteq blame'
    BY <1>6 DEF ServeRefresh, ServeLogin, ServeApi, ServeLogout, Receive, Unauthorized, Fault, InFlight, Answered,
                Shown, Active
  <2>2. \E r : Becomes(t, s, r)
    BY <1>6 DEF ServeRefresh, ServeLogin, ServeApi, ServeLogout, Receive, Unauthorized, Fault, Grant, Refuse, Reject
  <2> QED BY <2>1, <2>2, <1>r
<1>7. ASSUME NEW t \in Tabs, NEW s \in Slots, Refreshed(t, s)
      PROVE  Shown' /\ open \subseteq open' /\ blame \subseteq blame'
  <2>1. t \in open /\ UNCHANGED <<open, blame>>
    BY <1>7 DEF Refreshed, Answered, Shown, Active
  <2>2. Resends(t, s)
    BY <1>7, <1>t, Resending
  <2> QED BY <2>1, <2>2 DEF Resends, Shown, Active
<1> QED BY <1>1, <1>2, <1>3, <1>4, <1>5, <1>6, <1>7 DEF ClientNext

LEMMA BrowserStep ==
    QueueInv /\ QueueInv' /\ TokensInv /\ BrowserInv /\ [ClientNext]_clientVars => BrowserInv'
<1> SUFFICES ASSUME QueueInv, QueueInv', TokensInv, BrowserInv, [ClientNext]_clientVars PROVE BrowserInv'
  OBVIOUS
<1>1. Shown' /\ open \subseteq open' /\ blame \subseteq blame' /\ Shown
  BY ShownStep DEF BrowserInv
<1> SUFFICES ASSUME NEW t \in Tabs, open' \subseteq {t}, blame' = {} PROVE AloneInv(t)'
  BY <1>1 DEF BrowserInv
<1>2. AloneInv(t) /\ blame = {} /\ open \subseteq {t}
  BY <1>1 DEF BrowserInv
<1>3. \A u \in Tabs, s \in Slots : Active(u, s) => u = t
  BY <1>1, <1>2 DEF Shown
<1>4. CASE UNCHANGED clientVars
  BY <1>2, <1>4 DEF clientVars, AloneInv, Initialises, Exchanges, Active
<1>5. ~Revoke
  BY DEF Revoke
<1>6. ASSUME NEW u \in Tabs, Open(u)
      PROVE  AloneInv(t)'
  <2>1. u = t /\ UNCHANGED <<live, cookie>> /\ Load(t, cookie)
    BY <1>6 DEF Open
  <2>2. Loads(t, cookie) /\ \A q \in Slots : req[t][q].pc # "granted"
    BY <2>1, Loading DEF Load, Answered, QueueInv, ClientTypeOK
  <2> QED BY <2>1, <2>2, <1>2, LoadedAlone
<1>7. ASSUME NEW u \in Tabs, NEW s \in Slots,
             \/ \E url \in {"api", "logout", "login"} : Request(u, s, url)
             \/ ServeRefresh(u, s) \/ ServeLogin(u, s) \/ ServeApi(u, s) \/ ServeLogout(u, s)
             \/ Receive(u, s) \/ Unauthorized(u, s) \/ Refreshed(u, s) \/ RefreshFails(u, s)
             \/ Fault(u, s)
      PROVE  AloneInv(t)'
  <2>1. u \in open \/ Active(u, s)
    BY <1>7 DEF Request, ServeRefresh, ServeLogin, ServeApi, ServeLogout, Receive, Unauthorized, Refreshed,
                RefreshFails, Fault, InFlight, Answered, Active
  <2>2. u = t
    BY <2>1, <1>2, <1>3
  <2> QED BY <2>2, <1>2, <1>7, AloneStep
<1> QED BY <1>4, <1>5, <1>6, <1>7 DEF ClientNext

LEMMA BrowserInductive == ClientSpec => []BrowserInv
<1>1. ClientInit => BrowserInv
  BY DEF ClientInit, BrowserInv, Shown, AloneInv, Initialises, Exchanges, Active, NoRequest
<1> QED BY <1>1, QueueInductive, TokensInductive, BrowserStep, PTL DEF ClientSpec

\* While one tab is open, nothing is lost, no session ended and no login hurried,
\* no refresh is refused that had a token: isRefreshing and initAuth keep the
\* exchanges of a tab apart, whatever the requests do in between.
THEOREM AloneIsNeverRefused == ClientSpec => []AloneNeverRefused
<1>1. QueueInv /\ BrowserInv => AloneNeverRefused
  <2> SUFFICES ASSUME QueueInv, BrowserInv, Cardinality(open) = 1, blame = {},
                      NEW t \in Tabs, NEW s \in Slots,
                      req[t][s].post \in {"refresh", "initAuth"}, req[t][s].pc = "refused"
               PROVE  req[t][s].token = 0
    BY DEF AloneNeverRefused
  <2>1. IsFiniteSet(open)
    BY BrowserAssumption, FS_Subset DEF QueueInv, ClientTypeOK
  <2>2. PICK u : open = {u}
    BY <2>1, FS_Singleton
  <2>3. Exchanges(t, s) /\ t \in open
    BY DEF Exchanges, Active, BrowserInv, Shown
  <2>4. AloneInv(t)
    BY <2>2, <2>3 DEF BrowserInv
  <2> QED BY <2>3, <2>4 DEF AloneInv
<1> QED BY <1>1, QueueInductive, BrowserInductive, PTL
=============================================================================
