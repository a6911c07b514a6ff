--------------------------- MODULE WebhookIntake ---------------------------
(***************************************************************************)
(* The intake of provider webhooks: WebhookService.processNombaWebhook     *)
(* verifies a delivery's signature and its age, looks for the event in     *)
(* three ways, stores it and queues a job for it.  The provider delivers   *)
(* a signed message any number of times, late, or several times at once.   *)
(* What is done with a stored event is in PaymentSettlement.               *)
(***************************************************************************)
EXTENDS Integers, Sequences, FiniteSets, FiniteSetsExt

CONSTANTS
    Calls,     \* requests handled at once
    Events,    \* events of the provider
    Ids,       \* the ids extractEventId finds, each as the events whose bodies bear
               \* it: an id of the event, or the reference of what it is about
    Alike,     \* likewise the references and ids at the top of the bodies, each as
               \* the events of one type with it
    Window,    \* five minutes, in units of the clock
    MaxClock,  \* bound: how long the system is watched
    MaxRows,   \* bound: rows ever stored
    Redis      \* whether the queue manager has a connection

ASSUME WebhookIntakeAssumption ==
    /\ Ids \subseteq SUBSET Events /\ Alike \subseteq SUBSET Events
    /\ \A a, b \in Ids : a # b => a \cap b = {}
    /\ {Window, MaxClock, MaxRows} \subseteq Nat
    /\ Redis \in BOOLEAN

VARIABLES
    clock,     \* the server's
    rows,      \* WebhookEvent rows: event, stamp and createdAt; of the call that
               \* stored it, the rows of the message there were when it began, and
               \* if any, the time it then took to look for the signature
    queued,    \* rows for which a job was added
    call,      \* what each running request is about, and the rows of its message when
               \* it began; if any, time is when that was, then how long it took to
               \* look for the signature
    received   \* events the provider was told were received

vars == <<clock, rows, queued, call, received>>

Times  == 0..MaxClock
Steps  == {"id", "signature", "duplicate", "create", "queue"}
Idle   == [pc |-> "idle"]

Message == [event : Events, stamp : Times]
Row     == [event : Events, stamp : Times, before : SUBSET (1..MaxRows), took : Times, createdAt : Times]

TypeOK ==
    /\ clock \in Times
    /\ rows \in Seq(Row) /\ Len(rows) <= MaxRows
    /\ queued \subseteq DOMAIN rows
    /\ call \in [Calls -> {Idle} \cup [pc : Steps, about : Message, before : SUBSET (1..MaxRows), time : Times, row : 0..MaxRows]]
    /\ received \subseteq Events

Init ==
    /\ clock = 0
    /\ rows = <<>>
    /\ queued = {}
    /\ call = [c \in Calls |-> Idle]
    /\ received = {}

At(c, step) == call[c].pc = step
Go(c, step) == call' = [call EXCEPT ![c].pc = step]
End(c) == call' = [call EXCEPT ![c] = Idle]

\* { received: true }
Acknowledge(c) == received' = received \cup {call[c].about.event} /\ End(c)
-----------------------------------------------------------------------------
\* isTimestampValid: the age of the stamp, which the sender's clock wrote, is
\* off by at most the window either way.  Other deliveries are refused (401).
Fresh(stamp) == clock - stamp <= Window /\ stamp - clock <= Window

\* The signature is over the stamp and the body.
RowsOf(m) == {i \in DOMAIN rows : rows[i].event = m.event /\ rows[i].stamp = m.stamp}

Deliver(c, e, stamp) ==
    /\ At(c, "idle")
    /\ Fresh(stamp)
    /\ LET m == [event |-> e, stamp |-> stamp]
       IN  call' = [call EXCEPT ![c] = [pc |-> "id", about |-> m, before |-> RowsOf(m),
                                        time |-> IF RowsOf(m) = {} THEN 0 ELSE clock, row |-> 0]]
    /\ UNCHANGED <<clock, rows, queued, received>>

Stored(e) == \E i \in DOMAIN rows : rows[i].event = e

\* A body names the event by its id, or by the reference of the payment or
\* transfer, which all that happens to that one share: a failure and a later
\* success have the same id then.
Bearers(e)  == {f \in Events : \E id \in Ids : {e, f} \subseteq id}
IdStored(e) == \E f \in Bearers(e) : Stored(f)

\* Whatever the type of the event found.
FindByEventId(c) ==
    /\ At(c, "id")
    /\ IF IdStored(call[c].about.event)
       THEN Acknowledge(c)
       ELSE Go(c, "signature") /\ UNCHANGED received
    /\ UNCHANGED <<clock, rows, queued>>

\* Mutant: any event of the provider counts.
AnyRow(m) == DOMAIN rows

SameSignature(m) == RowsOf(m)

\* Mutant: createdAt is compared with gt instead of gte.
RecentGt(i) == rows[i].createdAt > clock - Window

Recent(i) == rows[i].createdAt >= clock - Window

FindRecentBySignature(c) ==
    /\ At(c, "signature")
    /\ IF \E i \in SameSignature(call[c].about) : Recent(i)
       THEN Acknowledge(c)
       ELSE /\ call' = [call EXCEPT ![c].pc = "duplicate", ![c].time = IF call[c].before = {} THEN 0 ELSE clock - @]
            /\ UNCHANGED received
    /\ UNCHANGED <<clock, rows, queued>>

\* Looks for the reference or id at the top of the body, among the ids and in
\* the payloads of the events of its type; whether the JSON path meets it is left
\* open.
Likes(e) == {e} \cup {f \in Events : \E group \in Alike : {e, f} \subseteq group}

IsDuplicate(c) ==
    /\ At(c, "duplicate")
    /\ \/ Acknowledge(c) /\ \E f \in Likes(call[c].about.event) : Stored(f)
       \/ Go(c, "create") /\ UNCHANGED received
    /\ UNCHANGED <<clock, rows, queued>>

\* [provider, eventId] is unique: a violation (P2002) is answered as received.
CreateEvent(c) ==
    /\ At(c, "create")
    /\ IF IdStored(call[c].about.event)
       THEN Acknowledge(c) /\ UNCHANGED rows
       ELSE /\ Len(rows) < MaxRows
            /\ rows' = Append(rows, [event |-> call[c].about.event, stamp |-> call[c].about.stamp,
                                     before |-> call[c].before, took |-> call[c].time, createdAt |-> clock])
            /\ call' = [call EXCEPT ![c] = [@ EXCEPT !.pc = "queue", !.row = Len(rows) + 1, !.time = 0, !.before = {}]]
            /\ UNCHANGED received
    /\ UNCHANGED <<clock, queued>>

\* Without a connection addJob logs, returns undefined, and the event stays.
AddJob(c) ==
    /\ At(c, "queue")
    /\ queued' = IF Redis THEN queued \cup {call[c].row} ELSE queued
    /\ Acknowledge(c)
    /\ UNCHANGED <<clock, rows>>

\* A statement or addJob throws (400), or the server dies: no acknowledgement.
Interrupt(c) ==
    /\ ~At(c, "idle")
    /\ End(c)
    /\ UNCHANGED <<clock, rows, queued, received>>

Tick ==
    /\ clock < MaxClock
    /\ clock' = clock + 1
    /\ UNCHANGED <<rows, queued, call, received>>

Next ==
    \/ \E c \in Calls :
        \/ \E e \in Events, stamp \in Times : Deliver(c, e, stamp)
        \/ FindByEventId(c) \/ FindRecentBySignature(c) \/ IsDuplicate(c)
        \/ CreateEvent(c) \/ AddJob(c) \/ Interrupt(c)
    \/ Tick

Spec == Init /\ [][Next]_vars
-----------------------------------------------------------------------------
\* Of what the provider was told was received, either that is stored, or an event
\* of the same id, or of the same type and reference, for whose duplicate it was
\* taken; and no race of the three look-ups stores two events of one id
\* (processNombaWebhook).  An event unlike all others is never lost.
ReceivedIsKnown ==
    /\ \A e \in received : \E f \in Bearers(e) \cup Likes(e) : Stored(f)
    /\ \A id \in Ids : Cardinality({i \in DOMAIN rows : rows[i].event \in id}) <= 1

\* A message without an id is stored again, by a call that began after it was
\* stored, only if it was first stored before its own stamp: the sender's clock
\* was ahead, but for the time the call spent before its look-up.  The window of
\* the signature look-up reaches as far back as the age check lets messages in.
StoredAgainOnlyAhead ==
    \A j \in DOMAIN rows : \A i \in rows[j].before :
        rows[i].createdAt < rows[i].stamp + rows[j].took

\* The following are not true of the code; the README names the configuration
\* that shows each of them violated.

\* An event reported as received is stored: it is not, when another event has
\* its id, as a success that follows a failure of the same reference has.
ReceivedIsStored == \A e \in received : Stored(e)

\* An event reported as received is queued for processing.
ReceivedIsQueued ==
    Redis => \A e \in received : \E i \in queued : rows[i].event = e

\* A message is stored once.
MessageStoredOnce ==
    \A i, j \in DOMAIN rows : rows[i].event = rows[j].event /\ rows[i].stamp = rows[j].stamp => i = j
=============================================================================
