----------------------------- MODULE Deliveries -----------------------------
(***************************************************************************)
(* Notifications and their deliveries by email (NotificationService and    *)
(* EmailService): creating a notification delivers it at once, and an      *)
(* administrator's request retries the deliveries it finds FAILED.  Every  *)
(* write of a delivery's status counts as an attempt.  Each notification   *)
(* here has one delivery; SMS and WhatsApp providers are disabled.         *)
(***************************************************************************)
EXTENDS Integers, FiniteSets

CONSTANTS
    Workers,      \* event handlers and requests running at once
    Deliveries,   \* NotificationDelivery rows that may be created
    MaxRetries    \* EMAIL_MAX_RETRIES

ASSUME DeliveriesAssumption == IsFiniteSet(Workers) /\ MaxRetries \in Nat

VARIABLES
    notification,  \* status of each delivery's Notification row
    delivery,      \* status and attempts of each row; how often it was handed to
                   \* the mail server, and whether that accepted it
    work           \* what each worker does: where it stands, for which row, and
                   \* which rows it has still to retry

deliveryVars == <<notification, delivery, work>>

NoWork   == [pc |-> "idle", row |-> "none", retrying |-> FALSE, list |-> {}]
NoRow    == [status |-> "none", attempts |-> 0, handed |-> 0, accepted |-> FALSE]
Statuses == {"none", "PENDING", "SENT", "FAILED"}

DeliveriesTypeOK ==
    /\ notification \in [Deliveries -> {"none", "PENDING", "SENT", "READ"}]
    /\ delivery \in [Deliveries -> [status : Statuses, attempts : Nat, handed : Nat, accepted : BOOLEAN]]
    /\ work \in [Workers -> [pc : {"idle", "show", "deliver", "again", "send", "accepted", "rejected", "caught", "record"},
                             row : Deliveries \cup {"none"}, retrying : BOOLEAN, list : SUBSET Deliveries]]

DeliveriesInit ==
    /\ notification = [d \in Deliveries |-> "none"]
    /\ delivery = [d \in Deliveries |-> NoRow]
    /\ work = [k \in Workers |-> NoWork]

Works(k, step, d) == work[k].pc = step /\ work[k].row = d
Turn(k, step)     == work' = [work EXCEPT ![k].pc = step]
EndWork(k)        == work' = [work EXCEPT ![k] = NoWork]

\* The row is through: a retry takes the next of its list.
Through(k) ==
    IF work[k].list = {} THEN EndWork(k)
    ELSE \E d \in work[k].list :
             work' = [work EXCEPT ![k].pc = "again", ![k].row = d, ![k].list = @ \ {d}]

\* Mutant: an attempt is counted with its outcome only.
AttemptCountedLater(status) == IF status = "PENDING" THEN 0 ELSE 1

Attempt(status) == 1

UpdateStatus(d, status) ==
    delivery' = [delivery EXCEPT ![d].status = status, ![d].attempts = @ + Attempt(status)]
-----------------------------------------------------------------------------
(* The notification                                                        *)

Create(k, d) ==
    /\ work[k].pc = "idle" /\ notification[d] = "none"
    /\ notification' = [notification EXCEPT ![d] = "PENDING"]
    /\ work' = [work EXCEPT ![k] = [NoWork EXCEPT !.pc = "show", !.row = d]]
    /\ UNCHANGED delivery

\* Listed as SENT in the application, whatever happens to its delivery.
Show(k, d) ==
    /\ Works(k, "show", d)
    /\ notification' = [notification EXCEPT ![d] = "SENT"]
    /\ Turn(k, "deliver")
    /\ UNCHANGED delivery

\* markAsRead, and markAllAsRead of one notification.
MarkAsRead(d) ==
    /\ notification[d] # "none"
    /\ notification' = [notification EXCEPT ![d] = "READ"]
    /\ UNCHANGED <<delivery, work>>
-----------------------------------------------------------------------------
(* Its delivery                                                            *)

CreateDelivery(k, d) ==
    /\ Works(k, "deliver", d)
    /\ delivery' = [delivery EXCEPT ![d].status = "PENDING"]
    /\ Turn(k, "send")
    /\ UNCHANGED notification

\* retryFailedDeliveries lists the rows once, then takes them one by one.
RetryFailed(k) ==
    /\ work[k].pc = "idle"
    /\ LET found == {d \in Deliveries : delivery[d].status = "FAILED" /\ delivery[d].attempts < MaxRetries}
       IN  /\ found # {}
           /\ \E d \in found :
                  work' = [work EXCEPT ![k] = [pc |-> "again", row |-> d, retrying |-> TRUE, list |-> found \ {d}]]
    /\ UNCHANGED <<notification, delivery>>

\* The status found FAILED is overwritten, whatever it is now.
MarkPending(k, d) ==
    /\ Works(k, "again", d)
    /\ UpdateStatus(d, "PENDING")
    /\ Turn(k, "send")
    /\ UNCHANGED notification

\* sendNotificationEmail: the template, the user or the log row fails, which
\* lands in the caller's catch block; or the mail server accepts or rejects it.
SendEmail(k, d) ==
    /\ Works(k, "send", d)
    /\ \/ Turn(k, "caught") /\ UNCHANGED delivery
       \/ Turn(k, "rejected") /\ delivery' = [delivery EXCEPT ![d].handed = @ + 1]
       \/ Turn(k, "accepted") /\ delivery' = [delivery EXCEPT ![d].handed = @ + 1, ![d].accepted = TRUE]
    /\ UNCHANGED notification

\* The outcome is written; an error on the way is caught and written as FAILED.
\* Either way sendNotificationEmail returns.
Report(k, d) ==
    /\ \/ Works(k, "accepted", d) /\ (UpdateStatus(d, "SENT") \/ UpdateStatus(d, "FAILED"))
       \/ Works(k, "rejected", d) /\ UpdateStatus(d, "FAILED")
    /\ Turn(k, "record")
    /\ UNCHANGED notification

\* The caller writes SENT when nothing was thrown, and FAILED in its catch block.
Record(k, d) ==
    /\ \/ Works(k, "record", d) /\ UpdateStatus(d, "SENT")
       \/ Works(k, "caught", d) /\ UpdateStatus(d, "FAILED")
    /\ Through(k)
    /\ UNCHANGED notification

\* A status write throws inside a try block.
WriteThrows(k, d) ==
    /\ work[k].row = d /\ work[k].pc \in {"accepted", "rejected", "record"} \cup (IF work[k].retrying THEN {"again"} ELSE {})
    /\ Turn(k, "caught")
    /\ UNCHANGED <<notification, delivery>>

\* A statement outside the try blocks throws, or the server dies.
GiveUp(k) ==
    /\ work[k].pc # "idle"
    /\ EndWork(k)
    /\ UNCHANGED <<notification, delivery>>

DeliveriesNext ==
    \/ \E k \in Workers :
        \/ RetryFailed(k) \/ GiveUp(k)
        \/ \E d \in Deliveries :
            \/ Create(k, d) \/ Show(k, d) \/ CreateDelivery(k, d) \/ MarkPending(k, d)
            \/ SendEmail(k, d) \/ Report(k, d) \/ Record(k, d) \/ WriteThrows(k, d)
    \/ \E d \in Deliveries : MarkAsRead(d)

DeliveriesSpec == DeliveriesInit /\ [][DeliveriesNext]_deliveryVars
-----------------------------------------------------------------------------
\* However failures, retries and overlapping writes of the status fall together,
\* one notification is handed to the mail server at most once for each request
\* that ran at once, and once when it was created (retryFailedDeliveries).
HandedOncePerWorker ==
    \A d \in Deliveries : delivery[d].handed <= 1 + Cardinality(Workers)

\* The following are not true of the code; the README names the configuration
\* that shows each of them violated.

\* A delivery recorded as SENT was accepted by the mail server.
SentWasAccepted ==
    \A d \in Deliveries : delivery[d].status = "SENT" /\ (\A k \in Workers : work[k].row # d) => delivery[d].accepted

\* A notification that was read is not unread again.
ReadStaysRead ==
    [][\A d \in Deliveries : notification[d] = "READ" => notification'[d] = "READ"]_deliveryVars
=============================================================================
