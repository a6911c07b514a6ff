------------------------- MODULE PaymentSettlement -------------------------
(***************************************************************************)
(* A contribution is paid in two halves that never meet in one call.       *)
(* PaymentService.initiatePayment opens a Payment row and hands the member *)
(* a checkout URL; later the provider's webhook becomes a BullMQ job, and  *)
(* a queue worker runs verifyAndCompletePayment.  The webhook names the    *)
(* payment to complete and, apart from it, the order to ask the provider   *)
(* about; nothing but a log line compares the two.                         *)
(*                                                                         *)
(* A step is one statement that other transactions can interleave with.    *)
(* The settlement transaction credits the group wallet first (WalletLedger *)
(* models that part statement by statement) and keeps the wallet's row     *)
(* lock until it ends, so its last statements are one step with COMMIT,    *)
(* split only where they wait for the contribution's row lock.             *)
(***************************************************************************)
EXTENDS Integers, FiniteSets

CONSTANTS
    Contributions,   \* rows of member_contributions, one per member and cycle
    Groups,
    GroupOf,         \* the group whose wallet a contribution is paid into
    Payments,        \* ids of Payment rows
    Initiators,      \* POST /payments requests
    Workers,         \* concurrency slots of the nomba-webhook worker
    Events,          \* rows of webhook_events
    Methods,         \* payment methods members choose
    EventsFor,       \* states of a charge the provider sends success events in
    ForeignReferences, \* may an event name one payment and the order of another
    Namings,         \* the names verification gives a charge: its order's
                     \* reference, or one of the provider's own
    JobAttempts,     \* JOB_ATTEMPTS
    MaxStalledCount, \* BullMQ's default, 1
    LockRelationResolves, \* does "MemberContribution" name a table
    NoContribution, NoPayment, NoReference, NoEvent, Nobody

\* Payment.providerReference and Transaction.reference.
References == [naming : {"order", "provider"}, order : Payments]
OrderRef(p) == [naming |-> "order", order |-> p]

ASSUME PaymentSettlementAssumption ==
    /\ GroupOf \in [Contributions -> Groups]
    /\ Methods \subseteq {"card", "bank_transfer"}
    /\ EventsFor \subseteq {"open", "paid"}
    /\ ForeignReferences \in BOOLEAN
    /\ Namings \subseteq {"order", "provider"}
    /\ JobAttempts \in Nat \ {0}
    /\ MaxStalledCount \in Nat
    /\ LockRelationResolves \in BOOLEAN
    /\ IsFiniteSet(Workers)
    /\ NoContribution \notin Contributions
    /\ NoPayment \notin Payments
    /\ NoReference \notin References
    /\ NoEvent \notin Events
    /\ Nobody \notin Workers \cup Initiators

VARIABLES
    status,        \* Payment.status, "none" before the row exists
    payFor,        \* Payment.contributionId
    method,        \* Payment.paymentMethod
    reference,     \* Payment.providerReference
    charge,        \* the provider's side: "none", "open" to the payer, "paid"
    txns,          \* Transaction rows: payment and unique reference
    credits,       \* committed wallet credits "Contribution payment <id>"
    strays,        \* those committed while the payment was not SUCCESSFUL
    backing,       \* payment and order of each committed credit
    paid,          \* contributions with status PAID
    rowLock,       \* initiator whose transaction locked the contribution
    walletLock,    \* worker whose transaction locked the group wallet
    ipc, icon, ipay,             \* initiator: step, contribution, payment
    event, about, processed,     \* webhook_events: payment, order, processed flag
    job, owner, attempts, stalls,\* the event's job: state, lock, counters
    wpc, wjob, wref,             \* worker: step, event, verified reference
    overtaken      \* workers past their first read of a payment another settled

orderVars   == <<payFor, method, reference, charge>>
moneyVars   == <<txns, credits, strays, backing, paid>>
paymentVars == <<status, orderVars, moneyVars>>
lockVars    == <<rowLock, walletLock>>
initVars    == <<ipc, icon, ipay>>
eventVars   == <<event, about, processed>>
jobVars     == <<job, owner, attempts, stalls>>
workerVars  == <<wpc, wjob, wref, overtaken>>
vars == <<paymentVars, lockVars, initVars, eventVars, jobVars, workerVars>>

Statuses == {"none", "INITIALIZED", "PENDING", "FAILED", "SUCCESSFUL"}
ISteps == {"idle", "lock", "locked", "provider", "account", "record", "answer",
           "done", "refused", "error", "lost"}
WSteps == {"idle", "read", "verify", "fail", "credit", "check", "settle", "mark"}
InTransaction(w) == wpc[w] \in {"check", "settle"}

PaymentOf(w) == event[wjob[w]]
OrderOf(w) == about[wjob[w]]
GroupWallet(w) == GroupOf[payFor[PaymentOf(w)]]

Init ==
    /\ status = [p \in Payments |-> "none"]
    /\ payFor = [p \in Payments |-> NoContribution]
    /\ method = [p \in Payments |-> "none"]
    /\ reference = [p \in Payments |-> NoReference]
    /\ charge = [p \in Payments |-> "none"]
    /\ txns = {}
    /\ credits = [p \in Payments |-> 0]
    /\ strays = [p \in Payments |-> 0]
    /\ backing = {}
    /\ paid = {}
    /\ rowLock = [c \in Contributions |-> Nobody]
    /\ walletLock = [g \in Groups |-> Nobody]
    /\ ipc = [i \in Initiators |-> "idle"]
    /\ icon = [i \in Initiators |-> NoContribution]
    /\ ipay = [i \in Initiators |-> NoPayment]
    /\ event = [e \in Events |-> NoPayment]
    /\ about = [e \in Events |-> NoPayment]
    /\ processed = {}
    /\ job = [e \in Events |-> "none"]
    /\ owner = [e \in Events |-> Nobody]
    /\ attempts = [e \in Events |-> 0]
    /\ stalls = [e \in Events |-> 0]
    /\ wpc = [w \in Workers |-> "idle"]
    /\ wjob = [w \in Workers |-> NoEvent]
    /\ wref = [w \in Workers |-> NoReference]
    /\ overtaken = {}
-----------------------------------------------------------------------------
(* initiatePayment                                                         *)

GoI(i, step) == ipc' = [ipc EXCEPT ![i] = step]

\* The unlocked checks: the contribution exists, is not PAID, is the caller's
\* and the amount is its outstanding balance.
Request(i) ==
    /\ ipc[i] = "idle"
    /\ \E c \in Contributions \ paid : icon' = [icon EXCEPT ![i] = c]
    /\ GoI(i, "lock")
    /\ UNCHANGED <<ipay, paymentVars, lockVars, eventVars, jobVars, workerVars>>

\* SELECT ... FROM "MemberContribution" ... FOR UPDATE.  The table is called
\* member_contributions; unless something makes the name resolve, the
\* statement and with it the request fail.
LockContribution(i) ==
    /\ ipc[i] = "lock"
    /\ IF LockRelationResolves
       THEN /\ rowLock[icon[i]] = Nobody
            /\ rowLock' = [rowLock EXCEPT ![icon[i]] = i]
            /\ GoI(i, "locked")
       ELSE GoI(i, "error") /\ UNCHANGED rowLock
    /\ UNCHANGED <<walletLock, icon, ipay, paymentVars, eventVars, jobVars, workerVars>>

\* Mutant: only payments the provider knows of count as active.
HasActivePaymentPending(c) ==
    \E p \in Payments : payFor[p] = c /\ status[p] \in {"PENDING", "SUCCESSFUL"}

HasActivePayment(c) ==
    \E p \in Payments : payFor[p] = c /\ status[p] \in {"PENDING", "INITIALIZED", "SUCCESSFUL"}

\* Mutant: the interactive transaction is never ended.
UnlockContributionNever(i) == UNCHANGED rowLock

UnlockContribution(i) == rowLock' = [rowLock EXCEPT ![icon[i]] = Nobody]

RefuseContribution(i) ==
    /\ ipc[i] = "locked"
    /\ icon[i] \in paid \/ HasActivePayment(icon[i])
    /\ UnlockContribution(i)
    /\ GoI(i, "refused")
    /\ UNCHANGED <<walletLock, icon, ipay, paymentVars, eventVars, jobVars, workerVars>>

\* The checks repeated under the lock, INSERT and COMMIT.
CreatePayment(i) ==
    /\ ipc[i] = "locked"
    /\ icon[i] \notin paid
    /\ ~ HasActivePayment(icon[i])
    /\ \E p \in Payments, m \in Methods :
          /\ status[p] = "none"
          /\ status' = [status EXCEPT ![p] = "INITIALIZED"]
          /\ payFor' = [payFor EXCEPT ![p] = icon[i]]
          /\ method' = [method EXCEPT ![p] = m]
          /\ ipay' = [ipay EXCEPT ![i] = p]
          /\ GoI(i, IF m = "card" THEN "provider" ELSE "account")
    /\ UnlockContribution(i)
    /\ UNCHANGED <<reference, charge, moneyVars, walletLock, icon,
                   eventVars, jobVars, workerVars>>

\* nombaPayment.initiatePayment returns the order, or throws.
ProviderAccepts(i) ==
    /\ ipc[i] \in {"provider", "account"}
    /\ GoI(i, "record")
    /\ UNCHANGED <<icon, ipay, paymentVars, lockVars, eventVars, jobVars, workerVars>>

ProviderUnavailable(i) ==
    /\ ipc[i] = "provider"
    /\ status' = [status EXCEPT ![ipay[i]] = "FAILED"]
    /\ GoI(i, "refused")
    /\ UNCHANGED <<orderVars, moneyVars, icon, ipay,
                   lockVars, eventVars, jobVars, workerVars>>

\* A checkout order's reference is recorded, a virtual account has none.
RecordPending(i) ==
    /\ ipc[i] = "record"
    /\ status' = [status EXCEPT ![ipay[i]] = "PENDING"]
    /\ reference' = IF method[ipay[i]] = "card"
                    THEN [reference EXCEPT ![ipay[i]] = OrderRef(ipay[i])] ELSE reference
    /\ GoI(i, "answer")
    /\ UNCHANGED <<payFor, method, charge, moneyVars, icon, ipay,
                   lockVars, eventVars, jobVars, workerVars>>

\* The member receives the checkout URL or the account number, and may pay.
Answer(i) ==
    /\ ipc[i] = "answer"
    /\ charge' = [charge EXCEPT ![ipay[i]] = "open"]
    /\ GoI(i, "done")
    /\ UNCHANGED <<status, payFor, method, reference, moneyVars, icon, ipay,
                   lockVars, eventVars, jobVars, workerVars>>

\* A statement throws and nothing catches it: a lock or transaction timeout
\* (ROLLBACK), createVirtualAccount, a status update, the audit log.  The row,
\* once committed, keeps its status, and the member gets no URL.
RequestThrows(i) ==
    /\ ipc[i] \in {"lock", "locked", "provider", "account", "record", "answer"}
    /\ IF ipc[i] = "locked" THEN UnlockContribution(i) ELSE UNCHANGED rowLock
    /\ GoI(i, "refused")
    /\ UNCHANGED <<walletLock, icon, ipay, paymentVars, eventVars, jobVars, workerVars>>

Initiate(i) ==
    \/ LockContribution(i) \/ RefuseContribution(i) \/ CreatePayment(i)
    \/ ProviderAccepts(i) \/ ProviderUnavailable(i) \/ RecordPending(i) \/ Answer(i)
-----------------------------------------------------------------------------
(* The provider, and the webhook intake as verifyAndCompletePayment sees it *)

Pay(p) ==
    /\ charge[p] = "open"
    /\ charge' = [charge EXCEPT ![p] = "paid"]
    /\ UNCHANGED <<status, payFor, method, reference, moneyVars,
                   lockVars, initVars, eventVars, jobVars, workerVars>>

\* A success event of a charge is stored and queued.  The provider may
\* describe one charge by several events, each with an id of its own, and it
\* may report one whose funds are not there yet.  The event's paymentId and
\* its order reference are two fields, and need not belong together.
Deliver(e) ==
    /\ job[e] = "none"
    /\ \E p, v \in Payments :
          /\ charge[v] \in EventsFor
          /\ p = v \/ (ForeignReferences /\ charge[p] # "none")
          /\ event' = [event EXCEPT ![e] = p]
          /\ about' = [about EXCEPT ![e] = v]
    /\ job' = [job EXCEPT ![e] = "waiting"]
    /\ UNCHANGED <<processed, owner, attempts, stalls, paymentVars, lockVars, initVars, workerVars>>
-----------------------------------------------------------------------------
(* The worker: processStoredNombaWebhook and verifyAndCompletePayment      *)

GoW(w, step) == wpc' = [wpc EXCEPT ![w] = step]
Rest(w) ==
    /\ GoW(w, "idle")
    /\ wjob' = [wjob EXCEPT ![w] = NoEvent]
    /\ wref' = [wref EXCEPT ![w] = NoReference]
    /\ overtaken' = overtaken \ {w}

\* A job a worker finishes after losing its lock is not its own any more.
Finish(w, state) ==
    IF owner[wjob[w]] = w
    THEN /\ job' = [job EXCEPT ![wjob[w]] = state]
         /\ owner' = [owner EXCEPT ![wjob[w]] = Nobody]
    ELSE UNCHANGED <<job, owner>>

Take(w, e) ==
    /\ wpc[w] = "idle"
    /\ job[e] = "waiting"
    /\ job' = [job EXCEPT ![e] = "active"]
    /\ owner' = [owner EXCEPT ![e] = w]
    /\ wjob' = [wjob EXCEPT ![w] = e]
    /\ GoW(w, "read")
    /\ UNCHANGED <<wref, overtaken, attempts, stalls, paymentVars, lockVars, initVars, eventVars>>

\* webhook.processed: nothing to do, the job completes.
SkipProcessed(w) ==
    /\ wpc[w] = "read"
    /\ wjob[w] \in processed
    /\ Finish(w, "completed")
    /\ Rest(w)
    /\ UNCHANGED <<attempts, stalls, paymentVars, lockVars, initVars, eventVars>>

\* "Payment already completed", and a virtual account event, which is logged.
NothingToSettle(w) ==
    /\ wpc[w] = "read"
    /\ wjob[w] \notin processed
    /\ status[PaymentOf(w)] = "SUCCESSFUL" \/ method[OrderOf(w)] = "bank_transfer"
    /\ GoW(w, "mark")
    /\ UNCHANGED <<wjob, wref, overtaken, paymentVars, lockVars, initVars, eventVars, jobVars>>

\* Mutant: verification starts whatever the payment's status is.
ReadPaymentUnchecked(w) ==
    /\ wpc[w] = "read"
    /\ wjob[w] \notin processed
    /\ GoW(w, "verify")
    /\ UNCHANGED <<wjob, wref, overtaken, paymentVars, lockVars, initVars, eventVars, jobVars>>

\* A reference that is not the payment's own is logged, no more.
ReadPayment(w) ==
    /\ wpc[w] = "read"
    /\ wjob[w] \notin processed
    /\ status[PaymentOf(w)] # "SUCCESSFUL"
    /\ method[OrderOf(w)] = "card"
    /\ GoW(w, "verify")
    /\ UNCHANGED <<wjob, wref, overtaken, paymentVars, lockVars, initVars, eventVars, jobVars>>

\* The reads before the try block of verifyAndCompletePayment throw, or
\* markProcessed does, or the BackgroundJob row that should report the
\* success: BullMQ retries the job.
JobThrows(w) ==
    /\ \/ wpc[w] = "read" /\ UNCHANGED processed
       \/ wpc[w] = "mark" /\ processed' \in {processed, processed \cup {wjob[w]}}
    /\ IF owner[wjob[w]] = w
       THEN /\ attempts' = [attempts EXCEPT ![wjob[w]] = @ + 1]
            /\ Finish(w, IF attempts[wjob[w]] + 1 < JobAttempts THEN "waiting" ELSE "failed")
       ELSE UNCHANGED <<attempts, job, owner>>
    /\ Rest(w)
    /\ UNCHANGED <<stalls, event, about, paymentVars, lockVars, initVars>>

\* Mutant: the webhook is believed without asking the provider.
VerifyConfirmsBlindly(w) ==
    /\ wpc[w] = "verify"
    /\ wref' = [wref EXCEPT ![w] = OrderRef(OrderOf(w))]
    /\ GoW(w, "credit")
    /\ UNCHANGED <<wjob, overtaken, paymentVars, lockVars, initVars, eventVars, jobVars>>

\* nombaPayment.verifyPayment of the event's reference: the order is
\* SUCCESSFUL, whatever its amount, and goes on under the name the provider
\* gave it, or without one under the event's; or it is not yet, or the
\* response has no data and reads as FAILED; or the call throws, and the catch
\* block swallows it.
VerifyConfirms(w) ==
    /\ wpc[w] = "verify"
    /\ charge[OrderOf(w)] = "paid"
    /\ \E k \in Namings : wref' = [wref EXCEPT ![w] = [naming |-> k, order |-> OrderOf(w)]]
    /\ GoW(w, "credit")
    /\ UNCHANGED <<wjob, overtaken, paymentVars, lockVars, initVars, eventVars, jobVars>>

VerifyDenies(w) ==
    /\ wpc[w] = "verify"
    /\ GoW(w, "fail")
    /\ UNCHANGED <<wjob, wref, overtaken, paymentVars, lockVars, initVars, eventVars, jobVars>>

VerifyThrows(w) ==
    /\ wpc[w] = "verify"
    /\ GoW(w, "mark")
    /\ UNCHANGED <<wjob, wref, overtaken, paymentVars, lockVars, initVars, eventVars, jobVars>>

\* updateStatus(paymentId, "FAILED"), whatever the row says by now.
MarkFailed(w) ==
    /\ wpc[w] = "fail"
    /\ status' = [status EXCEPT ![PaymentOf(w)] = "FAILED"]
    /\ GoW(w, "mark")
    /\ UNCHANGED <<orderVars, moneyVars, wjob, wref, overtaken,
                   lockVars, initVars, eventVars, jobVars>>

\* BEGIN and processContributionPayment: the group wallet's row is updated,
\* or waited for.
CreditWallet(w) ==
    /\ wpc[w] = "credit"
    /\ walletLock[GroupWallet(w)] = Nobody
    /\ walletLock' = [walletLock EXCEPT ![GroupWallet(w)] = w]
    /\ GoW(w, "check")
    /\ UNCHANGED <<rowLock, wjob, wref, overtaken, paymentVars, initVars, eventVars, jobVars>>

\* Mutant: the settlement transaction is never ended.
UnlockNever(w) == UNCHANGED walletLock

Unlock(w) == walletLock' = [walletLock EXCEPT ![GroupWallet(w)] = Nobody]
Back(w) == backing' = backing \cup {<<PaymentOf(w), OrderOf(w)>>}
CommitCredit(w) == credits' = [credits EXCEPT ![PaymentOf(w)] = @ + 1] /\ Back(w)

\* The payment that holds the verified reference already succeeded.
Superseded(w) == \E q \in Payments : reference[q] = wref[w] /\ status[q] = "SUCCESSFUL"

\* processSuccessfulPayment reads the payment again, inside the transaction,
\* and looks for another one with the reference.
CheckPayment(w) ==
    /\ wpc[w] = "check"
    /\ status[PaymentOf(w)] # "SUCCESSFUL"
    /\ ~ Superseded(w)
    /\ GoW(w, "settle")
    /\ UNCHANGED <<wjob, wref, overtaken, paymentVars, lockVars, initVars, eventVars, jobVars>>

\* "Duplicate webhook: payment already successful": it returns, and the
\* transaction that credited the wallet commits.
DuplicateReturn(w) ==
    /\ wpc[w] = "check"
    /\ status[PaymentOf(w)] = "SUCCESSFUL"
    /\ CommitCredit(w)
    /\ Unlock(w)
    /\ GoW(w, "mark")
    /\ UNCHANGED <<status, orderVars, txns, strays, paid, rowLock, wjob, wref, overtaken,
                   initVars, eventVars, jobVars>>

\* "Duplicate webhook: payment with same provider reference already
\* processed": it returns as well, and this payment's credit commits without a
\* Transaction.
SupersededReturn(w) ==
    /\ wpc[w] = "check"
    /\ status[PaymentOf(w)] # "SUCCESSFUL"
    /\ Superseded(w)
    /\ strays' = [strays EXCEPT ![PaymentOf(w)] = @ + 1]
    /\ Back(w)
    /\ Unlock(w)
    /\ GoW(w, "mark")
    /\ UNCHANGED <<status, orderVars, txns, credits, paid, rowLock, wjob, wref, overtaken,
                   initVars, eventVars, jobVars>>

\* The workers between the two reads of payment p.
Judging(p) ==
    {w \in Workers : wpc[w] \in {"verify", "fail", "credit", "check", "settle"} /\ PaymentOf(w) = p}

\* Transaction.reference and Payment's (provider, providerReference) are unique.
ReferenceTaken(w) ==
    \/ \E t \in txns : t.reference = wref[w]
    \/ \E q \in Payments \ {PaymentOf(w)} : reference[q] = wref[w]

\* Transaction row, payment SUCCESSFUL, contribution PAID, COMMIT.
Settle(w) ==
    /\ wpc[w] = "settle"
    /\ ~ ReferenceTaken(w)
    /\ rowLock[payFor[PaymentOf(w)]] = Nobody
    /\ txns' = txns \cup {[payment |-> PaymentOf(w), reference |-> wref[w]]}
    /\ status' = [status EXCEPT ![PaymentOf(w)] = "SUCCESSFUL"]
    /\ reference' = [reference EXCEPT ![PaymentOf(w)] = wref[w]]
    /\ paid' = paid \cup {payFor[PaymentOf(w)]}
    /\ CommitCredit(w)
    /\ Unlock(w)
    /\ overtaken' = overtaken \cup (Judging(PaymentOf(w)) \ {w})
    /\ GoW(w, "mark")
    /\ UNCHANGED <<payFor, method, charge, strays, rowLock, wjob, wref, initVars, eventVars, jobVars>>

\* Mutant: the wallet was credited outside the transaction that fails.
RollbackSettlementCredited(w) ==
    /\ Unlock(w)
    /\ CommitCredit(w)
    /\ GoW(w, "mark")
    /\ UNCHANGED <<status, orderVars, txns, strays, paid, rowLock, wjob, wref, overtaken,
                   initVars, eventVars, jobVars>>

\* The reference is taken, or anything else throws (a lock or transaction
\* timeout, the audit log): ROLLBACK, and the error is swallowed.
RollbackSettlement(w) ==
    /\ Unlock(w)
    /\ GoW(w, "mark")
    /\ UNCHANGED <<rowLock, wjob, wref, overtaken, paymentVars, initVars, eventVars, jobVars>>

DuplicateReference(w) == wpc[w] = "settle" /\ ReferenceTaken(w) /\ RollbackSettlement(w)
SettlementThrows(w)   == InTransaction(w) /\ RollbackSettlement(w)

MarkProcessed(w) ==
    /\ wpc[w] = "mark"
    /\ processed' = processed \cup {wjob[w]}
    /\ Finish(w, "completed")
    /\ Rest(w)
    /\ UNCHANGED <<event, about, attempts, stalls, paymentVars, lockVars, initVars>>

Work(w) ==
    \/ \E e \in Events : Take(w, e)
    \/ SkipProcessed(w) \/ NothingToSettle(w) \/ ReadPayment(w) \/ JobThrows(w)
    \/ VerifyConfirms(w) \/ VerifyDenies(w) \/ VerifyThrows(w) \/ MarkFailed(w)
    \/ CreditWallet(w) \/ CheckPayment(w) \/ DuplicateReturn(w)
    \/ SupersededReturn(w)
    \/ Settle(w) \/ DuplicateReference(w) \/ MarkProcessed(w)
-----------------------------------------------------------------------------
\* BullMQ's stalled check: the lock of an active job was not renewed in time.
\* The job is queued again, or failed, while its worker may still be running.
Stall(e) ==
    /\ job[e] = "active"
    /\ stalls' = [stalls EXCEPT ![e] = @ + 1]
    /\ job' = [job EXCEPT ![e] = IF stalls[e] < MaxStalledCount THEN "waiting" ELSE "failed"]
    /\ owner' = [owner EXCEPT ![e] = Nobody]
    /\ UNCHANGED <<attempts, paymentVars, lockVars, initVars, eventVars, workerVars>>

\* The server dies: requests and workers vanish, their transactions roll back.
\* Active jobs keep the state Redis holds until the stalled check finds them.
Crash ==
    /\ ipc' = [i \in Initiators |->
                  IF ipc[i] \in {"idle", "done", "refused", "error"} THEN ipc[i] ELSE "lost"]
    /\ wpc' = [w \in Workers |-> "idle"]
    /\ wjob' = [w \in Workers |-> NoEvent]
    /\ wref' = [w \in Workers |-> NoReference]
    /\ overtaken' = {}
    /\ owner' = [e \in Events |-> Nobody]
    /\ rowLock' = [c \in Contributions |-> Nobody]
    /\ walletLock' = [g \in Groups |-> Nobody]
    /\ UNCHANGED <<paymentVars, icon, ipay, eventVars, job, attempts, stalls>>

Next ==
    \/ \E i \in Initiators : Request(i) \/ Initiate(i) \/ RequestThrows(i)
    \/ \E p \in Payments : Pay(p)
    \/ \E e \in Events : Deliver(e) \/ Stall(e)
    \/ \E w \in Workers : Work(w) \/ SettlementThrows(w)
    \/ Crash

Spec == Init /\ [][Next]_vars

\* A request that was accepted and a worker that has a job keep running, and
\* the stalled check runs.  Members, the provider and failures are not fair.
Fairness ==
    /\ \A i \in Initiators : WF_vars(Initiate(i))
    /\ \A w \in Workers : WF_vars(Work(w))
    /\ \A e \in Events : WF_vars(Stall(e) /\ owner[e] = Nobody)

FairSpec == Spec /\ Fairness
-----------------------------------------------------------------------------
\* Type invariant.
TypeOK ==
    /\ status \in [Payments -> Statuses]
    /\ payFor \in [Payments -> Contributions \cup {NoContribution}]
    /\ method \in [Payments -> Methods \cup {"none"}]
    /\ reference \in [Payments -> References \cup {NoReference}]
    /\ charge \in [Payments -> {"none", "open", "paid"}]
    /\ txns \subseteq [payment : Payments, reference : References]
    /\ credits \in [Payments -> Nat]
    /\ strays \in [Payments -> Nat]
    /\ backing \subseteq Payments \X Payments
    /\ paid \subseteq Contributions
    /\ rowLock \in [Contributions -> Initiators \cup {Nobody}]
    /\ walletLock \in [Groups -> Workers \cup {Nobody}]
    /\ ipc \in [Initiators -> ISteps]
    /\ icon \in [Initiators -> Contributions \cup {NoContribution}]
    /\ ipay \in [Initiators -> Payments \cup {NoPayment}]
    /\ event \in [Events -> Payments \cup {NoPayment}]
    /\ about \in [Events -> Payments \cup {NoPayment}]
    /\ processed \subseteq Events
    /\ job \in [Events -> {"none", "waiting", "active", "completed", "failed"}]
    /\ owner \in [Events -> Workers \cup {Nobody}]
    /\ attempts \in [Events -> 0..JobAttempts]
    /\ stalls \in [Events -> 0..(MaxStalledCount + 1)]
    /\ wpc \in [Workers -> WSteps]
    /\ wjob \in [Workers -> Events \cup {NoEvent}]
    /\ wref \in [Workers -> References \cup {NoReference}]
    /\ overtaken \subseteq Workers

TransactionsOf(p) == {t \in txns : t.payment = p}

\* A settlement is all or nothing, through crashes and rollbacks: the
\* Transaction row, the wallet credit and the contribution's PAID come
\* together, and no SUCCESSFUL payment or PAID contribution is without them.
\* A credit with no Transaction of its own payment was made on the charge of a
\* Transaction another payment has.
SettlementAtomic ==
    /\ \A p \in Payments :
          /\ TransactionsOf(p) # {} <=> credits[p] > 0
          /\ TransactionsOf(p) # {} => payFor[p] \in paid
          /\ status[p] = "SUCCESSFUL" => TransactionsOf(p) # {}
          /\ strays[p] > 0 => \E t \in txns : t.payment # p /\ <<p, t.reference.order>> \in backing
    /\ \A c \in paid : \E t \in txns : payFor[t.payment] = c

\* The group wallet is only credited on a charge the provider took from a
\* payer and named to the verification.  Whose charge it was is another matter.
CreditNeedsCharge ==
    /\ \A b \in backing : charge[b[2]] = "paid"
    /\ \A p \in Payments : credits[p] + strays[p] > 0 => \E v \in Payments : <<p, v>> \in backing

\* How often one payment can be credited: once per worker slot for each of its
\* Transactions.  A surplus credit needs a worker that read the payment before
\* the settlement committed; retries, redeliveries and restarts add none.
CreditsBoundedByWorkers ==
    \A p \in Payments : credits[p] <= Cardinality(Workers) * Cardinality(TransactionsOf(p))

\* The wallet is credited once for each payment, however often and however
\* concurrently its success is reported.
CreditedOnce == \A p \in Payments : credits[p] + strays[p] <= 1

\* What is done to a SUCCESSFUL payment, FAILED written over it or a further
\* credit, is done by a worker that had read it before another worker's
\* settlement committed: whoever reads SUCCESSFUL leaves it alone.
OnlyOvertakenDisturb ==
    [][\A p \in Payments : status[p] = "SUCCESSFUL" =>
          \/ status'[p] = "SUCCESSFUL" /\ credits'[p] = credits[p] /\ strays'[p] = strays[p]
          \/ \E w \in overtaken : PaymentOf(w) = p /\ wpc[w] # "mark" /\ wpc'[w] = "mark"]_vars

\* A payment that succeeded stays SUCCESSFUL: no late answer of the provider
\* turns it into a failure.
SuccessIsFinal ==
    [][\A p \in Payments : status[p] = "SUCCESSFUL" => status'[p] = "SUCCESSFUL"]_vars

\* A payment is credited on its own charge.
CreditedOnItsCharge == \A b \in backing : b[1] = b[2]

\* Every credit of the group wallet has a Transaction of its payment.
EveryCreditHasTransaction == \A p \in Payments : strays[p] = 0

\* A payment is opened only for a contribution that is unpaid and has no other
\* payment under way, judged at the moment the row becomes visible.
OpensAlone ==
    [][\A p \in Payments : status[p] = "none" /\ status'[p] # "none" =>
          /\ payFor'[p] \notin paid'
          /\ \A q \in Payments \ {p} :
                payFor'[q] = payFor'[p] => status'[q] = "FAILED"]_vars

\* An event marked processed has had its effect: the charge it reports has
\* been credited.
ProcessedMeansCredited == \A e \in processed : credits[event[e]] > 0

\* One contribution is settled by one payment.
OneSettlementEach ==
    \A t, u \in txns : payFor[t.payment] = payFor[u.payment] => t = u

\* No accepted request dies on the way to its Payment row: it is refused only
\* because the contribution is paid or being paid.
InitiationReachesRow == \A i \in Initiators : ipc[i] # "error"

\* Every job ends: no lock is kept, no worker waits forever.
EveryJobEnds == \A e \in Events : job[e] = "waiting" ~> job[e] \in {"completed", "failed"}

\* Every request is answered.
EveryInitiationEnds == \A i \in Initiators : ipc[i] = "lock" ~> ipc[i] \in {"done", "refused", "error", "lost"}
=============================================================================
