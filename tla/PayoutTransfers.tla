-------------------------- MODULE PayoutTransfers --------------------------
(***************************************************************************)
(* Paying out of a group wallet: PayoutService moves a Payout through its  *)
(* states by reading a row and writing it later, in separate statements    *)
(* and without a transaction; processPayout queues one job per recipient   *)
(* and ProcessPayoutTransferProcessor debits the wallet, asks the provider *)
(* for a transfer, and credits the wallet back when anything throws.       *)
(*                                                                         *)
(* WalletService's calls are the atomic operations AtomicWallets describes.*)
(***************************************************************************)
EXTENDS Integers, FiniteSets

CONSTANTS
    Payouts,         \* ids of Payout rows, all of one group
    Recipients,      \* ids of PayoutRecipient rows, one unit of money each
    PayoutOf,        \* the payout a recipient belongs to
    Requests,        \* concurrent calls of the payout routes by group admins
    Workers,         \* concurrency slots of the payout.queue worker
    Jobs,            \* ids of BullMQ jobs, which bound how many are queued
    OpeningBalance,  \* units in the group wallet
    JobAttempts,     \* JOB_ATTEMPTS
    MaxStalledCount, \* BullMQ's default, 1
    MaxRetries,      \* 3 in retryFailedTransfer
    Faults,          \* what the environment may do, see AllFaults
    NoPayout, NoRecipient, NoJob, Nobody

\* "accepted": the provider answers that a transfer is under way; "timeout":
\* the call throws although the transfer was accepted; "audit": the audit log
\* written after the committed debit throws; "credit": the reversal throws;
\* "accounts": a recipient account fails validation after the Payout row was
\* inserted; "database": any other statement throws; "crash" and "stall": the
\* server dies, a job's lock expires.
AllFaults == {"accepted", "timeout", "audit", "credit", "accounts", "database", "crash", "stall"}

ASSUME PayoutTransfersAssumption ==
    /\ PayoutOf \in [Recipients -> Payouts]
    /\ IsFiniteSet(Requests) /\ IsFiniteSet(Workers) /\ IsFiniteSet(Jobs)
    /\ OpeningBalance \in Nat
    /\ JobAttempts \in Nat \ {0}
    /\ MaxStalledCount \in Nat
    /\ MaxRetries \in Nat \ {0}
    /\ Faults \subseteq AllFaults
    /\ NoPayout \notin Payouts
    /\ NoRecipient \notin Recipients
    /\ NoJob \notin Jobs
    /\ Nobody \notin Workers

VARIABLES
    balance,     \* Wallet.balance of the group, committed
    pstatus,     \* Payout.status, "none" before the row exists
    approved,    \* payouts with an APPROVED PayoutApproval row
    rstatus,     \* PayoutRecipient.status, "none" before the row exists
    retryCount,  \* PayoutRecipient.retryCount
    debits, reversals, \* ledger entries of a recipient's debits and credits back
    sent,        \* recipients the provider pays, whatever it answered
    marred,      \* history: recipients one of whose executions went wrong
    rpc, rpay, rtodo,  \* request: step, payout, recipients or recipient to queue
    jrec, jgroup,      \* job payload: recipientId, whether it has a groupId
    job, owner, attempts, stalls, \* job: state, lock, counters
    wpc, wjob, debitDone, \* worker: step, job, the local flag
    overtaken    \* history: workers whose recipient another recorded as paid
                 \* after they had looked at its status

moneyVars  == <<balance, debits, reversals, sent, marred>>
rowVars    == <<pstatus, approved, rstatus, retryCount>>
reqVars    == <<rpc, rpay, rtodo>>
jobVars    == <<jrec, jgroup, job, owner, attempts, stalls>>
workerVars == <<wpc, wjob, debitDone, overtaken>>
vars == <<moneyVars, rowVars, reqVars, jobVars, workerVars>>

RecipientsOf(p) == {r \in Recipients : PayoutOf[r] = p}
AmountOf(p) == Cardinality(RecipientsOf(p))
Rows(p) == {r \in RecipientsOf(p) : rstatus[r] # "none"}
Recipient(w) == jrec[wjob[w]]

Init ==
    /\ balance = OpeningBalance
    /\ pstatus = [p \in Payouts |-> "none"]
    /\ approved = {}
    /\ rstatus = [r \in Recipients |-> "none"]
    /\ retryCount = [r \in Recipients |-> 0]
    /\ debits = [r \in Recipients |-> 0]
    /\ reversals = [r \in Recipients |-> 0]
    /\ sent = {} /\ marred = {} /\ overtaken = {}
    /\ rpc = [a \in Requests |-> "idle"]
    /\ rpay = [a \in Requests |-> NoPayout]
    /\ rtodo = [a \in Requests |-> {}]
    /\ jrec = [j \in Jobs |-> NoRecipient]
    /\ jgroup = [j \in Jobs |-> FALSE]
    /\ job = [j \in Jobs |-> "none"]
    /\ owner = [j \in Jobs |-> Nobody]
    /\ attempts = [j \in Jobs |-> 0]
    /\ stalls = [j \in Jobs |-> 0]
    /\ wpc = [w \in Workers |-> "idle"]
    /\ wjob = [w \in Workers |-> NoJob]
    /\ debitDone = [w \in Workers |-> FALSE]
-----------------------------------------------------------------------------
(* PayoutService                                                           *)

GoR(a, step) == rpc' = [rpc EXCEPT ![a] = step]
EndR(a) == GoR(a, "idle") /\ rpay' = [rpay EXCEPT ![a] = NoPayout] /\ rtodo' = [rtodo EXCEPT ![a] = {}]
SetPayout(p, s) == pstatus' = [pstatus EXCEPT ![p] = s]

\* createPayout: the wallet covers the amount and no PENDING payout of the
\* group has the same amount, as of these reads.
CheckCreate(a) ==
    /\ rpc[a] = "idle"
    /\ \E p \in Payouts :
          /\ pstatus[p] = "none"
          /\ \A b \in Requests : rpay[b] # p
          /\ balance >= AmountOf(p)
          /\ \A q \in Payouts : pstatus[q] = "PENDING" => AmountOf(q) # AmountOf(p)
          /\ rpay' = [rpay EXCEPT ![a] = p]
    /\ GoR(a, "insert")
    /\ UNCHANGED <<rtodo, moneyVars, rowVars, jobVars, workerVars>>

InsertPayout(a) ==
    /\ rpc[a] = "insert"
    /\ SetPayout(rpay[a], "PENDING")
    /\ GoR(a, "recipients")
    /\ UNCHANGED <<approved, rstatus, retryCount, rpay, rtodo, moneyVars, jobVars, workerVars>>

\* recipientRepository.createMany, or the throw that leaves the row without.
InsertRecipients(a) ==
    /\ rpc[a] = "recipients"
    /\ \/ rstatus' = [r \in Recipients |->
                         IF PayoutOf[r] = rpay[a] THEN "PENDING" ELSE rstatus[r]]
       \/ "accounts" \in Faults /\ UNCHANGED rstatus
    /\ EndR(a)
    /\ UNCHANGED <<pstatus, approved, retryCount, moneyVars, jobVars, workerVars>>

\* "Payout must be approved first".
Processable == {"APPROVED"}

\* approvePayout, rejectPayout, cancelPayout and processPayout read the status
\* first and write it after their access checks.
ReadPayout(a, step, allowed) ==
    /\ rpc[a] = "idle"
    /\ \E p \in Payouts :
          /\ pstatus[p] \in allowed
          /\ rpay' = [rpay EXCEPT ![a] = p]
    /\ GoR(a, step)
    /\ UNCHANGED <<rtodo, moneyVars, rowVars, jobVars, workerVars>>

CheckApprove(a) == ReadPayout(a, "approve", {"PENDING"})
CheckReject(a)  == ReadPayout(a, "reject", {"PENDING"})
CheckCancel(a)  == ReadPayout(a, "cancel", {"PENDING", "APPROVED"})
CheckProcess(a) == ReadPayout(a, "process", Processable)

\* The PayoutApproval row, which no code reads, and the status.
ApprovePayout(a) ==
    /\ rpc[a] = "approve"
    /\ approved' = approved \cup {rpay[a]}
    /\ SetPayout(rpay[a], "APPROVED")
    /\ EndR(a)
    /\ UNCHANGED <<rstatus, retryCount, moneyVars, jobVars, workerVars>>

ClosePayout(a, step, s) ==
    /\ rpc[a] = step
    /\ SetPayout(rpay[a], s)
    /\ EndR(a)
    /\ UNCHANGED <<approved, rstatus, retryCount, moneyVars, jobVars, workerVars>>

RejectPayout(a) == ClosePayout(a, "reject", "REJECTED")
CancelPayout(a) == ClosePayout(a, "cancel", "CANCELLED")

\* "Insufficient group wallet balance", or PROCESSING and the recipients read
\* with the payout are queued one by one.
RefuseProcess(a) ==
    /\ rpc[a] = "process"
    /\ balance < AmountOf(rpay[a])
    /\ EndR(a)
    /\ UNCHANGED <<moneyVars, rowVars, jobVars, workerVars>>

ProcessPayout(a) ==
    /\ rpc[a] = "process"
    /\ balance >= AmountOf(rpay[a])
    /\ SetPayout(rpay[a], "PROCESSING")
    /\ rtodo' = [rtodo EXCEPT ![a] = Rows(rpay[a])]
    /\ GoR(a, "queue")
    /\ UNCHANGED <<approved, rstatus, retryCount, rpay, moneyVars, jobVars, workerVars>>

AddJob(r, withGroup) ==
    \E j \in Jobs :
        /\ job[j] = "none"
        /\ job' = [job EXCEPT ![j] = "waiting"]
        /\ jrec' = [jrec EXCEPT ![j] = r]
        /\ jgroup' = [jgroup EXCEPT ![j] = withGroup]
        /\ UNCHANGED <<owner, attempts, stalls>>

QueueTransfer(a) ==
    /\ rpc[a] = "queue"
    /\ \E r \in rtodo[a] :
          /\ AddJob(r, TRUE)
          /\ rtodo' = [rtodo EXCEPT ![a] = @ \ {r}]
    /\ UNCHANGED <<rpc, rpay, moneyVars, rowVars, workerVars>>

AllQueued(a) ==
    /\ rpc[a] = "queue"
    /\ rtodo[a] = {}
    /\ EndR(a)
    /\ UNCHANGED <<moneyVars, rowVars, jobVars, workerVars>>

\* retryFailedTransfer: the count is raised and a job without groupId queued.
CheckRetry(a) ==
    /\ rpc[a] = "idle"
    /\ \E r \in Recipients :
          /\ rstatus[r] = "FAILED"
          /\ retryCount[r] < MaxRetries
          /\ rtodo' = [rtodo EXCEPT ![a] = {r}]
    /\ GoR(a, "retry")
    /\ UNCHANGED <<rpay, moneyVars, rowVars, jobVars, workerVars>>

RaiseRetryCount(a) ==
    /\ rpc[a] = "retry"
    /\ retryCount' = [r \in Recipients |-> retryCount[r] + IF r \in rtodo[a] THEN 1 ELSE 0]
    /\ GoR(a, "requeue")
    /\ UNCHANGED <<pstatus, approved, rstatus, rpay, rtodo, moneyVars, jobVars, workerVars>>

RequeueTransfer(a) ==
    /\ rpc[a] = "requeue"
    /\ \E r \in rtodo[a] : AddJob(r, FALSE)
    /\ EndR(a)
    /\ UNCHANGED <<moneyVars, rowVars, workerVars>>

Create(a) == CheckCreate(a) \/ InsertPayout(a) \/ InsertRecipients(a)
Decide(a) == \/ CheckApprove(a) \/ ApprovePayout(a) \/ CheckReject(a) \/ RejectPayout(a)
             \/ CheckCancel(a) \/ CancelPayout(a)
Process(a) == \/ CheckProcess(a) \/ RefuseProcess(a) \/ ProcessPayout(a)
              \/ QueueTransfer(a) \/ AllQueued(a)
Retry(a) == CheckRetry(a) \/ RaiseRetryCount(a) \/ RequeueTransfer(a)

\* The request's next statement throws: what it wrote so far stays.
RequestThrows(a) ==
    /\ "database" \in Faults
    /\ rpc[a] # "idle"
    /\ EndR(a)
    /\ UNCHANGED <<moneyVars, rowVars, jobVars, workerVars>>

\* What a request does once it was let in.
Continue(a) ==
    \/ InsertPayout(a) \/ InsertRecipients(a) \/ ApprovePayout(a) \/ RejectPayout(a)
    \/ CancelPayout(a) \/ RefuseProcess(a) \/ ProcessPayout(a) \/ QueueTransfer(a)
    \/ AllQueued(a) \/ RaiseRetryCount(a) \/ RequeueTransfer(a)
-----------------------------------------------------------------------------
(* ProcessPayoutTransferProcessor                                          *)

GoW(w, step) == wpc' = [wpc EXCEPT ![w] = step]
SetRecipient(w, s) == rstatus' = [rstatus EXCEPT ![Recipient(w)] = s]
Mar(w) == marred' = marred \cup {Recipient(w)}

\* The other executions for w's recipient that are past their look at its row.
Outrun(w) ==
    {v \in Workers \ {w} : wpc[v] \notin {"idle", "read"} /\ Recipient(v) = Recipient(w)}

\* The execution ends; having recorded the recipient as paid, it overtakes them.
Leave(w, passed) == overtaken' = (overtaken \cup passed) \ {w}

\* Mutant: the job keeps its state and its lock.
EndJobLocked(w, state) ==
    /\ GoW(w, "idle")
    /\ wjob' = [wjob EXCEPT ![w] = NoJob]
    /\ debitDone' = [debitDone EXCEPT ![w] = FALSE]
    /\ UNCHANGED <<job, owner>>

\* The end of an execution; a job whose lock was lost is not the worker's.
EndJob(w, state) ==
    /\ IF owner[wjob[w]] = w
       THEN /\ job' = [job EXCEPT ![wjob[w]] = state]
            /\ owner' = [owner EXCEPT ![wjob[w]] = Nobody]
       ELSE UNCHANGED <<job, owner>>
    /\ GoW(w, "idle")
    /\ wjob' = [wjob EXCEPT ![w] = NoJob]
    /\ debitDone' = [debitDone EXCEPT ![w] = FALSE]

Take(w, j) ==
    /\ wpc[w] = "idle"
    /\ job[j] = "waiting"
    /\ job' = [job EXCEPT ![j] = "active"]
    /\ owner' = [owner EXCEPT ![j] = w]
    /\ wjob' = [wjob EXCEPT ![w] = j]
    /\ GoW(w, "read")
    /\ UNCHANGED <<jrec, jgroup, attempts, stalls, debitDone, overtaken, moneyVars, rowVars, reqVars>>

\* Mutant: the status of the recipient is not looked at.
NeverPaid(w) == FALSE

\* "Recipient already processed".
AlreadyPaid(w) == rstatus[Recipient(w)] = "SUCCESSFUL"

SkipSuccessful(w) ==
    /\ wpc[w] = "read"
    /\ AlreadyPaid(w)
    /\ EndJob(w, "completed")
    /\ Leave(w, {})
    /\ UNCHANGED <<jrec, jgroup, attempts, stalls, moneyVars, rowVars, reqVars>>

ReadRecipient(w) ==
    /\ wpc[w] = "read"
    /\ ~ AlreadyPaid(w)
    /\ GoW(w, "start")
    /\ UNCHANGED <<wjob, debitDone, overtaken, moneyVars, rowVars, reqVars, jobVars>>

\* The recipient is PROCESSING; only a payload with a groupId leads to a debit.
StartTransfer(w) ==
    /\ wpc[w] = "start"
    /\ SetRecipient(w, "PROCESSING")
    /\ GoW(w, IF jgroup[wjob[w]] THEN "debit" ELSE "transfer")
    /\ UNCHANGED <<pstatus, approved, retryCount, wjob, debitDone, overtaken,
                   moneyVars, reqVars, jobVars>>

Debit(w) ==
    /\ balance >= 1
    /\ balance' = balance - 1
    /\ debits' = [debits EXCEPT ![Recipient(w)] = @ + 1]

DebitWallet(w) ==
    /\ wpc[w] = "debit"
    /\ Debit(w)
    /\ debitDone' = [debitDone EXCEPT ![w] = TRUE]
    /\ GoW(w, "transfer")
    /\ UNCHANGED <<reversals, sent, marred, wjob, overtaken, rowVars, reqVars, jobVars>>

\* debit throws after its COMMIT: debitDone is not set.
DebitUnaudited(w) ==
    /\ "audit" \in Faults
    /\ wpc[w] = "debit"
    /\ Debit(w)
    /\ Mar(w)
    /\ GoW(w, "fail")
    /\ UNCHANGED <<reversals, sent, wjob, debitDone, overtaken, rowVars, reqVars, jobVars>>

RefuseDebit(w) ==
    /\ wpc[w] = "debit"
    /\ balance < 1
    /\ GoW(w, "fail")
    /\ UNCHANGED <<wjob, debitDone, overtaken, moneyVars, rowVars, reqVars, jobVars>>

\* transferService.initiateTransfer.  The reference depends on payout and
\* recipient only, and the provider executes a reference at most once: asked
\* again, it answers for the transfer it has.
TransferDone(w) ==
    /\ wpc[w] = "transfer"
    /\ sent' = sent \cup {Recipient(w)}
    /\ GoW(w, "record")
    /\ UNCHANGED <<balance, debits, reversals, marred, wjob, debitDone, overtaken, rowVars, reqVars, jobVars>>

\* Any answer but SUCCESSFUL: the row is updated, then the job that would poll
\* the transfer goes to a queue nobody created, and addJob throws.
TransferAccepted(w) ==
    /\ "accepted" \in Faults
    /\ wpc[w] = "transfer"
    /\ \/ UNCHANGED <<sent, marred>>
       \/ sent' = sent \cup {Recipient(w)} /\ Mar(w)
    /\ SetRecipient(w, "PROCESSING")
    /\ GoW(w, "fail")
    /\ UNCHANGED <<balance, debits, reversals, pstatus, approved, retryCount,
                   wjob, debitDone, overtaken, reqVars, jobVars>>

TransferRefused(w) ==
    /\ wpc[w] = "transfer"
    /\ Recipient(w) \notin sent
    /\ GoW(w, "fail")
    /\ UNCHANGED <<wjob, debitDone, overtaken, moneyVars, rowVars, reqVars, jobVars>>

TransferTimesOut(w) ==
    /\ "timeout" \in Faults
    /\ wpc[w] = "transfer"
    /\ sent' = sent \cup {Recipient(w)}
    /\ Mar(w)
    /\ GoW(w, "fail")
    /\ UNCHANGED <<balance, debits, reversals, wjob, debitDone, overtaken, rowVars, reqVars, jobVars>>

RecordSuccess(w) ==
    /\ wpc[w] = "record"
    /\ SetRecipient(w, "SUCCESSFUL")
    /\ EndJob(w, "completed")
    /\ Leave(w, Outrun(w))
    /\ UNCHANGED <<pstatus, approved, retryCount, jrec, jgroup, attempts, stalls,
                   moneyVars, reqVars>>

\* Mutants: always credit back, never credit back.
DebitAssumed(w) == TRUE
DebitForgotten(w) == FALSE

\* debitDone && wallet
DebitKnown(w) == debitDone[w]

\* The catch block: credit back if the debit is known to have happened; a
\* reversal that throws is logged only.
CreditBack(w) ==
    /\ wpc[w] = "fail"
    /\ DebitKnown(w)
    /\ \/ /\ balance' = balance + 1
          /\ reversals' = [reversals EXCEPT ![Recipient(w)] = @ + 1]
          /\ UNCHANGED marred
       \/ "credit" \in Faults /\ Mar(w) /\ UNCHANGED <<balance, reversals>>
    /\ GoW(w, "failed")
    /\ UNCHANGED <<debits, sent, wjob, debitDone, overtaken, rowVars, reqVars, jobVars>>

NothingToCredit(w) ==
    /\ wpc[w] = "fail"
    /\ ~ DebitKnown(w)
    /\ GoW(w, "failed")
    /\ UNCHANGED <<wjob, debitDone, overtaken, moneyVars, rowVars, reqVars, jobVars>>

\* BullMQ runs a job that threw again until its attempts are used.
AfterFailure(j) == IF attempts[j] + 1 < JobAttempts THEN "waiting" ELSE "failed"

FailJob(w) ==
    /\ EndJob(w, AfterFailure(wjob[w]))
    /\ IF owner[wjob[w]] = w
       THEN attempts' = [attempts EXCEPT ![wjob[w]] = @ + 1]
       ELSE UNCHANGED attempts
    /\ UNCHANGED <<jrec, jgroup, stalls>>

\* FAILED and rethrow.
FailTransfer(w) ==
    /\ wpc[w] = "failed"
    /\ SetRecipient(w, "FAILED")
    /\ FailJob(w)
    /\ Leave(w, {})
    /\ UNCHANGED <<pstatus, approved, retryCount, moneyVars, reqVars>>

\* A statement inside the try block throws: reading the wallet, or recording
\* the transfer that was made.
StatementThrows(w) ==
    /\ "database" \in Faults
    /\ \/ wpc[w] = "debit" /\ UNCHANGED marred
       \/ wpc[w] = "record" /\ Mar(w)
    /\ GoW(w, "fail")
    /\ UNCHANGED <<balance, debits, reversals, sent, wjob, debitDone, overtaken,
                   rowVars, reqVars, jobVars>>

\* A statement outside it throws: reading or starting the recipient, the
\* update to FAILED, or the BackgroundJob row that should report the success.
ExecutionThrows(w) ==
    /\ "database" \in Faults
    /\ \/ wpc[w] \in {"read", "start", "failed"} /\ UNCHANGED rstatus /\ Leave(w, {})
       \/ wpc[w] = "record" /\ SetRecipient(w, "SUCCESSFUL") /\ Leave(w, Outrun(w))
    /\ FailJob(w)
    /\ UNCHANGED <<pstatus, approved, retryCount, moneyVars, reqVars>>

Work(w) ==
    \/ \E j \in Jobs : Take(w, j)
    \/ SkipSuccessful(w) \/ ReadRecipient(w) \/ StartTransfer(w)
    \/ DebitWallet(w) \/ DebitUnaudited(w) \/ RefuseDebit(w)
    \/ TransferDone(w) \/ TransferAccepted(w) \/ TransferRefused(w) \/ TransferTimesOut(w)
    \/ RecordSuccess(w) \/ CreditBack(w) \/ NothingToCredit(w) \/ FailTransfer(w)
-----------------------------------------------------------------------------
\* BullMQ's stalled check, as in PaymentSettlement.  A worker that lives on
\* and a second one then execute the same job.
Stall(j) ==
    /\ "stall" \in Faults \/ owner[j] = Nobody
    /\ job[j] = "active"
    /\ stalls' = [stalls EXCEPT ![j] = @ + 1]
    /\ job' = [job EXCEPT ![j] = IF stalls[j] < MaxStalledCount THEN "waiting" ELSE "failed"]
    /\ owner' = [owner EXCEPT ![j] = Nobody]
    /\ marred' = IF owner[j] = Nobody THEN marred ELSE marred \cup {jrec[j]}
    /\ UNCHANGED <<jrec, jgroup, attempts, balance, debits, reversals, sent,
                   rowVars, reqVars, workerVars>>

\* Executions that took money and know it, and have not credited it back.
AtStake == {w \in Workers : debitDone[w] /\ wpc[w] \in {"transfer", "record", "fail"}}

Crash ==
    /\ "crash" \in Faults
    /\ marred' = marred \cup {Recipient(w) : w \in AtStake}
    /\ rpc' = [a \in Requests |-> "idle"]
    /\ rpay' = [a \in Requests |-> NoPayout]
    /\ rtodo' = [a \in Requests |-> {}]
    /\ wpc' = [w \in Workers |-> "idle"]
    /\ wjob' = [w \in Workers |-> NoJob]
    /\ debitDone' = [w \in Workers |-> FALSE]
    /\ overtaken' = {}
    /\ owner' = [j \in Jobs |-> Nobody]
    /\ UNCHANGED <<jrec, jgroup, job, attempts, stalls,
                   balance, debits, reversals, sent, rowVars>>

Next ==
    \/ \E a \in Requests : Create(a) \/ Decide(a) \/ Process(a) \/ Retry(a) \/ RequestThrows(a)
    \/ \E w \in Workers : Work(w) \/ StatementThrows(w) \/ ExecutionThrows(w)
    \/ \E j \in Jobs : Stall(j)
    \/ Crash

Spec == Init /\ [][Next]_vars

Fairness ==
    /\ \A a \in Requests : WF_vars(Continue(a))
    /\ \A w \in Workers : WF_vars(Work(w))
    /\ \A j \in Jobs : WF_vars(Stall(j) /\ owner[j] = Nobody)

FairSpec == Spec /\ Fairness
-----------------------------------------------------------------------------
(* Properties                                                              *)

TypeOK ==
    /\ balance \in Nat
    /\ pstatus \in [Payouts -> {"none", "PENDING", "APPROVED", "REJECTED", "CANCELLED", "PROCESSING"}]
    /\ approved \subseteq Payouts
    /\ rstatus \in [Recipients -> {"none", "PENDING", "PROCESSING", "SUCCESSFUL", "FAILED"}]
    /\ retryCount \in [Recipients -> 0..MaxRetries - 1 + Cardinality(Requests)]
    /\ debits \in [Recipients -> Nat] /\ reversals \in [Recipients -> Nat]
    /\ sent \subseteq Recipients /\ marred \subseteq Recipients
    /\ rpc \in [Requests -> {"idle", "insert", "recipients", "approve", "reject", "cancel",
                             "process", "queue", "retry", "requeue"}]
    /\ rpay \in [Requests -> Payouts \cup {NoPayout}]
    /\ rtodo \in [Requests -> SUBSET Recipients]
    /\ jrec \in [Jobs -> Recipients \cup {NoRecipient}]
    /\ jgroup \in [Jobs -> BOOLEAN]
    /\ job \in [Jobs -> {"none", "waiting", "active", "completed", "failed"}]
    /\ owner \in [Jobs -> Workers \cup {Nobody}]
    /\ attempts \in [Jobs -> 0..JobAttempts]
    /\ stalls \in [Jobs -> 0..MaxStalledCount + 1]
    /\ wpc \in [Workers -> {"idle", "read", "start", "debit", "transfer", "record", "fail", "failed"}]
    /\ wjob \in [Workers -> Jobs \cup {NoJob}]
    /\ debitDone \in [Workers -> BOOLEAN]
    /\ overtaken \subseteq Workers

JobsOf(r) == {j \in Jobs : jrec[j] = r}

\* No execution for the recipient is running or will run by itself.
Quiet(r) ==
    /\ \A j \in JobsOf(r) : job[j] \in {"completed", "failed"}
    /\ \A w \in Workers : wpc[w] # "idle" => Recipient(w) # r

\* No sequence of retries, crashes, stalls and lost answers credits a group for
\* a payout it was not debited for: the catch block reverses only what its own
\* execution took.
ReversalNeedsDebit == \A r \in Recipients : reversals[r] <= debits[r]

\* A recipient recorded SUCCESSFUL is overwritten by nobody but an execution
\* that had read the row before: a payout processed twice, a retry or a job run
\* again after a crash, that starts afterwards, leaves the row alone.
OnlyOvertakenDisturb ==
    [][\A r \in Recipients :
          rstatus[r] = "SUCCESSFUL" /\ rstatus'[r] # "SUCCESSFUL"
              => \E w \in overtaken : Recipient(w) = r]_vars

\* "Recipient already processed" (payout.processor.ts): a recipient recorded
\* SUCCESSFUL stays so.
PaidRowIsFinal ==
    [][\A r \in Recipients : rstatus[r] = "SUCCESSFUL" => rstatus'[r] = "SUCCESSFUL"]_vars

\* What the group paid is what the recipient was sent, when nothing is under way.
Balanced(r) == debits[r] - reversals[r] = IF r \in sent THEN 1 ELSE 0

\* A recipient for whom one job was queued is paid for exactly if the transfer
\* was made, however many attempts were refused, found no money, threw or died
\* before: unless money was at stake in a crash, a live execution lost its
\* lock, the transfer was made but not answered or not recorded, the audit log
\* threw after the debit or the credit back threw.
SingleJobBalances ==
    \A r \in Recipients \ marred : Quiet(r) /\ Cardinality(JobsOf(r)) <= 1 => Balanced(r)

\* "credited back on failure" (docs/payout-flow.md): and only then, so a
\* recipient who is paid has been paid for out of the group wallet.
PaidIsDebited ==
    \A r \in sent : Quiet(r) => debits[r] > reversals[r]

\* "prevents double-processing" (docs/payout-flow.md): nobody's share is taken
\* from the group wallet twice.
DebitedOnce == \A r \in Recipients : Quiet(r) => debits[r] - reversals[r] <= 1

\* REJECTED and CANCELLED are final states of the diagram in docs/payout-flow.md.
ClosedIsFinal ==
    [][\A p \in Payouts : pstatus[p] \in {"REJECTED", "CANCELLED"} => pstatus'[p] = pstatus[p]]_vars

\* "A similar payout is already pending for this group" (validateNoDuplicateProcessing).
NoSimilarPending ==
    \A p, q \in Payouts :
        pstatus[p] = "PENDING" /\ pstatus[q] = "PENDING" /\ AmountOf(p) = AmountOf(q) => p = q

\* Every transfer job queued ends, in spite of refusals and crashes.
EveryTransferEnds ==
    \A j \in Jobs : job[j] = "waiting" ~> job[j] \in {"completed", "failed"}

\* A payout being processed ends SUCCESSFUL, FAILED or PARTIAL_FAIL
\* (docs/payout-flow.md).
EveryPayoutEnds ==
    \A p \in Payouts : pstatus[p] = "PROCESSING" ~> pstatus[p] # "PROCESSING"
=============================================================================
