------------------------ MODULE PayoutTransfersProofs ------------------------
(***************************************************************************)
(* Proofs about PayoutTransfers for every set of payouts and recipients,   *)
(* any finite number of requests, jobs and worker slots, any number of     *)
(* attempts, stalls and retries, and every choice of faults.               *)
(***************************************************************************)
EXTENDS PayoutTransfers, TLAPS, FiniteSetTheorems

\* The requests that are about to raise the retry count of a recipient.
Raising(r) == {a \in Requests : rpc[a] = "retry" /\ r \in rtodo[a]}

\* A request joins them only while the count is below MaxRetries.
RetriesShape ==
    \A r \in Recipients : retryCount[r] + Cardinality(Raising(r)) <= MaxRetries - 1 + Cardinality(Requests)

RPCs == {"idle", "insert", "recipients", "approve", "reject", "cancel",
         "process", "queue", "retry", "requeue"}
WPCs == {"idle", "read", "start", "debit", "transfer", "record", "fail", "failed"}

\* TypeOK, but for the bound of the retry count.
Types ==
    /\ balance \in Nat
    /\ pstatus \in [Payouts -> {"none", "PENDING", "APPROVED", "REJECTED", "CANCELLED", "PROCESSING"}]
    /\ approved \subseteq Payouts
    /\ rstatus \in [Recipients -> {"none", "PENDING", "PROCESSING", "SUCCESSFUL", "FAILED"}]
    /\ retryCount \in [Recipients -> Nat]
    /\ debits \in [Recipients -> Nat] /\ reversals \in [Recipients -> Nat]
    /\ sent \subseteq Recipients /\ marred \subseteq Recipients
    /\ rpc \in [Requests -> RPCs]
    /\ rpay \in [Requests -> Payouts \cup {NoPayout}]
    /\ rtodo \in [Requests -> SUBSET Recipients]
    /\ jrec \in [Jobs -> Recipients \cup {NoRecipient}]
    /\ jgroup \in [Jobs -> BOOLEAN]
    /\ job \in [Jobs -> {"none", "waiting", "active", "completed", "failed"}]
    /\ owner \in [Jobs -> Workers \cup {Nobody}]
    /\ attempts \in [Jobs -> 0..JobAttempts]
    /\ stalls \in [Jobs -> 0..MaxStalledCount + 1]
    /\ wpc \in [Workers -> WPCs]
    /\ wjob \in [Workers -> Jobs \cup {NoJob}]
    /\ debitDone \in [Workers -> BOOLEAN]
    /\ overtaken \subseteq Workers

\* The steps between the check and the last insert of createPayout.
Creating == {"insert", "recipients"}

\* A request works on a payout, and while it creates one, the rows it will
\* insert do not exist.
RequestShape ==
    \A a \in Requests :
        /\ rpc[a] \notin {"idle", "retry", "requeue"} => rpay[a] \in Payouts
        /\ rpc[a] = "insert" => pstatus[rpay[a]] = "none"
        /\ rpc[a] \in {"recipients", "approve", "reject", "cancel", "process"} => pstatus[rpay[a]] # "none"
        /\ rpc[a] \in Creating => \A r \in RecipientsOf(rpay[a]) : rstatus[r] = "none"

\* No two requests create the same payout.
CreatedOnce ==
    \A a, b \in Requests : rpc[a] \in Creating /\ rpc[b] \in Creating /\ rpay[a] = rpay[b] => a = b

\* Whoever is to be queued has a row, and so has its payout.
RowShape ==
    /\ \A r \in Recipients : pstatus[PayoutOf[r]] = "none" => rstatus[r] = "none"
    /\ \A a \in Requests : \A r \in rtodo[a] : rstatus[r] # "none"

JobShape ==
    \A j \in Jobs :
        /\ job[j] = "none" <=> jrec[j] = NoRecipient
        /\ jrec[j] \in Recipients => rstatus[jrec[j]] # "none"
        /\ job[j] \in {"none", "waiting", "active"} =>
              attempts[j] < JobAttempts /\ stalls[j] <= MaxStalledCount
        /\ owner[j] # Nobody => job[j] = "active"

\* debitDone is a flag of one execution.
WorkerShape ==
    \A w \in Workers :
        /\ wpc[w] # "idle" => wjob[w] \in Jobs /\ job[wjob[w]] # "none"
        /\ debitDone[w] => wpc[w] \in {"transfer", "record", "fail", "failed"}

Shape == RequestShape /\ CreatedOnce /\ RowShape /\ JobShape /\ WorkerShape

Shaped == Types /\ Shape

\* What a busy worker is working on.
LEMMA WorkerFacts ==
    ASSUME Shaped, NEW w \in Workers, wpc[w] # "idle"
    PROVE  /\ wjob[w] \in Jobs /\ job[wjob[w]] # "none"
           /\ Recipient(w) \in Recipients /\ rstatus[Recipient(w)] # "none"
           /\ pstatus[PayoutOf[Recipient(w)]] # "none"
<1> USE PayoutTransfersAssumption
<1>1. wjob[w] \in Jobs /\ job[wjob[w]] # "none"
  BY DEF Shaped, Shape, WorkerShape
<1>2. Recipient(w) \in Recipients /\ rstatus[Recipient(w)] # "none"
  BY <1>1 DEF Shaped, Shape, JobShape, Recipient, Types
<1> QED BY <1>1, <1>2 DEF Shaped, Shape, RowShape
-----------------------------------------------------------------------------
(* The requests                                                            *)

\* Steps of a request that write no row and queue nothing.
LEMMA RequestMoves ==
    ASSUME Shaped, NEW a \in Requests,
           \/ CheckApprove(a) \/ CheckReject(a) \/ CheckCancel(a) \/ CheckProcess(a)
           \/ RefuseProcess(a) \/ AllQueued(a) \/ CheckRetry(a) \/ RequestThrows(a)
    PROVE  Shaped'
<1> USE PayoutTransfersAssumption DEF Shaped, Shape, CheckApprove, CheckReject, CheckCancel, CheckProcess,
        ReadPayout, Processable, RefuseProcess, AllQueued, CheckRetry, RequestThrows, GoR, EndR
<1>u. UNCHANGED <<moneyVars, rowVars, jobVars, workerVars>>
  OBVIOUS
<1>1. /\ rpc' \in [Requests -> RPCs] /\ \A b \in Requests \ {a} : rpc'[b] = rpc[b]
      /\ rpc'[a] \notin Creating
  BY DEF Types, RPCs, Creating
<1>2. /\ rpay' \in [Requests -> Payouts \cup {NoPayout}] /\ \A b \in Requests \ {a} : rpay'[b] = rpay[b]
      /\ rpc'[a] \notin {"idle", "retry", "requeue"} => rpay'[a] \in Payouts
  BY DEF Types
<1>3. /\ rtodo' \in [Requests -> SUBSET Recipients] /\ \A b \in Requests \ {a} : rtodo'[b] = rtodo[b]
      /\ \A r \in rtodo'[a] : rstatus[r] # "none"
  BY DEF Types, RowShape
<1>4. Types'
  BY <1>u, <1>1, <1>2, <1>3 DEF Types, moneyVars, rowVars, jobVars, workerVars
<1>5. RequestShape' /\ CreatedOnce'
  BY <1>u, <1>1, <1>2 DEF RequestShape, CreatedOnce, RecipientsOf, rowVars, Creating
<1>6. RowShape'
  BY <1>u, <1>3 DEF RowShape, rowVars
<1>7. JobShape' /\ WorkerShape'
  BY <1>u DEF JobShape, WorkerShape, jobVars, workerVars, rowVars
<1> QED BY <1>4, <1>5, <1>6, <1>7

LEMMA CheckCreateShaped ==
    ASSUME Shaped, NEW a \in Requests, CheckCreate(a)
    PROVE  Shaped'
<1> USE PayoutTransfersAssumption DEF Shaped, Shape
<1>u. UNCHANGED <<rtodo, moneyVars, rowVars, jobVars, workerVars>>
  BY DEF CheckCreate
<1>p. PICK p \in Payouts :
          /\ pstatus[p] = "none"
          /\ \A b \in Requests : rpay[b] # p
          /\ rpay' = [rpay EXCEPT ![a] = p]
  BY DEF CheckCreate
<1>0. rpc' = [rpc EXCEPT ![a] = "insert"]
  BY DEF CheckCreate, GoR
<1>1. Types'
  BY <1>u, <1>p, <1>0 DEF Types, RPCs, moneyVars, rowVars, jobVars, workerVars
<1>2. RequestShape'
  BY <1>u, <1>p, <1>0 DEF RequestShape, RowShape, RecipientsOf, rowVars, Types, Creating
<1>3. CreatedOnce'
  BY <1>p, <1>0 DEF CreatedOnce, Types
<1>4. RowShape' /\ JobShape' /\ WorkerShape'
  BY <1>u DEF RowShape, JobShape, WorkerShape, jobVars, workerVars, rowVars
<1> QED BY <1>1, <1>2, <1>3, <1>4

LEMMA InsertPayoutShaped ==
    ASSUME Shaped, NEW a \in Requests, InsertPayout(a)
    PROVE  Shaped'
<1> USE PayoutTransfersAssumption DEF Shaped, Shape
<1>u. UNCHANGED <<approved, rstatus, retryCount, rpay, rtodo, moneyVars, jobVars, workerVars>>
  BY DEF InsertPayout
<1>0. /\ rpc[a] = "insert" /\ rpc' = [rpc EXCEPT ![a] = "recipients"]
      /\ rpay[a] \in Payouts /\ pstatus' = [pstatus EXCEPT ![rpay[a]] = "PENDING"]
  BY DEF InsertPayout, GoR, SetPayout, RequestShape
<1>1. Types'
  BY <1>u, <1>0 DEF Types, RPCs, moneyVars, jobVars, workerVars
<1>2. RequestShape'
  BY <1>u, <1>0 DEF RequestShape, CreatedOnce, RecipientsOf, Types, Creating
<1>3. CreatedOnce'
  BY <1>u, <1>0 DEF CreatedOnce, Types, Creating
<1>4. RowShape' /\ JobShape' /\ WorkerShape'
  BY <1>u, <1>0 DEF RowShape, JobShape, WorkerShape, jobVars, workerVars, Types
<1> QED BY <1>1, <1>2, <1>3, <1>4

\* The rows a request inserts were not there before.
LEMMA InsertsNewRows ==
    ASSUME Shaped, NEW a \in Requests, InsertRecipients(a), NEW r \in Recipients
    PROVE  /\ rstatus'[r] = rstatus[r] \/ (rstatus[r] = "none" /\ PayoutOf[r] = rpay[a] /\ rstatus'[r] = "PENDING")
           /\ rstatus' \in [Recipients -> {"none", "PENDING", "PROCESSING", "SUCCESSFUL", "FAILED"}]
BY DEF InsertRecipients, Shaped, Shape, RequestShape, Types, Creating, RecipientsOf

LEMMA InsertRecipientsShaped ==
    ASSUME Shaped, NEW a \in Requests, InsertRecipients(a)
    PROVE  Shaped'
<1> USE PayoutTransfersAssumption DEF Shaped, Shape
<1>u. UNCHANGED <<pstatus, approved, retryCount, moneyVars, jobVars, workerVars>>
  BY DEF InsertRecipients
<1>0. /\ rpc[a] = "recipients" /\ rpc' = [rpc EXCEPT ![a] = "idle"] /\ rpay[a] \in Payouts
      /\ rpay' = [rpay EXCEPT ![a] = NoPayout] /\ rtodo' = [rtodo EXCEPT ![a] = {}]
  BY DEF InsertRecipients, GoR, EndR, RequestShape
<1>r. \A r \in Recipients :
          \/ rstatus'[r] = rstatus[r]
          \/ rstatus[r] = "none" /\ PayoutOf[r] = rpay[a] /\ rstatus'[r] = "PENDING"
  BY InsertsNewRows
<1>s. rstatus' \in [Recipients -> {"none", "PENDING", "PROCESSING", "SUCCESSFUL", "FAILED"}]
  BY DEF InsertRecipients, Types
<1>1. Types'
  BY <1>u, <1>0, <1>s DEF Types, RPCs, moneyVars, jobVars, workerVars
<1>2. RequestShape'
  BY <1>u, <1>0, <1>r DEF RequestShape, CreatedOnce, RecipientsOf, Types, Creating
<1>3. CreatedOnce'
  BY <1>u, <1>0 DEF CreatedOnce, Types, Creating
<1>4. RowShape'
  <2>1. pstatus[rpay[a]] # "none" \/ rstatus' = rstatus
    BY <1>0 DEF RequestShape
  <2> QED BY <1>u, <1>0, <1>r, <2>1 DEF RowShape, Types
<1>5. JobShape' /\ WorkerShape'
  BY <1>u, <1>r DEF JobShape, WorkerShape, jobVars, workerVars, Types
<1> QED BY <1>1, <1>2, <1>3, <1>4, <1>5

\* A payout that exists is moved to another state.
LEMMA DecisionShaped ==
    ASSUME Shaped, NEW a \in Requests, ApprovePayout(a) \/ RejectPayout(a) \/ CancelPayout(a) \/ ProcessPayout(a)
    PROVE  Shaped'
<1> USE PayoutTransfersAssumption DEF Shaped, Shape, ApprovePayout, RejectPayout, CancelPayout, ProcessPayout,
        ClosePayout, GoR, EndR, SetPayout
<1>u. UNCHANGED <<rstatus, retryCount, moneyVars, jobVars, workerVars>>
  OBVIOUS
<1>0. rpc[a] \in {"approve", "reject", "cancel", "process"} /\ rpay[a] \in Payouts
  BY DEF RequestShape
<1>1. /\ rpc' \in [Requests -> RPCs] /\ \A b \in Requests \ {a} : rpc'[b] = rpc[b]
      /\ rpay' \in [Requests -> Payouts \cup {NoPayout}] /\ \A b \in Requests \ {a} : rpay'[b] = rpay[b]
      /\ rpc'[a] = "idle" \/ (rpc'[a] = "queue" /\ rpay'[a] \in Payouts)
  <2>1. CASE ProcessPayout(a)
    BY <1>0, <2>1 DEF Types, RPCs
  <2>2. CASE ApprovePayout(a) \/ RejectPayout(a) \/ CancelPayout(a)
    BY <1>0, <2>2 DEF Types, RPCs
  <2> QED BY <2>1, <2>2
<1>2. /\ pstatus' \in [Payouts -> {"none", "PENDING", "APPROVED", "REJECTED", "CANCELLED", "PROCESSING"}]
      /\ pstatus'[rpay[a]] # "none" /\ \A p \in Payouts : p # rpay[a] => pstatus'[p] = pstatus[p]
      /\ approved' \subseteq Payouts
  BY <1>0 DEF Types
<1>3. /\ rtodo' \in [Requests -> SUBSET Recipients] /\ \A b \in Requests \ {a} : rtodo'[b] = rtodo[b]
      /\ \A r \in rtodo'[a] : rstatus[r] # "none"
  BY <1>0 DEF Types, Rows, RecipientsOf
<1>4. Types'
  BY <1>u, <1>1, <1>2, <1>3 DEF Types, moneyVars, jobVars, workerVars
<1>5. RowShape'
  BY <1>u, <1>2, <1>3 DEF RowShape
<1>6. \A b \in Requests \ {a} : rpc[b] = "insert" => rpay[b] # rpay[a]
  <2> SUFFICES ASSUME NEW b \in Requests, rpc[b] = "insert", rpay[b] = rpay[a] PROVE FALSE
    OBVIOUS
  <2>1. pstatus[rpay[a]] = "none"
    BY DEF RequestShape
  <2> QED BY <2>1, <1>0 DEF RequestShape
<1>7. RequestShape'
  BY <1>u, <1>1, <1>2, <1>6 DEF RequestShape, RecipientsOf, Creating
<1>8. CreatedOnce'
  BY <1>1 DEF CreatedOnce, Creating
<1>9. JobShape' /\ WorkerShape'
  BY <1>u DEF JobShape, WorkerShape, jobVars, workerVars
<1> QED BY <1>4, <1>5, <1>7, <1>8, <1>9

LEMMA RaiseShaped ==
    ASSUME Shaped, NEW a \in Requests, RaiseRetryCount(a)
    PROVE  Shaped'
<1> USE PayoutTransfersAssumption DEF Shaped, Shape, RaiseRetryCount, GoR
<1>1. Types'
  BY DEF Types, RPCs, moneyVars, jobVars, workerVars
<1>2. RequestShape' /\ CreatedOnce'
  BY DEF RequestShape, CreatedOnce, RecipientsOf, Types, Creating
<1>3. RowShape' /\ JobShape' /\ WorkerShape'
  BY DEF RowShape, JobShape, WorkerShape, jobVars, workerVars
<1> QED BY <1>1, <1>2, <1>3

\* What AddJob does to the jobs: one that did not exist waits for r.
LEMMA AddJobFacts ==
    ASSUME Shaped, NEW r \in Recipients, rstatus[r] # "none", NEW g \in BOOLEAN, AddJob(r, g),
           UNCHANGED rstatus
    PROVE  /\ jrec' \in [Jobs -> Recipients \cup {NoRecipient}]
           /\ jgroup' \in [Jobs -> BOOLEAN]
           /\ job' \in [Jobs -> {"none", "waiting", "active", "completed", "failed"}]
           /\ UNCHANGED <<owner, attempts, stalls>>
           /\ \A j \in Jobs : job[j] # "none" => job'[j] = job[j] /\ jrec'[j] = jrec[j]
           /\ JobShape'
<1> USE PayoutTransfersAssumption DEF Shaped, Shape
<1>1. PICK j \in Jobs :
          /\ job[j] = "none" /\ job' = [job EXCEPT ![j] = "waiting"]
          /\ jrec' = [jrec EXCEPT ![j] = r] /\ jgroup' = [jgroup EXCEPT ![j] = g]
          /\ UNCHANGED <<owner, attempts, stalls>>
  BY DEF AddJob
<1>2. JobShape'
  BY <1>1 DEF JobShape, Types
<1> QED BY <1>1, <1>2 DEF Types

LEMMA QueueShaped ==
    ASSUME Shaped, NEW a \in Requests, QueueTransfer(a) \/ RequeueTransfer(a)
    PROVE  Shaped'
<1> USE PayoutTransfersAssumption DEF Shaped, Shape
<1>u. UNCHANGED <<moneyVars, rowVars, workerVars>>
  BY DEF QueueTransfer, RequeueTransfer
<1>1. PICK r \in rtodo[a], g \in BOOLEAN : AddJob(r, g)
  BY DEF QueueTransfer, RequeueTransfer
<1>2. r \in Recipients /\ rstatus[r] # "none"
  BY DEF RowShape, Types
<1>3. /\ jrec' \in [Jobs -> Recipients \cup {NoRecipient}]
      /\ jgroup' \in [Jobs -> BOOLEAN]
      /\ job' \in [Jobs -> {"none", "waiting", "active", "completed", "failed"}]
      /\ UNCHANGED <<owner, attempts, stalls>>
      /\ \A j \in Jobs : job[j] # "none" => job'[j] = job[j] /\ jrec'[j] = jrec[j]
      /\ JobShape'
  BY <1>u, <1>1, <1>2, AddJobFacts DEF rowVars
<1>4. /\ rpc' \in [Requests -> RPCs] /\ \A b \in Requests \ {a} : rpc'[b] = rpc[b]
      /\ rpc'[a] = "idle" \/ (rpc'[a] = "queue" /\ rpc[a] = "queue" /\ rpay' = rpay)
      /\ rpay' \in [Requests -> Payouts \cup {NoPayout}] /\ \A b \in Requests \ {a} : rpay'[b] = rpay[b]
  BY DEF QueueTransfer, RequeueTransfer, EndR, GoR, Types, RPCs
<1>5. /\ rtodo' \in [Requests -> SUBSET Recipients]
      /\ \A b \in Requests : rtodo'[b] \subseteq rtodo[b]
  <2>1. rtodo \in [Requests -> SUBSET Recipients]
    BY DEF Types
  <2>2. \E S \in SUBSET rtodo[a] : rtodo' = [rtodo EXCEPT ![a] = S]
    BY DEF QueueTransfer, RequeueTransfer, EndR
  <2> QED BY <2>1, <2>2
<1>6. Types'
  BY <1>u, <1>3, <1>4, <1>5 DEF Types, moneyVars, rowVars, workerVars
<1>7. RequestShape' /\ CreatedOnce'
  BY <1>u, <1>4 DEF RequestShape, CreatedOnce, RecipientsOf, rowVars, Creating
<1>8. RowShape'
  BY <1>u, <1>5 DEF RowShape, rowVars
<1>9. WorkerShape'
  BY <1>u, <1>3 DEF WorkerShape, workerVars
<1> QED BY <1>3, <1>6, <1>7, <1>8, <1>9
-----------------------------------------------------------------------------
(* The workers, the stalled check and the crash                            *)

LEMMA TakeShaped ==
    ASSUME Shaped, NEW w \in Workers, NEW j \in Jobs, Take(w, j)
    PROVE  Shaped'
<1> USE PayoutTransfersAssumption DEF Shaped, Shape, Take, GoW
<1>u. UNCHANGED <<jrec, jgroup, attempts, stalls, debitDone, moneyVars, rowVars, reqVars>>
  OBVIOUS
<1>1. Types'
  BY <1>u DEF Types, WPCs, moneyVars, rowVars, reqVars
<1>2. RequestShape' /\ CreatedOnce' /\ RowShape'
  BY <1>u DEF RequestShape, CreatedOnce, RowShape, RecipientsOf, rowVars, reqVars
<1>3. JobShape'
  BY <1>u DEF JobShape, Types, rowVars
<1>4. WorkerShape'
  BY <1>u DEF WorkerShape, Types
<1> QED BY <1>1, <1>2, <1>3, <1>4

\* The steps of an execution that end neither it nor its job.
Proceeds(w) ==
    \/ ReadRecipient(w) \/ StartTransfer(w) \/ DebitWallet(w) \/ DebitUnaudited(w) \/ RefuseDebit(w)
    \/ TransferDone(w) \/ TransferAccepted(w) \/ TransferRefused(w) \/ TransferTimesOut(w)
    \/ CreditBack(w) \/ NothingToCredit(w) \/ StatementThrows(w)

\* Those that do.
Finishes(w) == SkipSuccessful(w) \/ RecordSuccess(w) \/ FailTransfer(w) \/ ExecutionThrows(w)

\* A worker writes the row it is working on, and no other.
LEMMA WorkerWrites ==
    ASSUME Shaped, NEW w \in Workers, Proceeds(w) \/ Finishes(w)
    PROVE  /\ wpc[w] # "idle"
           /\ rstatus' \in [Recipients -> {"none", "PENDING", "PROCESSING", "SUCCESSFUL", "FAILED"}]
           /\ \A r \in Recipients \ {Recipient(w)} : rstatus'[r] = rstatus[r]
           /\ \A r \in Recipients : rstatus'[r] = "none" <=> rstatus[r] = "none"
           /\ UNCHANGED <<pstatus, approved, retryCount, reqVars, jrec, jgroup, stalls>>
<1>1. wpc[w] # "idle"
  BY DEF Proceeds, Finishes, ReadRecipient, StartTransfer, DebitWallet, DebitUnaudited, RefuseDebit,
         TransferDone, TransferAccepted, TransferRefused, TransferTimesOut, CreditBack, NothingToCredit,
         StatementThrows, SkipSuccessful, RecordSuccess, FailTransfer, ExecutionThrows
<1>2. UNCHANGED <<pstatus, approved, retryCount, reqVars, jrec, jgroup, stalls>>
  BY DEF Proceeds, Finishes, ReadRecipient, StartTransfer, DebitWallet, DebitUnaudited, RefuseDebit,
         TransferDone, TransferAccepted, TransferRefused, TransferTimesOut, CreditBack, NothingToCredit,
         StatementThrows, SkipSuccessful, RecordSuccess, FailTransfer, ExecutionThrows, FailJob, rowVars, jobVars
<1>3. \/ UNCHANGED rstatus
      \/ \E s \in {"PROCESSING", "SUCCESSFUL", "FAILED"} : SetRecipient(w, s)
  BY DEF Proceeds, Finishes, ReadRecipient, StartTransfer, DebitWallet, DebitUnaudited, RefuseDebit,
         TransferDone, TransferAccepted, TransferRefused, TransferTimesOut, CreditBack, NothingToCredit,
         StatementThrows, SkipSuccessful, RecordSuccess, FailTransfer, ExecutionThrows, rowVars
<1>4. Recipient(w) \in Recipients /\ rstatus[Recipient(w)] # "none"
  BY <1>1, WorkerFacts
<1>5. /\ rstatus' \in [Recipients -> {"none", "PENDING", "PROCESSING", "SUCCESSFUL", "FAILED"}]
      /\ \A r \in Recipients \ {Recipient(w)} : rstatus'[r] = rstatus[r]
      /\ \A r \in Recipients : rstatus'[r] = "none" <=> rstatus[r] = "none"
  BY <1>3, <1>4 DEF SetRecipient, Shaped, Types
<1> QED BY <1>1, <1>2, <1>5

\* What those steps do to the group wallet.
LEMMA WorkerPays ==
    ASSUME Shaped, NEW w \in Workers, Proceeds(w) \/ Finishes(w)
    PROVE  /\ balance' \in Nat /\ sent' \subseteq Recipients /\ marred' \subseteq Recipients
           /\ overtaken' \subseteq Workers
           /\ debits' \in [Recipients -> Nat] /\ reversals' \in [Recipients -> Nat]
<1>1. Recipient(w) \in Recipients
  BY WorkerWrites, WorkerFacts
<1>6. overtaken' \subseteq Workers
  BY DEF Proceeds, Finishes, ReadRecipient, StartTransfer, DebitWallet, DebitUnaudited, RefuseDebit,
         TransferDone, TransferAccepted, TransferRefused, TransferTimesOut, CreditBack, NothingToCredit,
         StatementThrows, SkipSuccessful, RecordSuccess, FailTransfer, ExecutionThrows, Leave, Outrun, Shaped, Types
<1>2. CASE \/ Finishes(w) \/ ReadRecipient(w) \/ StartTransfer(w) \/ RefuseDebit(w) \/ TransferRefused(w)
           \/ NothingToCredit(w)
  <2>1. UNCHANGED moneyVars
    BY <1>2 DEF Finishes, ReadRecipient, StartTransfer, RefuseDebit, TransferRefused, NothingToCredit,
                SkipSuccessful, RecordSuccess, FailTransfer, ExecutionThrows
  <2> QED BY <1>6, <2>1 DEF moneyVars, Shaped, Types
<1>3. CASE DebitWallet(w) \/ DebitUnaudited(w)
  BY <1>1, <1>3 DEF DebitWallet, DebitUnaudited, Debit, Mar, Shaped, Types
<1>4. CASE TransferDone(w) \/ TransferAccepted(w) \/ TransferTimesOut(w)
  BY <1>1, <1>4 DEF TransferDone, TransferAccepted, TransferTimesOut, Mar, Shaped, Types
<1>5. CASE CreditBack(w)
  BY <1>1, <1>5 DEF CreditBack, Mar, Shaped, Types
<1>7. CASE StatementThrows(w)
  BY <1>1, <1>7 DEF StatementThrows, Mar, Shaped, Types
<1> QED BY <1>2, <1>3, <1>4, <1>5, <1>6, <1>7 DEF Proceeds

LEMMA ProceedsShaped ==
    ASSUME Shaped, NEW w \in Workers, Proceeds(w)
    PROVE  Shaped'
<1> USE PayoutTransfersAssumption DEF Shaped, Shape
<1>r. /\ wpc[w] # "idle"
      /\ rstatus' \in [Recipients -> {"none", "PENDING", "PROCESSING", "SUCCESSFUL", "FAILED"}]
      /\ \A r \in Recipients : rstatus'[r] = "none" <=> rstatus[r] = "none"
      /\ UNCHANGED <<pstatus, approved, retryCount, reqVars, jrec, jgroup, stalls>>
  BY WorkerWrites
<1>u. UNCHANGED <<job, owner, attempts, wjob>>
  BY DEF Proceeds, ReadRecipient, StartTransfer, DebitWallet, DebitUnaudited, RefuseDebit,
         TransferDone, TransferAccepted, TransferRefused, TransferTimesOut, CreditBack, NothingToCredit,
         StatementThrows, jobVars
<1>1. PICK s \in WPCs \ {"idle", "read"} :
          /\ wpc' = [wpc EXCEPT ![w] = s]
          /\ \/ debitDone' = debitDone /\ (wpc[w] \in {"transfer", "record", "fail", "failed"} =>
                                              s \in {"transfer", "record", "fail", "failed"})
             \/ debitDone' = [debitDone EXCEPT ![w] = TRUE] /\ s = "transfer"
  BY DEF Proceeds, ReadRecipient, StartTransfer, DebitWallet, DebitUnaudited, RefuseDebit,
         TransferDone, TransferAccepted, TransferRefused, TransferTimesOut, CreditBack, NothingToCredit,
         StatementThrows, GoW, WPCs
<1>2. Types'
  <2>1. /\ balance' \in Nat /\ sent' \subseteq Recipients /\ marred' \subseteq Recipients
        /\ overtaken' \subseteq Workers
        /\ debits' \in [Recipients -> Nat] /\ reversals' \in [Recipients -> Nat]
    BY WorkerPays
  <2>2. wpc' \in [Workers -> WPCs] /\ debitDone' \in [Workers -> BOOLEAN]
    BY <1>1 DEF Types
  <2> QED BY <1>r, <1>u, <2>1, <2>2 DEF Types, reqVars
<1>3. RequestShape' /\ CreatedOnce' /\ RowShape'
  BY <1>r DEF RequestShape, CreatedOnce, RowShape, RecipientsOf, reqVars, Types
<1>4. JobShape'
  BY <1>r, <1>u DEF JobShape
<1>5. WorkerShape'
  BY <1>r, <1>u, <1>1 DEF WorkerShape, Types
<1> QED BY <1>2, <1>3, <1>4, <1>5

LEMMA FinishesShaped ==
    ASSUME Shaped, NEW w \in Workers, Finishes(w)
    PROVE  Shaped'
<1> USE PayoutTransfersAssumption DEF Shaped, Shape
<1>r. /\ wpc[w] # "idle"
      /\ rstatus' \in [Recipients -> {"none", "PENDING", "PROCESSING", "SUCCESSFUL", "FAILED"}]
      /\ \A r \in Recipients : rstatus'[r] = "none" <=> rstatus[r] = "none"
      /\ UNCHANGED <<pstatus, approved, retryCount, reqVars, jrec, jgroup, stalls>>
  BY WorkerWrites
<1>f. wjob[w] \in Jobs /\ job[wjob[w]] # "none"
  BY <1>r, WorkerFacts
<1>1. /\ wpc' = [wpc EXCEPT ![w] = "idle"] /\ wjob' = [wjob EXCEPT ![w] = NoJob]
      /\ debitDone' = [debitDone EXCEPT ![w] = FALSE]
  BY DEF Finishes, SkipSuccessful, RecordSuccess, FailTransfer, ExecutionThrows, FailJob, EndJob, GoW
<1>2. CASE UNCHANGED <<job, owner, attempts>>
  <2>1. Types'
    BY <1>r, <1>1, <1>2, WorkerPays DEF Types, reqVars, WPCs
  <2>2. RequestShape' /\ CreatedOnce' /\ RowShape'
    BY <1>r DEF RequestShape, CreatedOnce, RowShape, RecipientsOf, reqVars, Types
  <2>3. JobShape' /\ WorkerShape'
    BY <1>r, <1>1, <1>2 DEF JobShape, WorkerShape, Types
  <2> QED BY <2>1, <2>2, <2>3
<1>3. ASSUME owner[wjob[w]] = w,
             owner' = [owner EXCEPT ![wjob[w]] = Nobody],
             \/ job' = [job EXCEPT ![wjob[w]] = "completed"] /\ attempts' = attempts
             \/ /\ job' = [job EXCEPT ![wjob[w]] = AfterFailure(wjob[w])]
                /\ attempts' = [attempts EXCEPT ![wjob[w]] = @ + 1]
      PROVE  Shaped'
  <2>1. attempts[wjob[w]] \in 0..JobAttempts - 1 /\ stalls[wjob[w]] <= MaxStalledCount
    BY <1>f, <1>3 DEF JobShape, Types
  <2>2. Types'
    BY <1>r, <1>f, <1>1, <1>3, <2>1, WorkerPays DEF Types, reqVars, WPCs, AfterFailure
  <2>3. RequestShape' /\ CreatedOnce' /\ RowShape'
    BY <1>r DEF RequestShape, CreatedOnce, RowShape, RecipientsOf, reqVars, Types
  <2>4. JobShape'
    BY <1>r, <1>f, <1>3, <2>1 DEF JobShape, Types, AfterFailure
  <2>5. WorkerShape'
    BY <1>f, <1>1, <1>3 DEF WorkerShape, Types, AfterFailure
  <2> QED BY <2>2, <2>3, <2>4, <2>5
<1> QED BY <1>2, <1>3 DEF Finishes, SkipSuccessful, RecordSuccess, FailTransfer, ExecutionThrows, FailJob, EndJob

LEMMA StallShaped ==
    ASSUME Shaped, NEW j \in Jobs, Stall(j)
    PROVE  Shaped'
<1> USE PayoutTransfersAssumption DEF Shaped, Shape
<1>u. UNCHANGED <<jrec, jgroup, attempts, balance, debits, reversals, sent, rowVars, reqVars, workerVars>>
  BY DEF Stall
<1>m. marred' \subseteq Recipients
  <2>1. job[j] = "active"
    BY DEF Stall
  <2>2. jrec[j] \in Recipients
    BY <2>1 DEF JobShape, Types
  <2> QED BY <2>2 DEF Stall, Types
<1>1. /\ job[j] = "active" /\ stalls[j] \in 0..MaxStalledCount
      /\ stalls' = [stalls EXCEPT ![j] = stalls[j] + 1]
      /\ job' = [job EXCEPT ![j] = IF stalls[j] < MaxStalledCount THEN "waiting" ELSE "failed"]
      /\ owner' = [owner EXCEPT ![j] = Nobody]
  BY DEF Stall, JobShape, Types
<1>2. Types'
  BY <1>u, <1>m, <1>1 DEF Types, rowVars, reqVars, workerVars
<1>3. RequestShape' /\ CreatedOnce' /\ RowShape'
  BY <1>u DEF RequestShape, CreatedOnce, RowShape, RecipientsOf, rowVars, reqVars
<1>4. JobShape' /\ WorkerShape'
  BY <1>u, <1>1 DEF JobShape, WorkerShape, Types, rowVars, workerVars
<1> QED BY <1>2, <1>3, <1>4

LEMMA CrashShaped ==
    ASSUME Shaped, Crash
    PROVE  Shaped'
<1> USE PayoutTransfersAssumption DEF Shaped, Shape, Crash, rowVars
<1>m. marred' \subseteq Recipients
  <2>1. \A w \in AtStake : Recipient(w) \in Recipients
    BY WorkerFacts DEF AtStake
  <2> QED BY <2>1 DEF Types
<1>1. Types'
  BY <1>m DEF Types, RPCs, WPCs
<1>2. RequestShape' /\ CreatedOnce' /\ RowShape'
  BY DEF RequestShape, CreatedOnce, RowShape, Creating
<1>3. JobShape' /\ WorkerShape'
  BY DEF JobShape, WorkerShape
<1> QED BY <1>1, <1>2, <1>3

LEMMA ShapedStep == ASSUME Shaped, [Next]_vars PROVE Shaped'
<1>1. CASE UNCHANGED vars
  BY <1>1 DEF vars, moneyVars, rowVars, reqVars, jobVars, workerVars, Shaped, Shape, Types, RequestShape,
              CreatedOnce, RowShape, JobShape, WorkerShape, RecipientsOf
<1>2. ASSUME NEW a \in Requests, Create(a) \/ Decide(a) \/ Process(a) \/ Retry(a) \/ RequestThrows(a)
      PROVE  Shaped'
  BY <1>2, RequestMoves, CheckCreateShaped, InsertPayoutShaped, InsertRecipientsShaped, DecisionShaped,
     RaiseShaped, QueueShaped DEF Create, Decide, Process, Retry
<1>3. ASSUME NEW w \in Workers, Work(w) \/ StatementThrows(w) \/ ExecutionThrows(w)
      PROVE  Shaped'
  BY <1>3, TakeShaped, ProceedsShaped, FinishesShaped DEF Work, Proceeds, Finishes
<1>4. ASSUME NEW j \in Jobs, Stall(j)
      PROVE  Shaped'
  BY <1>4, StallShaped
<1> QED BY <1>1, <1>2, <1>3, <1>4, CrashShaped DEF Next

\* The inductive invariant the others rest on.
LEMMA AlwaysShaped == Spec => []Shaped
<1>1. Init => Shaped
  BY PayoutTransfersAssumption
  DEF Init, Shaped, Shape, Types, RPCs, WPCs, RequestShape, CreatedOnce, RowShape, JobShape, WorkerShape, Creating
<1>2. Shaped /\ [Next]_vars => Shaped'
  BY ShapedStep
<1> QED BY <1>1, <1>2, PTL DEF Spec
-----------------------------------------------------------------------------
(* The retry count                                                         *)

LEMMA RequestsCount ==
    ASSUME NEW S \in SUBSET Requests, NEW R \in SUBSET Requests
    PROVE  /\ Cardinality(S) \in Nat /\ Cardinality(R) \in Nat /\ Cardinality(Requests) \in Nat
           /\ Cardinality(S) <= Cardinality(Requests)
           /\ R \subseteq S => Cardinality(R) <= Cardinality(S)
           /\ \A a \in S : R \subseteq S \ {a} => Cardinality(R) <= Cardinality(S) - 1
<1>1. IsFiniteSet(Requests)
  BY PayoutTransfersAssumption
<1>2. IsFiniteSet(S) /\ Cardinality(S) <= Cardinality(Requests) /\ IsFiniteSet(R)
  BY <1>1, FS_Subset
<1>3. Cardinality(S) \in Nat /\ Cardinality(R) \in Nat /\ Cardinality(Requests) \in Nat
  BY <1>1, <1>2, FS_CardinalityType
<1>4. R \subseteq S => Cardinality(R) <= Cardinality(S)
  BY <1>2, FS_Subset
<1>5. ASSUME NEW a \in S, R \subseteq S \ {a}
      PROVE  Cardinality(R) <= Cardinality(S) - 1
  <2>1. IsFiniteSet(S \ {a}) /\ Cardinality(S \ {a}) = Cardinality(S) - 1
    BY <1>2, FS_RemoveElement
  <2> QED BY <1>5, <2>1, FS_Subset
<1> QED BY <1>2, <1>3, <1>4, <1>5

\* The retry count passes its limit by at most the requests that read it together.
LEMMA RetriesStep == ASSUME Shaped, RetriesShape, [Next]_vars PROVE RetriesShape'
<1> SUFFICES ASSUME NEW r \in Recipients
             PROVE  retryCount'[r] + Cardinality(Raising(r)') <= MaxRetries - 1 + Cardinality(Requests)
  BY DEF RetriesShape
<1>t. Types
  BY DEF Shaped
<1>a. Raising(r) \subseteq Requests /\ Raising(r)' \subseteq Requests
  BY DEF Raising
<1>c. /\ Cardinality(Raising(r)) \in Nat /\ Cardinality(Raising(r)') \in Nat /\ Cardinality(Requests) \in Nat
      /\ Cardinality(Raising(r)') <= Cardinality(Requests)
      /\ MaxRetries \in Nat \ {0} /\ retryCount[r] \in Nat
  BY <1>a, <1>t, RequestsCount, PayoutTransfersAssumption DEF Types
<1>1. ASSUME Raising(r)' \subseteq Raising(r), retryCount' = retryCount
      PROVE  retryCount'[r] + Cardinality(Raising(r)') <= MaxRetries - 1 + Cardinality(Requests)
  <2>1. Cardinality(Raising(r)') <= Cardinality(Raising(r))
    BY <1>1, <1>a, RequestsCount
  <2> QED BY <2>1, <1>1, <1>c DEF RetriesShape
<1>2. ASSUME NEW a \in Requests, CheckRetry(a)
      PROVE  retryCount'[r] + Cardinality(Raising(r)') <= MaxRetries - 1 + Cardinality(Requests)
  <2>u. retryCount' = retryCount
    BY <1>2 DEF CheckRetry, rowVars
  <2>1. PICK q \in Recipients : retryCount[q] < MaxRetries /\ rtodo' = [rtodo EXCEPT ![a] = {q}]
    BY <1>2 DEF CheckRetry
  <2>2. rpc' = [rpc EXCEPT ![a] = "retry"]
    BY <1>2 DEF CheckRetry, GoR
  <2>3. CASE q = r
    BY <2>u, <2>1, <2>3, <1>c
  <2>4. CASE q # r
    <3>1. Raising(r)' \subseteq Raising(r)
      BY <2>1, <2>2, <2>4, <1>t DEF Raising, Types
    <3> QED BY <3>1, <2>u, <1>1
  <2> QED BY <2>3, <2>4
<1>3. ASSUME NEW a \in Requests, RaiseRetryCount(a)
      PROVE  retryCount'[r] + Cardinality(Raising(r)') <= MaxRetries - 1 + Cardinality(Requests)
  <2>1. rpc[a] = "retry" /\ rpc' = [rpc EXCEPT ![a] = "requeue"] /\ rtodo' = rtodo
    BY <1>3 DEF RaiseRetryCount, GoR
  <2>2. CASE r \in rtodo[a]
    <3>1. retryCount'[r] = retryCount[r] + 1
      BY <1>3, <2>2 DEF RaiseRetryCount
    <3>2. a \in Raising(r) /\ Raising(r)' \subseteq Raising(r) \ {a}
      BY <2>1, <2>2, <1>t DEF Raising, Types
    <3>3. Cardinality(Raising(r)') <= Cardinality(Raising(r)) - 1
      BY <3>2, <1>a, RequestsCount
    <3> QED BY <3>1, <3>3, <1>c DEF RetriesShape
  <2>3. CASE r \notin rtodo[a]
    <3>1. retryCount'[r] = retryCount[r]
      BY <1>3, <2>3, <1>c DEF RaiseRetryCount
    <3>2. Raising(r)' \subseteq Raising(r)
      BY <2>1, <1>t DEF Raising, Types
    <3>3. Cardinality(Raising(r)') <= Cardinality(Raising(r))
      BY <3>2, <1>a, RequestsCount
    <3> QED BY <3>1, <3>3, <1>c DEF RetriesShape
  <2> QED BY <2>2, <2>3
<1>4. ASSUME NEW a \in Requests,
             \/ Create(a) \/ Decide(a) \/ Process(a) \/ RequeueTransfer(a) \/ RequestThrows(a)
      PROVE  Raising(r)' \subseteq Raising(r) /\ retryCount' = retryCount
  <2>1. retryCount' = retryCount /\ rtodo \in [Requests -> SUBSET Recipients] /\ rpc \in [Requests -> RPCs]
    BY <1>4, <1>t DEF Create, Decide, Process, RequestThrows, CheckCreate, InsertPayout, InsertRecipients,
       CheckApprove, ApprovePayout, CheckReject, RejectPayout, CheckCancel, CancelPayout, ReadPayout, ClosePayout,
       CheckProcess, RefuseProcess, ProcessPayout, QueueTransfer, AllQueued, RequeueTransfer, rowVars, Types
  <2>2. /\ \A b \in Requests \ {a} : rpc'[b] = rpc[b] /\ rtodo'[b] = rtodo[b]
        /\ rpc'[a] # "retry"
    BY <1>4, <2>1 DEF Create, Decide, Process, RequestThrows, CheckCreate, InsertPayout, InsertRecipients,
       CheckApprove, ApprovePayout, CheckReject, RejectPayout, CheckCancel, CancelPayout, ReadPayout, ClosePayout,
       CheckProcess, RefuseProcess, ProcessPayout, QueueTransfer, AllQueued, RequeueTransfer, GoR, EndR
  <2> QED BY <2>1, <2>2 DEF Raising
<1>5. ASSUME NEW w \in Workers, Work(w) \/ StatementThrows(w) \/ ExecutionThrows(w)
      PROVE  Raising(r)' \subseteq Raising(r) /\ retryCount' = retryCount
  <2>1. UNCHANGED <<retryCount, reqVars>>
    BY <1>5, WorkerWrites DEF Work, Proceeds, Finishes, Take, rowVars
  <2> QED BY <2>1 DEF Raising, reqVars
<1>6. ASSUME NEW j \in Jobs, Stall(j)
      PROVE  Raising(r)' \subseteq Raising(r) /\ retryCount' = retryCount
  BY <1>6 DEF Stall, Raising, reqVars, rowVars
<1>7. ASSUME Crash
      PROVE  Raising(r)' \subseteq Raising(r) /\ retryCount' = retryCount
  BY <1>7 DEF Crash, Raising, rowVars
<1>8. ASSUME UNCHANGED vars
      PROVE  Raising(r)' \subseteq Raising(r) /\ retryCount' = retryCount
  BY <1>8 DEF vars, Raising, rowVars, reqVars
<1> QED BY <1>1, <1>2, <1>3, <1>4, <1>5, <1>6, <1>7, <1>8 DEF Next, Retry

\* The state keeps its types; concurrent requests raise the retry count of a
\* recipient past MaxRetries by less than their number.
THEOREM Typing == Spec => []TypeOK
<1>1. Init => RetriesShape
  <2> SUFFICES ASSUME Init, NEW r \in Recipients
               PROVE  0 + Cardinality(Raising(r)) <= MaxRetries - 1 + Cardinality(Requests)
    BY DEF RetriesShape, Init
  <2>1. Raising(r) \subseteq Requests
    BY DEF Raising
  <2> QED BY <2>1, RequestsCount, PayoutTransfersAssumption
<1>2. Shaped /\ RetriesShape /\ [Next]_vars => RetriesShape'
  BY RetriesStep
<1>3. Shaped /\ RetriesShape => TypeOK
  <2> SUFFICES ASSUME Shaped, RetriesShape PROVE TypeOK
    OBVIOUS
  <2>1. \A r \in Recipients : retryCount[r] \in 0..MaxRetries - 1 + Cardinality(Requests)
    <3> SUFFICES ASSUME NEW r \in Recipients PROVE retryCount[r] \in 0..MaxRetries - 1 + Cardinality(Requests)
      OBVIOUS
    <3>1. Cardinality(Raising(r)) \in Nat /\ Cardinality(Requests) \in Nat
      BY RequestsCount DEF Raising
    <3> QED BY <3>1, PayoutTransfersAssumption DEF RetriesShape, Shaped, Types
  <2> QED BY <2>1 DEF Shaped, Types, TypeOK, RPCs, WPCs
<1> QED BY <1>1, <1>2, <1>3, AlwaysShaped, PTL DEF Spec
-----------------------------------------------------------------------------
(* Credits back                                                            *)

\* The executions that took a unit for r and may still credit it back.
Holding(r) ==
    {w \in Workers : debitDone[w] /\ wpc[w] \in {"transfer", "record", "fail"} /\ Recipient(w) = r}

\* An execution joins them with a debit and leaves them with the reversal.
Covered == \A r \in Recipients : reversals[r] + Cardinality(Holding(r)) <= debits[r]

LEMMA WorkersCount ==
    ASSUME NEW S \in SUBSET Workers, NEW R \in SUBSET Workers
    PROVE  /\ Cardinality(S) \in Nat /\ Cardinality(R) \in Nat
           /\ R \subseteq S => Cardinality(R) <= Cardinality(S)
           /\ \A w \in Workers : R \subseteq S \cup {w} => Cardinality(R) <= Cardinality(S) + 1
           /\ \A w \in S : R \subseteq S \ {w} => Cardinality(R) <= Cardinality(S) - 1
<1>1. IsFiniteSet(S) /\ IsFiniteSet(R)
  BY FS_Subset, PayoutTransfersAssumption
<1>2. Cardinality(S) \in Nat /\ Cardinality(R) \in Nat
  BY <1>1, FS_CardinalityType
<1>3. R \subseteq S => Cardinality(R) <= Cardinality(S)
  BY <1>1, FS_Subset
<1>4. ASSUME NEW w \in Workers, R \subseteq S \cup {w}
      PROVE  Cardinality(R) <= Cardinality(S) + 1
  <2>1. IsFiniteSet(S \cup {w}) /\ (Cardinality(S \cup {w}) = Cardinality(S) \/ Cardinality(S \cup {w}) = Cardinality(S) + 1)
    BY <1>1, FS_AddElement
  <2>2. Cardinality(R) <= Cardinality(S \cup {w})
    BY <1>4, <2>1, FS_Subset
  <2> QED BY <1>2, <2>1, <2>2
<1>5. ASSUME NEW w \in S, R \subseteq S \ {w}
      PROVE  Cardinality(R) <= Cardinality(S) - 1
  <2>1. IsFiniteSet(S \ {w}) /\ Cardinality(S \ {w}) = Cardinality(S) - 1
    BY <1>1, FS_RemoveElement
  <2> QED BY <1>5, <2>1, FS_Subset
<1> QED BY <1>2, <1>3, <1>4, <1>5

\* A worker's job keeps its recipient.
LEMMA SameRecipient ==
    ASSUME Shaped, [Next]_vars, NEW w \in Workers, wpc'[w] \notin {"idle", "read"}
    PROVE  /\ wpc[w] # "idle" /\ wjob'[w] = wjob[w] /\ Recipient(w)' = Recipient(w)
           /\ jgroup'[wjob[w]] = jgroup[wjob[w]]
           /\ (wpc'[w] = wpc[w] /\ debitDone'[w] = debitDone[w]) \/ Proceeds(w)
<1>t. Types /\ WorkerShape
  BY DEF Shaped, Shape
<1>1. CASE UNCHANGED vars
  BY <1>1, <1>t DEF vars, jobVars, workerVars, Recipient, Types, WPCs
<1>2. ASSUME NEW a \in Requests, Create(a) \/ Decide(a) \/ Process(a) \/ Retry(a) \/ RequestThrows(a)
      PROVE  /\ wpc[w] # "idle" /\ wjob'[w] = wjob[w] /\ Recipient(w)' = Recipient(w)
             /\ jgroup'[wjob[w]] = jgroup[wjob[w]]
             /\ wpc'[w] = wpc[w] /\ debitDone'[w] = debitDone[w]
  <2>1. UNCHANGED workerVars
    BY <1>2 DEF Create, Decide, Process, Retry, RequestThrows, CheckCreate, InsertPayout, InsertRecipients,
       CheckApprove, ApprovePayout, CheckReject, RejectPayout, CheckCancel, CancelPayout, ReadPayout, ClosePayout,
       CheckProcess, RefuseProcess, ProcessPayout, QueueTransfer, AllQueued, RequeueTransfer, CheckRetry,
       RaiseRetryCount
  <2>2. wpc[w] # "idle" /\ wjob[w] \in Jobs /\ job[wjob[w]] # "none"
    BY <2>1, WorkerFacts DEF workerVars
  <2>3. \A j \in Jobs : job[j] # "none" => jrec'[j] = jrec[j] /\ jgroup'[j] = jgroup[j]
    BY <1>2, <1>t DEF Create, Decide, Process, Retry, RequestThrows, CheckCreate, InsertPayout, InsertRecipients,
       CheckApprove, ApprovePayout, CheckReject, RejectPayout, CheckCancel, CancelPayout, ReadPayout, ClosePayout,
       CheckProcess, RefuseProcess, ProcessPayout, QueueTransfer, AllQueued, RequeueTransfer, CheckRetry,
       RaiseRetryCount, AddJob, jobVars, Types
  <2> QED BY <2>1, <2>2, <2>3 DEF workerVars, Recipient
<1>3. ASSUME NEW v \in Workers, Proceeds(v) \/ Finishes(v)
      PROVE  /\ wpc[w] # "idle" /\ wjob'[w] = wjob[w] /\ Recipient(w)' = Recipient(w)
             /\ jgroup'[wjob[w]] = jgroup[wjob[w]]
             /\ (wpc'[w] = wpc[w] /\ debitDone'[w] = debitDone[w]) \/ Proceeds(w)
  <2>1. jrec' = jrec /\ jgroup' = jgroup /\ wpc[v] # "idle"
    BY <1>3, WorkerWrites
  <2>2. ASSUME Proceeds(v)
        PROVE  /\ wjob' = wjob
               /\ v # w => wpc'[w] = wpc[w] /\ debitDone'[w] = debitDone[w]
    BY <2>2, <1>t DEF Proceeds, ReadRecipient, StartTransfer, DebitWallet, DebitUnaudited, RefuseDebit,
         TransferDone, TransferAccepted, TransferRefused, TransferTimesOut, CreditBack, NothingToCredit,
         StatementThrows, GoW, Types
  <2>3. ASSUME Finishes(v)
        PROVE  v # w /\ wjob'[w] = wjob[w] /\ wpc'[w] = wpc[w] /\ debitDone'[w] = debitDone[w]
    BY <2>3, <1>t DEF Finishes, SkipSuccessful, RecordSuccess, FailTransfer, ExecutionThrows, FailJob, EndJob, GoW, Types
  <2> QED BY <1>3, <2>1, <2>2, <2>3 DEF Recipient
<1>4. ASSUME NEW v \in Workers, NEW j \in Jobs, Take(v, j)
      PROVE  /\ wpc[w] # "idle" /\ wjob'[w] = wjob[w] /\ Recipient(w)' = Recipient(w)
             /\ jgroup'[wjob[w]] = jgroup[wjob[w]]
             /\ wpc'[w] = wpc[w] /\ debitDone'[w] = debitDone[w]
  BY <1>4, <1>t DEF Take, GoW, Types, Recipient
<1>5. ASSUME NEW j \in Jobs, Stall(j)
      PROVE  /\ wpc[w] # "idle" /\ wjob'[w] = wjob[w] /\ Recipient(w)' = Recipient(w)
             /\ jgroup'[wjob[w]] = jgroup[wjob[w]]
             /\ wpc'[w] = wpc[w] /\ debitDone'[w] = debitDone[w]
  BY <1>5, <1>t DEF Stall, workerVars, Recipient
<1>6. ~ Crash
  BY DEF Crash
<1> QED BY <1>1, <1>2, <1>3, <1>4, <1>5, <1>6 DEF Next, Work, Proceeds, Finishes

\* Only an execution moves money.
LEMMA OnlyWorkersPay ==
    ASSUME [Next]_vars
    PROVE  UNCHANGED <<balance, debits, reversals, sent>> \/ \E w \in Workers : Proceeds(w)
BY DEF Next, moneyVars, vars, Create, Decide, Process, Retry, RequestThrows, CheckCreate, InsertPayout, InsertRecipients,
       CheckApprove, ApprovePayout, CheckReject, RejectPayout, CheckCancel, CancelPayout, ReadPayout, ClosePayout,
       CheckProcess, RefuseProcess, ProcessPayout, QueueTransfer, AllQueued, RequeueTransfer, CheckRetry,
       RaiseRetryCount, Work, Take, Proceeds, SkipSuccessful, RecordSuccess, FailTransfer, ExecutionThrows, Stall, Crash

\* Whoever may still credit back holds a debit of its own.
LEMMA CoveredStep == ASSUME Shaped, Covered, [Next]_vars PROVE Covered'
<1> SUFFICES ASSUME NEW r \in Recipients
             PROVE  reversals'[r] + Cardinality(Holding(r)') <= debits'[r]
  BY DEF Covered
<1>t. Types /\ WorkerShape
  BY DEF Shaped, Shape
<1>a. Holding(r) \subseteq Workers /\ Holding(r)' \subseteq Workers
  BY DEF Holding
<1>c. /\ Cardinality(Holding(r)) \in Nat /\ Cardinality(Holding(r)') \in Nat
      /\ debits[r] \in Nat /\ reversals[r] \in Nat
      /\ reversals[r] + Cardinality(Holding(r)) <= debits[r]
  BY <1>a, <1>t, WorkersCount DEF Types, Covered
\* A worker that does not debit now held its unit before.
<1>1. ASSUME NEW w \in Workers, w \in Holding(r)', ~ DebitWallet(w)
      PROVE  w \in Holding(r) /\ ~ CreditBack(w)
  <2>1. debitDone'[w] /\ wpc'[w] \in {"transfer", "record", "fail"} /\ Recipient(w)' = r
    BY <1>1 DEF Holding
  <2>2. /\ wpc[w] # "idle" /\ Recipient(w) = r
        /\ (wpc'[w] = wpc[w] /\ debitDone'[w] = debitDone[w]) \/ Proceeds(w)
    BY <2>1, SameRecipient
  <2>3. debitDone[w]
    BY <1>1, <2>1, <2>2 DEF Proceeds, ReadRecipient, StartTransfer, DebitUnaudited, RefuseDebit,
         TransferDone, TransferAccepted, TransferRefused, TransferTimesOut, CreditBack, NothingToCredit,
         StatementThrows
  <2>4. wpc[w] \in {"transfer", "record", "fail", "failed"}
    BY <2>3, <1>t DEF WorkerShape
  <2>5. wpc[w] # "failed"
    BY <2>1, <2>2 DEF Proceeds, ReadRecipient, StartTransfer, DebitWallet, DebitUnaudited, RefuseDebit,
         TransferDone, TransferAccepted, TransferRefused, TransferTimesOut, CreditBack, NothingToCredit,
         StatementThrows
  <2>6. ~ CreditBack(w)
    BY <2>1, <1>t DEF CreditBack, GoW, Types
  <2> QED BY <2>2, <2>3, <2>4, <2>5, <2>6 DEF Holding
<1>2. ASSUME \A w \in Workers : ~ DebitWallet(w)
      PROVE  Holding(r)' \subseteq Holding(r)
  BY <1>1, <1>2, <1>a
<1>3. ASSUME Holding(r)' \subseteq Holding(r), debits'[r] >= debits[r], reversals'[r] = reversals[r], debits'[r] \in Nat
      PROVE  reversals'[r] + Cardinality(Holding(r)') <= debits'[r]
  <2>1. Cardinality(Holding(r)') <= Cardinality(Holding(r))
    BY <1>3, <1>a, WorkersCount
  <2> QED BY <2>1, <1>3, <1>c
<1>4. ASSUME NEW w \in Workers, DebitWallet(w)
      PROVE  reversals'[r] + Cardinality(Holding(r)') <= debits'[r]
  <2>1. \A v \in Workers \ {w} : ~ DebitWallet(v)
    BY <1>4, <1>t DEF DebitWallet, GoW, Types
  <2>2. Holding(r)' \subseteq Holding(r) \cup {w}
    BY <2>1, <1>1, <1>a
  <2>3. Recipient(w) \in Recipients /\ Recipient(w)' = Recipient(w)
    BY <1>4, WorkerFacts DEF DebitWallet, Recipient, jobVars
  <2>4. reversals' = reversals
    BY <1>4 DEF DebitWallet
  <2>5. CASE Recipient(w) = r
    <3>1. debits'[r] = debits[r] + 1
      BY <1>4, <2>5, <1>t DEF DebitWallet, Debit, Types
    <3>2. Cardinality(Holding(r)') <= Cardinality(Holding(r)) + 1
      BY <2>2, <1>a, WorkersCount
    <3> QED BY <3>1, <3>2, <2>4, <1>c
  <2>6. CASE Recipient(w) # r
    <3>1. debits'[r] = debits[r]
      BY <1>4, <2>6, <1>t DEF DebitWallet, Debit, Types
    <3>2. Holding(r)' \subseteq Holding(r)
      BY <2>2, <2>3, <2>6 DEF Holding
    <3> QED BY <3>1, <3>2, <2>4, <1>3, <1>c
  <2> QED BY <2>5, <2>6
<1>5. ASSUME NEW w \in Workers, CreditBack(w)
      PROVE  reversals'[r] + Cardinality(Holding(r)') <= debits'[r]
  <2>1. \A v \in Workers : ~ DebitWallet(v)
    BY <1>5, <1>t DEF DebitWallet, CreditBack, GoW, Types
  <2>2. debits' = debits /\ Recipient(w) \in Recipients /\ debitDone[w] /\ wpc[w] = "fail"
    BY <1>5, WorkerFacts DEF CreditBack, DebitKnown
  <2>3. CASE reversals'[r] = reversals[r]
    BY <2>1, <2>2, <2>3, <1>2, <1>3, <1>c
  <2>4. CASE reversals'[r] # reversals[r]
    <3>1. Recipient(w) = r /\ reversals'[r] = reversals[r] + 1
      BY <1>5, <2>2, <2>4, <1>t DEF CreditBack, Types
    <3>2. w \in Holding(r)
      BY <2>2, <3>1 DEF Holding
    <3>3. Holding(r)' \subseteq Holding(r) \ {w}
      BY <2>1, <1>1, <1>2, <1>5
    <3>4. Cardinality(Holding(r)') <= Cardinality(Holding(r)) - 1
      BY <3>2, <3>3, <1>a, WorkersCount
    <3> QED BY <3>1, <3>4, <2>2, <1>c
  <2> QED BY <2>3, <2>4
<1>6. ASSUME \A w \in Workers : ~ DebitWallet(w) /\ ~ CreditBack(w)
      PROVE  reversals'[r] + Cardinality(Holding(r)') <= debits'[r]
  <2>1. debits'[r] >= debits[r] /\ reversals'[r] = reversals[r] /\ debits'[r] \in Nat
    <3>1. CASE UNCHANGED <<balance, debits, reversals, sent>>
      BY <3>1, <1>c
    <3>2. ASSUME NEW w \in Workers, Proceeds(w)
          PROVE  debits'[r] >= debits[r] /\ reversals'[r] = reversals[r] /\ debits'[r] \in Nat
      BY <1>6, <3>2, <1>c, <1>t DEF Proceeds, ReadRecipient, StartTransfer, DebitUnaudited, Debit, RefuseDebit,
         TransferDone, TransferAccepted, TransferRefused, TransferTimesOut, NothingToCredit,
         StatementThrows, moneyVars, Types
    <3> QED BY <3>1, <3>2, OnlyWorkersPay
  <2> QED BY <2>1, <1>2, <1>3, <1>6
<1> QED BY <1>4, <1>5, <1>6

\* The group is credited back at most what it was debited, for every recipient.
THEOREM NothingCreditedUndebited == Spec => []ReversalNeedsDebit
<1>1. Init => Covered
  <2> SUFFICES ASSUME Init, NEW r \in Recipients PROVE 0 + Cardinality(Holding(r)) <= 0
    BY DEF Covered, Init
  <2>1. Holding(r) = {}
    BY DEF Init, Holding
  <2> QED BY <2>1, FS_EmptySet
<1>2. Shaped /\ Covered /\ [Next]_vars => Covered'
  BY CoveredStep
<1>3. Shaped /\ Covered => ReversalNeedsDebit
  <2> SUFFICES ASSUME Shaped, Covered, NEW r \in Recipients PROVE reversals[r] <= debits[r]
    BY DEF ReversalNeedsDebit
  <2>1. Cardinality(Holding(r)) \in Nat
    BY WorkersCount DEF Holding
  <2> QED BY <2>1 DEF Covered, Shaped, Types
<1> QED BY <1>1, <1>2, <1>3, AlwaysShaped, PTL DEF Spec
-----------------------------------------------------------------------------
(* The row of a recipient who was paid                                     *)

\* Whoever is past its look at a row that says SUCCESSFUL has been overtaken.
OvertakenShape ==
    \A w \in Workers :
        wpc[w] \notin {"idle", "read"} /\ rstatus[Recipient(w)] = "SUCCESSFUL" => w \in overtaken

\* A row changes to SUCCESSFUL only when an execution ends.
LEMMA RowWriters ==
    ASSUME Shaped, [Next]_vars, NEW r \in Recipients
    PROVE  \/ rstatus'[r] = rstatus[r]
           \/ rstatus[r] = "none" /\ rstatus'[r] = "PENDING"
           \/ \E w \in Workers :
                 /\ wpc[w] \notin {"idle", "read"} /\ Recipient(w) = r
                 /\ \/ Proceeds(w) /\ rstatus'[r] = "PROCESSING"
                    \/ /\ Finishes(w) /\ wpc'[w] = "idle"
                       /\ rstatus'[r] = "SUCCESSFUL" => Outrun(w) \subseteq overtaken'
<1>t. Types
  BY DEF Shaped
<1>1. CASE UNCHANGED vars
  BY <1>1 DEF vars, rowVars
<1>2. ASSUME NEW a \in Requests, Create(a) \/ Decide(a) \/ Process(a) \/ Retry(a) \/ RequestThrows(a)
      PROVE  rstatus'[r] = rstatus[r] \/ (rstatus[r] = "none" /\ rstatus'[r] = "PENDING")
  <2>1. CASE InsertRecipients(a)
    BY <2>1, InsertsNewRows
  <2>2. CASE ~ InsertRecipients(a)
    BY <1>2, <2>2 DEF Create, Decide, Process, Retry, RequestThrows, CheckCreate, InsertPayout,
       CheckApprove, ApprovePayout, CheckReject, RejectPayout, CheckCancel, CancelPayout, ReadPayout, ClosePayout,
       CheckProcess, RefuseProcess, ProcessPayout, QueueTransfer, AllQueued, RequeueTransfer, CheckRetry,
       RaiseRetryCount, rowVars
  <2> QED BY <2>1, <2>2
<1>3. ASSUME NEW w \in Workers, Proceeds(w)
      PROVE  \/ rstatus'[r] = rstatus[r]
             \/ wpc[w] \notin {"idle", "read"} /\ Recipient(w) = r /\ rstatus'[r] = "PROCESSING"
  BY <1>3, <1>t DEF Proceeds, ReadRecipient, StartTransfer, DebitWallet, DebitUnaudited, RefuseDebit,
         TransferDone, TransferAccepted, TransferRefused, TransferTimesOut, CreditBack, NothingToCredit,
         StatementThrows, SetRecipient, rowVars, Types
<1>4. ASSUME NEW w \in Workers, Finishes(w)
      PROVE  \/ rstatus'[r] = rstatus[r]
             \/ /\ wpc[w] \notin {"idle", "read"} /\ Recipient(w) = r /\ wpc'[w] = "idle"
                /\ rstatus'[r] = "SUCCESSFUL" => Outrun(w) \subseteq overtaken'
  BY <1>4, <1>t DEF Finishes, SkipSuccessful, RecordSuccess, FailTransfer, ExecutionThrows, SetRecipient,
         FailJob, EndJob, GoW, Leave, Outrun, rowVars, Types
<1>5. ASSUME NEW w \in Workers, NEW j \in Jobs, Take(w, j)
      PROVE  rstatus' = rstatus
  BY <1>5 DEF Take, rowVars
<1>6. ASSUME NEW j \in Jobs, Stall(j)
      PROVE  rstatus' = rstatus
  BY <1>6 DEF Stall, rowVars
<1>7. ASSUME Crash
      PROVE  rstatus' = rstatus
  BY <1>7 DEF Crash, rowVars
<1> QED BY <1>1, <1>2, <1>3, <1>4, <1>5, <1>6, <1>7 DEF Next, Work, Proceeds, Finishes

\* An execution that was overtaken remains so until it ends.
LEMMA StaysOvertaken ==
    ASSUME Shaped, [Next]_vars, NEW w \in overtaken, wpc'[w] # "idle"
    PROVE  w \in overtaken'
<1>t. Types
  BY DEF Shaped
<1>1. CASE UNCHANGED vars
  BY <1>1 DEF vars, workerVars
<1>2. ASSUME NEW a \in Requests, Create(a) \/ Decide(a) \/ Process(a) \/ Retry(a) \/ RequestThrows(a)
      PROVE  overtaken' = overtaken
  BY <1>2 DEF Create, Decide, Process, Retry, RequestThrows, CheckCreate, InsertPayout, InsertRecipients,
       CheckApprove, ApprovePayout, CheckReject, RejectPayout, CheckCancel, CancelPayout, ReadPayout, ClosePayout,
       CheckProcess, RefuseProcess, ProcessPayout, QueueTransfer, AllQueued, RequeueTransfer, CheckRetry,
       RaiseRetryCount, workerVars
<1>3. ASSUME NEW v \in Workers, Proceeds(v)
      PROVE  overtaken' = overtaken
  BY <1>3 DEF Proceeds, ReadRecipient, StartTransfer, DebitWallet, DebitUnaudited, RefuseDebit,
         TransferDone, TransferAccepted, TransferRefused, TransferTimesOut, CreditBack, NothingToCredit,
         StatementThrows
<1>4. ASSUME NEW v \in Workers, Finishes(v)
      PROVE  overtaken \ {v} \subseteq overtaken' /\ wpc'[v] = "idle"
  BY <1>4, <1>t DEF Finishes, SkipSuccessful, RecordSuccess, FailTransfer, ExecutionThrows, FailJob, EndJob,
         GoW, Leave, Types
<1>5. ASSUME NEW v \in Workers, NEW j \in Jobs, Take(v, j)
      PROVE  overtaken' = overtaken
  BY <1>5 DEF Take
<1>6. ASSUME NEW j \in Jobs, Stall(j)
      PROVE  overtaken' = overtaken
  BY <1>6 DEF Stall, workerVars
<1>7. w \in Workers
  BY <1>t DEF Types
<1>8. ~ Crash
  BY <1>7 DEF Crash
<1> QED BY <1>1, <1>2, <1>3, <1>4, <1>5, <1>6, <1>8 DEF Next, Work, Proceeds, Finishes

LEMMA OvertakenStep == ASSUME Shaped, OvertakenShape, [Next]_vars PROVE OvertakenShape'
<1> SUFFICES ASSUME NEW w \in Workers, wpc'[w] \notin {"idle", "read"}, rstatus'[Recipient(w)'] = "SUCCESSFUL"
             PROVE  w \in overtaken'
  BY DEF OvertakenShape
<1>1. /\ wpc[w] # "idle" /\ Recipient(w)' = Recipient(w)
      /\ wpc'[w] = wpc[w] \/ Proceeds(w)
  BY SameRecipient
<1>2. Recipient(w) \in Recipients /\ rstatus'[Recipient(w)] = "SUCCESSFUL"
  BY <1>1, WorkerFacts
<1>3. CASE rstatus[Recipient(w)] = "SUCCESSFUL"
  <2>1. wpc[w] # "read"
    BY <1>1, <1>3 DEF Proceeds, ReadRecipient, AlreadyPaid, StartTransfer, DebitWallet, DebitUnaudited, RefuseDebit,
         TransferDone, TransferAccepted, TransferRefused, TransferTimesOut, CreditBack, NothingToCredit,
         StatementThrows
  <2>2. w \in overtaken
    BY <1>1, <1>3, <2>1 DEF OvertakenShape
  <2> QED BY <2>2, StaysOvertaken
<1>4. CASE rstatus[Recipient(w)] # "SUCCESSFUL"
  <2>1. PICK v \in Workers :
            Finishes(v) /\ Recipient(v) = Recipient(w) /\ wpc'[v] = "idle" /\ Outrun(v) \subseteq overtaken'
    BY <1>2, <1>4, RowWriters
  <2>2. v # w
    BY <2>1
  <2>3. wpc'[w] = wpc[w]
    BY <2>1, <2>2 DEF Shaped, Types, Finishes, SkipSuccessful, RecordSuccess, FailTransfer, ExecutionThrows,
         FailJob, EndJob, GoW
  <2>4. w \in Outrun(v)
    BY <2>1, <2>2, <2>3 DEF Outrun
  <2> QED BY <2>1, <2>4
<1> QED BY <1>3, <1>4

\* The row of a recipient who was paid is overwritten only by an execution that
\* had looked at it before.
THEOREM PaidDisturbedOnlyFromBefore == Spec => OnlyOvertakenDisturb
<1>1. Init => OvertakenShape
  BY DEF Init, OvertakenShape
<1>2. Shaped /\ OvertakenShape /\ [Next]_vars => OvertakenShape'
  BY OvertakenStep
<1>3. Shaped /\ OvertakenShape /\ [Next]_vars =>
        [\A r \in Recipients :
            rstatus[r] = "SUCCESSFUL" /\ rstatus'[r] # "SUCCESSFUL"
                => \E w \in overtaken : Recipient(w) = r]_vars
  BY RowWriters DEF OvertakenShape
<1> QED BY <1>1, <1>2, <1>3, AlwaysShaped, PTL DEF Spec, OnlyOvertakenDisturb
-----------------------------------------------------------------------------
(* One job for one recipient                                               *)

Sole(j) == job[j] # "none" /\ \A i \in Jobs : jrec[i] = jrec[j] => i = j

\* What the group has paid for r, and whether the provider has.
Settled(r, n, b) == debits[r] = reversals[r] + n /\ (r \in sent <=> b)

\* The books between executions: nothing has happened, or r is recorded as paid.
Resting(r) ==
    \/ rstatus[r] # "SUCCESSFUL" /\ Settled(r, 0, FALSE)
    \/ rstatus[r] = "SUCCESSFUL" /\ Settled(r, 1, TRUE)

\* An execution holds the lock of its job until it goes wrong, and a lock is
\* held by an execution of the job.
Attended ==
    /\ \A w \in Workers :
          wpc[w] # "idle" /\ Recipient(w) \notin marred => job[wjob[w]] = "active" /\ owner[wjob[w]] = w
    /\ \A j \in Jobs : owner[j] # Nobody => wjob[owner[j]] = j /\ wpc[owner[j]] # "idle"

\* A recipient is queued again only after a first job failed, and the first
\* one debits.
FirstJob ==
    /\ \A r \in Recipients : rstatus[r] \notin {"none", "PENDING"} => \E j \in Jobs : jrec[j] = r
    /\ \A a \in Requests : rpc[a] \in {"retry", "requeue"} => \A r \in rtodo[a] : \E j \in Jobs : jrec[j] = r
    /\ \A j \in Jobs : Sole(j) => jgroup[j]

\* The books of a recipient who was never queued, of one whose only job waits,
\* was abandoned or has ended, and along the execution of an only job.
NeverQueued(r) == \A j \in Jobs : jrec[j] # r

Abandoned(j) == job[j] \in {"waiting", "failed"} \/ (job[j] = "active" /\ owner[j] = Nobody)

JobBooks(j) ==
    /\ Abandoned(j) => Resting(jrec[j])
    /\ job[j] = "completed" => Settled(jrec[j], 1, TRUE)

WorkerBooks(w) ==
    /\ wpc[w] = "read" => Resting(Recipient(w))
    /\ wpc[w] # "read" => rstatus[Recipient(w)] # "SUCCESSFUL"
    /\ wpc[w] \in {"start", "debit", "failed"} => Settled(Recipient(w), 0, FALSE)
    /\ wpc[w] = "transfer" => debitDone[w] /\ Settled(Recipient(w), 1, FALSE)
    /\ wpc[w] = "record" => debitDone[w] /\ Settled(Recipient(w), 1, TRUE)
    /\ wpc[w] = "fail" /\ debitDone[w] => Settled(Recipient(w), 1, FALSE)
    /\ wpc[w] = "fail" /\ ~ debitDone[w] => Settled(Recipient(w), 0, FALSE)

\* Whoever went wrong is left out.
Books ==
    /\ \A r \in Recipients : NeverQueued(r) => Settled(r, 0, FALSE)
    /\ \A j \in Jobs : Sole(j) /\ jrec[j] \notin marred => JobBooks(j)
    /\ \A w \in Workers :
          wpc[w] # "idle" /\ Sole(wjob[w]) /\ Recipient(w) \notin marred => WorkerBooks(w)

Straight == Attended /\ FirstJob /\ Books

\* Every only job and its execution are about somebody else than w is.
LEMMA Apart ==
    ASSUME Shaped, Attended, NEW w \in Workers, wpc[w] # "idle"
    PROVE  /\ wjob[w] \in Jobs /\ job[wjob[w]] # "none" /\ jrec[wjob[w]] = Recipient(w)
           /\ Recipient(w) \in Recipients
           /\ Recipient(w) \notin marred => job[wjob[w]] = "active" /\ owner[wjob[w]] = w
           /\ \A j \in Jobs : Sole(j) /\ j # wjob[w] => jrec[j] # Recipient(w)
           /\ \A v \in Workers \ {w} :
                 wpc[v] # "idle" /\ Sole(wjob[v]) /\ Recipient(v) \notin marred => Recipient(v) # Recipient(w)
<1>1. /\ wjob[w] \in Jobs /\ job[wjob[w]] # "none" /\ jrec[wjob[w]] = Recipient(w)
      /\ Recipient(w) \in Recipients
      /\ Recipient(w) \notin marred => job[wjob[w]] = "active" /\ owner[wjob[w]] = w
  BY WorkerFacts DEF Attended, Recipient
<1>2. \A j \in Jobs : Sole(j) /\ j # wjob[w] => jrec[j] # Recipient(w)
  BY <1>1 DEF Sole
<1>3. ASSUME NEW v \in Workers \ {w}, wpc[v] # "idle", Sole(wjob[v]), Recipient(v) \notin marred,
             Recipient(v) = Recipient(w)
      PROVE  FALSE
  <2>1. wjob[v] \in Jobs /\ jrec[wjob[v]] = Recipient(v) /\ owner[wjob[v]] = v
    BY <1>3, WorkerFacts DEF Attended, Recipient
  <2>2. wjob[w] = wjob[v]
    BY <2>1, <1>1, <1>3 DEF Sole
  <2> QED BY <2>1, <2>2, <1>1, <1>3
<1> QED BY <1>1, <1>2, <1>3

\* A step of w leaves the books of everybody else alone.
LEMMA OthersKept ==
    ASSUME Shaped, NEW w \in Workers, Proceeds(w) \/ Finishes(w),
           NEW r \in Recipients, r # Recipient(w)
    PROVE  /\ debits'[r] = debits[r] /\ reversals'[r] = reversals[r] /\ (r \in sent' <=> r \in sent)
           /\ rstatus'[r] = rstatus[r]
           /\ r \in marred' <=> r \in marred
<1>t. Types
  BY DEF Shaped
<1>1. rstatus'[r] = rstatus[r]
  BY WorkerWrites
<1>2. CASE Finishes(w)
  BY <1>1, <1>2 DEF Finishes, SkipSuccessful, RecordSuccess, FailTransfer, ExecutionThrows, moneyVars
<1>3. CASE Proceeds(w)
  <2>1. debits'[r] = debits[r] /\ reversals'[r] = reversals[r]
    BY <1>3, <1>t DEF Proceeds, ReadRecipient, StartTransfer, DebitWallet, DebitUnaudited, Debit, RefuseDebit,
         TransferDone, TransferAccepted, TransferRefused, TransferTimesOut, CreditBack, NothingToCredit,
         StatementThrows, moneyVars, Types
  <2>2. r \in sent' <=> r \in sent
    BY <1>3 DEF Proceeds, ReadRecipient, StartTransfer, DebitWallet, DebitUnaudited, Debit, RefuseDebit,
         TransferDone, TransferAccepted, TransferRefused, TransferTimesOut, CreditBack, NothingToCredit,
         StatementThrows, moneyVars
  <2>3. r \in marred' <=> r \in marred
    BY <1>3 DEF Proceeds, ReadRecipient, StartTransfer, DebitWallet, DebitUnaudited, Mar, RefuseDebit,
         TransferDone, TransferAccepted, TransferRefused, TransferTimesOut, CreditBack, NothingToCredit,
         StatementThrows, moneyVars
  <2> QED BY <1>1, <2>1, <2>2, <2>3
<1> QED BY <1>2, <1>3

\* Nobody is ever cleared.
LEMMA MarredStays ==
    ASSUME NEW w \in Workers, Proceeds(w) \/ Finishes(w)
    PROVE  marred \subseteq marred'
BY DEF Proceeds, Finishes, ReadRecipient, StartTransfer, DebitWallet, DebitUnaudited, Mar, RefuseDebit,
       TransferDone, TransferAccepted, TransferRefused, TransferTimesOut, CreditBack, NothingToCredit,
       StatementThrows, SkipSuccessful, RecordSuccess, FailTransfer, ExecutionThrows, moneyVars

\* The step of an only execution that does not go wrong.
LEMMA ProceedsBooks ==
    ASSUME Shaped, NEW w \in Workers, Proceeds(w), WorkerBooks(w), jgroup[wjob[w]],
           Recipient(w) \in Recipients, Recipient(w) \notin marred'
    PROVE  WorkerBooks(w)'
<1>t. Types /\ WorkerShape
  BY DEF Shaped, Shape
<1> DEFINE r == Recipient(w)
<1>u. UNCHANGED <<jrec, wjob>>
  BY DEF Proceeds, ReadRecipient, StartTransfer, DebitWallet, DebitUnaudited, RefuseDebit,
         TransferDone, TransferAccepted, TransferRefused, TransferTimesOut, CreditBack, NothingToCredit,
         StatementThrows, jobVars
<1>1. r' = r
  BY <1>u DEF Recipient
<1>3. /\ wpc \in [Workers -> WPCs] /\ debitDone \in [Workers -> BOOLEAN]
      /\ debits[r] \in Nat /\ reversals[r] \in Nat
  BY <1>t DEF Types
<1>4. rstatus'[r] # "SUCCESSFUL" /\ wpc'[w] # "read"
  <2>1. wpc[w] # "read" => rstatus[r] # "SUCCESSFUL"
    BY DEF WorkerBooks
  <2> QED BY <1>1, <2>1, <1>t DEF Proceeds, ReadRecipient, AlreadyPaid, StartTransfer, DebitWallet, DebitUnaudited,
         RefuseDebit, TransferDone, TransferAccepted, TransferRefused, TransferTimesOut, CreditBack, NothingToCredit,
         StatementThrows, SetRecipient, GoW, rowVars, Types
<1>5. CASE ReadRecipient(w) \/ StartTransfer(w) \/ NothingToCredit(w)
  <2>1. UNCHANGED moneyVars /\ wpc'[w] \in {"start", "debit", "failed"}
    BY <1>3, <1>5 DEF ReadRecipient, StartTransfer, NothingToCredit, GoW
  <2>2. Settled(r, 0, FALSE)
    BY <1>5 DEF ReadRecipient, AlreadyPaid, StartTransfer, NothingToCredit, DebitKnown, WorkerBooks, Resting
  <2> QED BY <1>1, <1>4, <2>1, <2>2 DEF Settled, moneyVars, WorkerBooks
<1>6. CASE RefuseDebit(w) \/ StatementThrows(w)
  <2>0. wpc[w] = "debit"
    BY <1>6 DEF RefuseDebit, StatementThrows, Mar
  <2>1. UNCHANGED <<debits, reversals, sent>> /\ wpc'[w] = "fail" /\ ~ debitDone'[w]
    BY <2>0, <1>3, <1>6, <1>t DEF RefuseDebit, StatementThrows, GoW, WorkerShape, moneyVars
  <2> QED BY <1>1, <1>4, <2>0, <2>1 DEF Settled, WorkerBooks
<1>7. CASE TransferRefused(w) \/ TransferAccepted(w)
  <2>0. wpc[w] = "transfer" /\ sent' = sent
    BY <1>7 DEF TransferRefused, TransferAccepted, Mar, moneyVars
  <2>1. UNCHANGED <<debits, reversals>> /\ wpc'[w] = "fail" /\ debitDone'[w] = debitDone[w]
    BY <1>3, <1>7 DEF TransferRefused, TransferAccepted, GoW, moneyVars
  <2> QED BY <1>1, <1>4, <2>0, <2>1 DEF Settled, WorkerBooks
<1>8. CASE DebitWallet(w)
  <2>1. /\ wpc'[w] = "transfer" /\ debitDone'[w] /\ debits'[r] = debits[r] + 1
        /\ reversals' = reversals /\ sent' = sent
    BY <1>1, <1>3, <1>8, <1>t DEF DebitWallet, Debit, GoW, Types
  <2> QED BY <1>1, <1>3, <1>4, <1>8, <2>1 DEF Settled, DebitWallet, WorkerBooks
<1>9. CASE TransferDone(w)
  <2>1. /\ wpc'[w] = "record" /\ debits' = debits /\ reversals' = reversals /\ sent' = sent \cup {r}
        /\ debitDone' = debitDone
    BY <1>3, <1>9 DEF TransferDone, GoW
  <2> QED BY <1>1, <1>4, <1>9, <2>1 DEF Settled, TransferDone, WorkerBooks
<1>10. CASE CreditBack(w)
  <2>0. ~ Mar(w)
    BY DEF Mar
  <2>1. /\ wpc'[w] = "failed" /\ debits' = debits /\ sent' = sent /\ reversals'[r] = reversals[r] + 1
        /\ debitDone[w]
    BY <2>0, <1>1, <1>3, <1>10, <1>t DEF CreditBack, DebitKnown, GoW, Types
  <2> QED BY <1>1, <1>3, <1>4, <1>10, <2>1 DEF Settled, CreditBack, WorkerBooks
<1>11. ~ DebitUnaudited(w) /\ ~ TransferTimesOut(w)
  BY DEF DebitUnaudited, TransferTimesOut, Mar
<1> QED BY <1>5, <1>6, <1>7, <1>8, <1>9, <1>10, <1>11 DEF Proceeds

LEMMA ProceedsStraight ==
    ASSUME Shaped, Straight, NEW w \in Workers, Proceeds(w)
    PROVE  Straight'
<1> USE DEF Straight
<1>t. Types /\ JobShape
  BY DEF Shaped, Shape
<1>r. /\ wpc[w] # "idle"
      /\ \A r \in Recipients \ {Recipient(w)} : rstatus'[r] = rstatus[r]
      /\ UNCHANGED <<reqVars, jrec, jgroup>>
  BY WorkerWrites
<1>a. /\ wjob[w] \in Jobs /\ job[wjob[w]] # "none" /\ jrec[wjob[w]] = Recipient(w)
      /\ Recipient(w) \in Recipients
      /\ Recipient(w) \notin marred => job[wjob[w]] = "active" /\ owner[wjob[w]] = w
      /\ \A j \in Jobs : Sole(j) /\ j # wjob[w] => jrec[j] # Recipient(w)
      /\ \A v \in Workers \ {w} :
            wpc[v] # "idle" /\ Sole(wjob[v]) /\ Recipient(v) \notin marred => Recipient(v) # Recipient(w)
  BY <1>r, Apart
<1>u. UNCHANGED <<job, owner, wjob>> /\ marred \subseteq marred'
  BY MarredStays DEF Proceeds, ReadRecipient, StartTransfer, DebitWallet, DebitUnaudited, RefuseDebit,
         TransferDone, TransferAccepted, TransferRefused, TransferTimesOut, CreditBack, NothingToCredit,
         StatementThrows, jobVars
<1>s. \A j \in Jobs : Sole(j)' <=> Sole(j)
  BY <1>u, <1>r DEF Sole
<1>c. \A v \in Workers : Recipient(v)' = Recipient(v)
  BY <1>u, <1>r DEF Recipient
<1>w. /\ wpc'[w] # "idle"
      /\ \A v \in Workers \ {w} : wpc'[v] = wpc[v] /\ debitDone'[v] = debitDone[v]
  BY <1>t DEF Proceeds, ReadRecipient, StartTransfer, DebitWallet, DebitUnaudited, RefuseDebit,
         TransferDone, TransferAccepted, TransferRefused, TransferTimesOut, CreditBack, NothingToCredit,
         StatementThrows, GoW, Types
<1>1. Attended'
  <2>1. \A v \in Workers : wpc'[v] # "idle" => wpc[v] # "idle"
    BY <1>r, <1>w
  <2>2. \A v \in Workers : wpc[v] # "idle" => wpc'[v] # "idle"
    BY <1>r, <1>w
  <2> QED BY <1>u, <1>c, <1>t, <2>1, <2>2, PayoutTransfersAssumption DEF Attended, Types
<1>2. FirstJob'
  BY <1>u, <1>s, <1>r, <1>a DEF FirstJob, reqVars, Sole
<1>3. \A r \in Recipients : NeverQueued(r)' => Settled(r, 0, FALSE)'
  BY <1>r, <1>a, OthersKept DEF Books, NeverQueued, Settled
<1>4. ASSUME NEW j \in Jobs, Sole(j)', jrec'[j] \notin marred'
      PROVE  JobBooks(j)'
  <2>1. Sole(j) /\ jrec'[j] = jrec[j] /\ jrec[j] \notin marred
    BY <1>4, <1>s, <1>r, <1>u
  <2>2. CASE j = wjob[w]
    <3>1. job'[j] = "active" /\ owner'[j] # Nobody
      BY <2>1, <2>2, <1>a, <1>u, PayoutTransfersAssumption
    <3> QED BY <3>1 DEF JobBooks, Abandoned
  <2>3. CASE j # wjob[w]
    <3>1. jrec[j] # Recipient(w) /\ jrec[j] \in Recipients
      BY <2>1, <2>3, <1>a, <1>t DEF JobShape, Sole, Types
    <3>2. JobBooks(j)
      BY <2>1 DEF Books
    <3>3. /\ debits'[jrec[j]] = debits[jrec[j]] /\ reversals'[jrec[j]] = reversals[jrec[j]]
          /\ jrec[j] \in sent' <=> jrec[j] \in sent
          /\ rstatus'[jrec[j]] = rstatus[jrec[j]]
      BY <3>1, OthersKept
    <3> QED BY <2>1, <3>2, <3>3, <1>u DEF JobBooks, Abandoned, Resting, Settled
  <2> QED BY <2>2, <2>3
<1>5. ASSUME NEW v \in Workers \ {w}, wpc'[v] # "idle", Sole(wjob[v])', Recipient(v)' \notin marred'
      PROVE  WorkerBooks(v)'
  <2>1. /\ wpc[v] # "idle" /\ wjob'[v] = wjob[v] /\ wjob[v] \in Jobs
        /\ Recipient(v)' = Recipient(v) /\ Recipient(v) \notin marred
    BY <1>5, <1>w, <1>u, <1>c, WorkerFacts
  <2>2. Sole(wjob[v]) /\ Recipient(v) # Recipient(w) /\ Recipient(v) \in Recipients
    BY <2>1, <1>5, <1>s, <1>r, <1>u, <1>a, WorkerFacts DEF Sole
  <2>3. WorkerBooks(v)
    BY <2>1, <2>2 DEF Books
  <2>4. /\ debits'[Recipient(v)] = debits[Recipient(v)] /\ reversals'[Recipient(v)] = reversals[Recipient(v)]
        /\ Recipient(v) \in sent' <=> Recipient(v) \in sent
        /\ rstatus'[Recipient(v)] = rstatus[Recipient(v)]
    BY <2>2, OthersKept
  <2> QED BY <2>1, <2>3, <2>4, <1>w DEF WorkerBooks, Resting, Settled
<1>6. ASSUME Sole(wjob[w])', Recipient(w)' \notin marred'
      PROVE  WorkerBooks(w)'
  <2>1. Sole(wjob[w]) /\ Recipient(w) \notin marred /\ Recipient(w) \notin marred'
    BY <1>6, <1>s, <1>u, <1>r, <1>a, <1>c DEF Sole
  <2>2. WorkerBooks(w) /\ jgroup[wjob[w]]
    BY <2>1, <1>r, <1>a DEF Books, FirstJob
  <2> QED BY <2>1, <2>2, <1>a, ProceedsBooks
<1>7. Books'
  BY <1>3, <1>4, <1>5, <1>6 DEF Books
<1> QED BY <1>1, <1>2, <1>7

\* An only job whose execution ends without having gone wrong.
LEMMA FinishesBooks ==
    ASSUME Shaped, NEW w \in Workers, Finishes(w), WorkerBooks(w), NEW j \in Jobs, j = wjob[w],
           jrec[j] = Recipient(w), Recipient(w) \in Recipients, owner[j] = w
    PROVE  JobBooks(j)'
<1>t. Types
  BY DEF Shaped
<1>u. UNCHANGED moneyVars /\ jrec' = jrec
  BY DEF Finishes, SkipSuccessful, RecordSuccess, FailTransfer, ExecutionThrows, FailJob
<1> DEFINE r == Recipient(w)
<1>1. CASE SkipSuccessful(w)
  <2>1. job'[j] = "completed" /\ Settled(r, 1, TRUE)
    BY <1>1, <1>t DEF SkipSuccessful, AlreadyPaid, EndJob, WorkerBooks, Resting, Types
  <2> QED BY <2>1, <1>u DEF JobBooks, Abandoned, Settled, moneyVars
<1>2. CASE RecordSuccess(w)
  <2>0. EndJob(w, "completed")
    BY <1>2 DEF RecordSuccess
  <2>1. job'[j] = "completed"
    BY <2>0, <1>t DEF EndJob, Types
  <2>2. Settled(r, 1, TRUE)
    BY <1>2 DEF RecordSuccess, WorkerBooks
  <2> QED BY <2>1, <2>2, <1>u DEF JobBooks, Abandoned, Settled, moneyVars
<1>3. CASE FailTransfer(w) \/ ExecutionThrows(w)
  <2>0. job' = [job EXCEPT ![j] = AfterFailure(j)]
    <3>1. FailJob(w)
      BY <1>3 DEF FailTransfer, ExecutionThrows
    <3>2. EndJob(w, AfterFailure(wjob[w]))
      BY <3>1 DEF FailJob
    <3> QED BY <3>2 DEF EndJob
  <2>1. job'[j] # "completed"
    BY <2>0, <1>t DEF AfterFailure, Types
  <2>2. CASE FailTransfer(w)
    <3>1. rstatus'[r] = "FAILED" /\ Settled(r, 0, FALSE)
      BY <2>2, <1>t DEF FailTransfer, SetRecipient, WorkerBooks, Types
    <3> QED BY <2>1, <3>1, <1>u DEF JobBooks, Resting, Settled, moneyVars
  <2>3. CASE ExecutionThrows(w) /\ wpc[w] = "record"
    <3>0. SetRecipient(w, "SUCCESSFUL")
      BY <2>3 DEF ExecutionThrows
    <3>1. rstatus'[r] = "SUCCESSFUL" /\ Settled(r, 1, TRUE)
      BY <2>3, <3>0, <1>t DEF SetRecipient, WorkerBooks, Types
    <3> QED BY <2>1, <3>1, <1>u DEF JobBooks, Resting, Settled, moneyVars
  <2>4. CASE ExecutionThrows(w) /\ wpc[w] # "record"
    <3>1. rstatus' = rstatus /\ Resting(r)
      BY <2>4 DEF ExecutionThrows, WorkerBooks, Resting
    <3> QED BY <2>1, <3>1, <1>u DEF JobBooks, Resting, Settled, moneyVars
  <2> QED BY <1>3, <2>2, <2>3, <2>4
<1> QED BY <1>1, <1>2, <1>3 DEF Finishes

LEMMA FinishesStraight ==
    ASSUME Shaped, Straight, NEW w \in Workers, Finishes(w)
    PROVE  Straight'
<1> USE DEF Straight
<1>t. Types /\ JobShape
  BY DEF Shaped, Shape
<1>r. /\ wpc[w] # "idle"
      /\ \A r \in Recipients \ {Recipient(w)} : rstatus'[r] = rstatus[r]
      /\ UNCHANGED <<reqVars, jrec, jgroup>>
  BY WorkerWrites
<1>a. /\ wjob[w] \in Jobs /\ job[wjob[w]] # "none" /\ jrec[wjob[w]] = Recipient(w)
      /\ Recipient(w) \in Recipients
      /\ Recipient(w) \notin marred => job[wjob[w]] = "active" /\ owner[wjob[w]] = w
      /\ \A j \in Jobs : Sole(j) /\ j # wjob[w] => jrec[j] # Recipient(w)
      /\ \A v \in Workers \ {w} :
            wpc[v] # "idle" /\ Sole(wjob[v]) /\ Recipient(v) \notin marred => Recipient(v) # Recipient(w)
  BY <1>r, Apart
<1>w. /\ wpc' = [wpc EXCEPT ![w] = "idle"] /\ wjob' = [wjob EXCEPT ![w] = NoJob]
      /\ debitDone' = [debitDone EXCEPT ![w] = FALSE]
      /\ UNCHANGED moneyVars
  BY DEF Finishes, SkipSuccessful, RecordSuccess, FailTransfer, ExecutionThrows, FailJob, EndJob, GoW
<1>j. \/ UNCHANGED <<job, owner>> /\ owner[wjob[w]] # w
      \/ /\ owner[wjob[w]] = w /\ owner' = [owner EXCEPT ![wjob[w]] = Nobody]
         /\ \E s \in {"waiting", "failed", "completed"} : job' = [job EXCEPT ![wjob[w]] = s]
  BY DEF Finishes, SkipSuccessful, RecordSuccess, FailTransfer, ExecutionThrows, FailJob, EndJob, AfterFailure
<1>k. \A j \in Jobs : j # wjob[w] => job'[j] = job[j] /\ owner'[j] = owner[j]
  BY <1>j, <1>t DEF Types
<1>n. \A j \in Jobs : job'[j] = "none" <=> job[j] = "none"
  BY <1>j, <1>a, <1>t DEF Types
<1>s. \A j \in Jobs : Sole(j)' <=> Sole(j)
  BY <1>n, <1>r DEF Sole
<1>v. \A v \in Workers : wpc'[v] # "idle" =>
          v # w /\ wpc'[v] = wpc[v] /\ wjob'[v] = wjob[v] /\ debitDone'[v] = debitDone[v] /\ Recipient(v)' = Recipient(v)
  BY <1>w, <1>r, <1>t DEF Recipient, Types
<1>1. Attended'
  <2>1. ASSUME NEW v \in Workers, wpc'[v] # "idle", Recipient(v)' \notin marred'
        PROVE  job'[wjob'[v]] = "active" /\ owner'[wjob'[v]] = v
    <3>1. /\ v # w /\ wpc[v] # "idle" /\ wjob'[v] = wjob[v] /\ Recipient(v) \notin marred
      BY <1>v, <1>w, <2>1 DEF moneyVars
    <3>2. wjob[v] \in Jobs /\ job[wjob[v]] = "active" /\ owner[wjob[v]] = v
      BY <3>1, WorkerFacts DEF Attended
    <3> QED BY <3>1, <3>2, <1>j, <1>k
  <2>2. ASSUME NEW j \in Jobs, owner'[j] # Nobody
        PROVE  wjob'[owner'[j]] = j /\ wpc'[owner'[j]] # "idle"
    <3>1. owner'[j] = owner[j] /\ owner[j] # w
      <4>1. owner'[j] = owner[j]
        BY <2>2, <1>j, <1>a, <1>t DEF Types
      <4>2. owner[j] = w => j = wjob[w]
        BY <2>2, <4>1 DEF Attended
      <4>3. j = wjob[w] => owner[j] # w
        BY <2>2, <4>1, <1>j, <1>a, <1>t DEF Types
      <4> QED BY <4>1, <4>2, <4>3
    <3>2. owner[j] \in Workers /\ wjob[owner[j]] = j /\ wpc[owner[j]] # "idle"
      BY <2>2, <3>1, <1>t DEF Attended, Types
    <3> QED BY <3>1, <3>2, <1>w, <1>t DEF Types
  <2> QED BY <2>1, <2>2 DEF Attended
<1>2. FirstJob'
  BY <1>s, <1>r, <1>a DEF FirstJob, reqVars, Sole
<1>3. \A r \in Recipients : NeverQueued(r)' => Settled(r, 0, FALSE)'
  BY <1>r, <1>w DEF Books, NeverQueued, Settled, moneyVars
<1>4. ASSUME NEW j \in Jobs, Sole(j)', jrec'[j] \notin marred'
      PROVE  JobBooks(j)'
  <2>1. Sole(j) /\ jrec'[j] = jrec[j] /\ jrec[j] \notin marred
    BY <1>4, <1>s, <1>r, <1>w DEF moneyVars
  <2>2. CASE j = wjob[w]
    <3>1. Recipient(w) \notin marred /\ WorkerBooks(w) /\ owner[j] = w
      BY <2>1, <2>2, <1>a, <1>r DEF Books
    <3> QED BY <3>1, <2>2, <1>a, FinishesBooks
  <2>3. CASE j # wjob[w]
    <3>1. jrec[j] # Recipient(w) /\ jrec[j] \in Recipients
      BY <2>1, <2>3, <1>a, <1>t DEF JobShape, Sole, Types
    <3>2. JobBooks(j)
      BY <2>1 DEF Books
    <3>3. rstatus'[jrec[j]] = rstatus[jrec[j]]
      BY <3>1, <1>r
    <3> QED BY <2>1, <2>3, <3>2, <3>3, <1>k, <1>w DEF JobBooks, Abandoned, Resting, Settled, moneyVars
  <2> QED BY <2>2, <2>3
<1>5. ASSUME NEW v \in Workers, wpc'[v] # "idle", Sole(wjob[v])', Recipient(v)' \notin marred'
      PROVE  WorkerBooks(v)'
  <2>1. /\ v # w /\ wpc[v] # "idle" /\ wjob'[v] = wjob[v] /\ wjob[v] \in Jobs
        /\ Recipient(v)' = Recipient(v) /\ Recipient(v) \notin marred
    BY <1>5, <1>v, <1>w, WorkerFacts DEF moneyVars
  <2>2. Sole(wjob[v]) /\ Recipient(v) # Recipient(w) /\ Recipient(v) \in Recipients
    BY <2>1, <1>5, <1>n, <1>r, <1>a, WorkerFacts DEF Sole
  <2>3. WorkerBooks(v)
    BY <2>1, <2>2 DEF Books
  <2>4. rstatus'[Recipient(v)] = rstatus[Recipient(v)]
    BY <2>2, <1>r
  <2> QED BY <1>5, <2>1, <2>3, <2>4, <1>v, <1>w DEF WorkerBooks, Resting, Settled, moneyVars
<1> QED BY <1>1, <1>2, <1>3, <1>4, <1>5 DEF Books

LEMMA TakeStraight ==
    ASSUME Shaped, Straight, NEW w \in Workers, NEW j \in Jobs, Take(w, j)
    PROVE  Straight'
<1> USE DEF Straight
<1>t. Types /\ JobShape
  BY DEF Shaped, Shape
<1>u. UNCHANGED <<jrec, jgroup, debitDone, moneyVars, rowVars, reqVars>>
  BY DEF Take
<1>0. /\ wpc[w] = "idle" /\ job[j] = "waiting"
      /\ job' = [job EXCEPT ![j] = "active"] /\ owner' = [owner EXCEPT ![j] = w]
      /\ wjob' = [wjob EXCEPT ![w] = j] /\ wpc' = [wpc EXCEPT ![w] = "read"]
  BY DEF Take, GoW
<1>s. \A i \in Jobs : Sole(i)' <=> Sole(i)
  BY <1>u, <1>0, <1>t DEF Sole, Types
<1>v. \A v \in Workers \ {w} : wpc'[v] # "idle" =>
          wpc[v] # "idle" /\ wpc'[v] = wpc[v] /\ wjob'[v] = wjob[v] /\ Recipient(v)' = Recipient(v) /\ wjob[v] \in Jobs
  BY <1>0, <1>u, <1>t, WorkerFacts DEF Recipient, Types
<1>1. Attended'
  <2>1. ASSUME NEW v \in Workers, wpc'[v] # "idle", Recipient(v)' \notin marred'
        PROVE  job'[wjob'[v]] = "active" /\ owner'[wjob'[v]] = v
    <3>1. CASE v = w
      BY <3>1, <1>0, <1>t DEF Types
    <3>2. CASE v # w
      <4>1. Recipient(v) \notin marred /\ job[wjob[v]] = "active" /\ owner[wjob[v]] = v
        BY <3>2, <2>1, <1>v, <1>u DEF Attended, moneyVars
      <4> QED BY <4>1, <3>2, <2>1, <1>v, <1>0, <1>t DEF Types
    <3> QED BY <3>1, <3>2
  <2>2. ASSUME NEW i \in Jobs, owner'[i] # Nobody
        PROVE  wjob'[owner'[i]] = i /\ wpc'[owner'[i]] # "idle"
    <3>1. CASE i = j
      BY <3>1, <1>0, <1>t DEF Types
    <3>2. CASE i # j
      <4>1. owner'[i] = owner[i] /\ owner[i] \in Workers /\ wjob[owner[i]] = i /\ wpc[owner[i]] # "idle"
        BY <3>2, <2>2, <1>0, <1>t DEF Attended, Types
      <4> QED BY <4>1, <1>0, <1>t DEF Types
    <3> QED BY <3>1, <3>2
  <2> QED BY <2>1, <2>2 DEF Attended
<1>2. FirstJob'
  BY <1>u, <1>s DEF FirstJob, rowVars, reqVars
<1>3. \A r \in Recipients : NeverQueued(r)' => Settled(r, 0, FALSE)'
  BY <1>u DEF Books, NeverQueued, Settled, moneyVars
<1>4. ASSUME NEW i \in Jobs, Sole(i)', jrec'[i] \notin marred'
      PROVE  JobBooks(i)'
  <2>1. CASE i = j
    <3>1. job'[i] = "active" /\ owner'[i] # Nobody
      BY <2>1, <1>0, <1>t, PayoutTransfersAssumption DEF Types
    <3> QED BY <3>1 DEF JobBooks, Abandoned
  <2>2. CASE i # j
    <3>1. JobBooks(i) /\ job'[i] = job[i] /\ owner'[i] = owner[i]
      BY <2>2, <1>4, <1>s, <1>u, <1>0, <1>t DEF Books, Types, moneyVars
    <3> QED BY <3>1, <1>u DEF JobBooks, Abandoned, Resting, Settled, moneyVars, rowVars
  <2> QED BY <2>1, <2>2
<1>5. ASSUME NEW v \in Workers, wpc'[v] # "idle", Sole(wjob[v])', Recipient(v)' \notin marred'
      PROVE  WorkerBooks(v)'
  <2>1. CASE v = w
    <3>1. wjob'[v] = j /\ wpc'[v] = "read" /\ Recipient(v)' = jrec[j]
      BY <2>1, <1>0, <1>u, <1>t DEF Recipient, Types
    <3>2. Sole(j) /\ jrec[j] \notin marred
      BY <3>1, <1>5, <1>u, <1>0, <1>t DEF Sole, Types, moneyVars
    <3>3. Resting(jrec[j])
      BY <3>2, <1>0 DEF Books, JobBooks, Abandoned
    <3> QED BY <3>1, <3>3, <1>u DEF WorkerBooks, Resting, Settled, moneyVars, rowVars
  <2>2. CASE v # w
    <3>1. /\ wpc[v] # "idle" /\ wpc'[v] = wpc[v] /\ wjob'[v] = wjob[v] /\ wjob[v] \in Jobs
          /\ Recipient(v)' = Recipient(v) /\ Recipient(v) \notin marred
      BY <2>2, <1>5, <1>v, <1>u DEF moneyVars
    <3>2. Sole(wjob[v])
      BY <3>1, <1>5, <1>u, <1>0, <1>t DEF Sole, Types
    <3>3. WorkerBooks(v)
      BY <3>1, <3>2 DEF Books
    <3> QED BY <3>1, <3>3, <1>u DEF WorkerBooks, Resting, Settled, moneyVars, rowVars
  <2> QED BY <2>1, <2>2
<1> QED BY <1>1, <1>2, <1>3, <1>4, <1>5 DEF Books

\* A request that queues nothing.
LEMMA RequestStraight ==
    ASSUME Shaped, Straight, NEW a \in Requests,
           Create(a) \/ Decide(a) \/ Process(a) \/ Retry(a) \/ RequestThrows(a),
           ~ QueueTransfer(a), ~ RequeueTransfer(a)
    PROVE  Straight'
<1> USE DEF Straight
<1>t. Types
  BY DEF Shaped
<1>u. UNCHANGED <<moneyVars, jobVars, workerVars>>
  BY DEF Create, Decide, Process, Retry, RequestThrows, CheckCreate, InsertPayout, InsertRecipients,
       CheckApprove, ApprovePayout, CheckReject, RejectPayout, CheckCancel, CancelPayout, ReadPayout, ClosePayout,
       CheckProcess, RefuseProcess, ProcessPayout, AllQueued, CheckRetry, RaiseRetryCount
<1>r. \A r \in Recipients : rstatus'[r] = rstatus[r] \/ (rstatus[r] = "none" /\ rstatus'[r] = "PENDING")
  <2>1. CASE InsertRecipients(a)
    BY <2>1, InsertsNewRows
  <2>2. CASE ~ InsertRecipients(a)
    BY <2>2 DEF Create, Decide, Process, Retry, RequestThrows, CheckCreate, InsertPayout,
       CheckApprove, ApprovePayout, CheckReject, RejectPayout, CheckCancel, CancelPayout, ReadPayout, ClosePayout,
       CheckProcess, RefuseProcess, ProcessPayout, AllQueued, CheckRetry, RaiseRetryCount, rowVars
  <2> QED BY <2>1, <2>2
<1>q. \A b \in Requests : rpc'[b] \in {"retry", "requeue"} =>
          \A r \in rtodo'[b] : \E j \in Jobs : jrec[j] = r
  <2>1. CASE CheckRetry(a)
    <3>1. PICK r \in Recipients : rstatus[r] = "FAILED" /\ rtodo' = [rtodo EXCEPT ![a] = {r}]
      BY <2>1 DEF CheckRetry
    <3>2. \A b \in Requests \ {a} : rpc'[b] = rpc[b]
      BY <2>1, <1>t DEF CheckRetry, GoR, Types
    <3> QED BY <3>1, <3>2, <1>t DEF FirstJob, Types
  <2>2. CASE RaiseRetryCount(a)
    BY <2>2, <1>t DEF RaiseRetryCount, GoR, FirstJob, Types
  <2>3. CASE ~ CheckRetry(a) /\ ~ RaiseRetryCount(a)
    <3>1. \A b \in Requests \ {a} : rpc'[b] = rpc[b] /\ rtodo'[b] = rtodo[b]
      BY <2>3, <1>t DEF Create, Decide, Process, Retry, RequestThrows, CheckCreate, InsertPayout, InsertRecipients,
         CheckApprove, ApprovePayout, CheckReject, RejectPayout, CheckCancel, CancelPayout, ReadPayout, ClosePayout,
         CheckProcess, RefuseProcess, ProcessPayout, AllQueued, GoR, EndR, Types
    <3>2. rpc'[a] \notin {"retry", "requeue"}
      BY <2>3, <1>t DEF Create, Decide, Process, Retry, RequestThrows, CheckCreate, InsertPayout, InsertRecipients,
         CheckApprove, ApprovePayout, CheckReject, RejectPayout, CheckCancel, CancelPayout, ReadPayout, ClosePayout,
         CheckProcess, RefuseProcess, ProcessPayout, AllQueued, GoR, EndR, Types
    <3> QED BY <3>1, <3>2 DEF FirstJob
  <2> QED BY <2>1, <2>2, <2>3
<1>1. Attended'
  BY <1>u DEF Attended, moneyVars, jobVars, workerVars, Recipient
<1>2. FirstJob'
  BY <1>u, <1>r, <1>q DEF FirstJob, jobVars, Sole
<1>3. \A r \in Recipients : NeverQueued(r)' => Settled(r, 0, FALSE)'
  BY <1>u DEF Books, NeverQueued, Settled, jobVars, moneyVars
<1>4. ASSUME NEW j \in Jobs, Sole(j)', jrec'[j] \notin marred'
      PROVE  JobBooks(j)'
  <2>1. jrec[j] \in Recipients /\ rstatus[jrec[j]] # "none" /\ JobBooks(j)
    BY <1>4, <1>u, <1>t DEF Shaped, Shape, JobShape, Types, Sole, Books, jobVars, moneyVars
  <2>2. rstatus'[jrec[j]] = rstatus[jrec[j]]
    BY <2>1, <1>r
  <2> QED BY <2>1, <2>2, <1>u DEF JobBooks, Abandoned, Resting, Settled, jobVars, moneyVars
<1>5. ASSUME NEW w \in Workers, wpc'[w] # "idle", Sole(wjob[w])', Recipient(w)' \notin marred'
      PROVE  WorkerBooks(w)'
  <2>1. /\ wpc[w] # "idle" /\ Recipient(w)' = Recipient(w)
        /\ Recipient(w) \in Recipients /\ rstatus[Recipient(w)] # "none"
    BY <1>5, <1>u, WorkerFacts DEF Recipient, jobVars, workerVars
  <2>2. WorkerBooks(w)
    BY <1>5, <2>1, <1>u DEF Books, Sole, jobVars, workerVars, moneyVars
  <2>3. rstatus'[Recipient(w)] = rstatus[Recipient(w)]
    BY <2>1, <1>r
  <2> QED BY <2>1, <2>2, <2>3, <1>u DEF WorkerBooks, Resting, Settled, workerVars, moneyVars
<1> QED BY <1>1, <1>2, <1>3, <1>4, <1>5 DEF Books

\* A first job debits; a job after it makes nobody's only one.
LEMMA QueueStraight ==
    ASSUME Shaped, Straight, NEW a \in Requests, QueueTransfer(a) \/ RequeueTransfer(a)
    PROVE  Straight'
<1> USE PayoutTransfersAssumption DEF Straight
<1>t. Types /\ JobShape /\ RowShape
  BY DEF Shaped, Shape
<1>u. UNCHANGED <<moneyVars, rowVars, workerVars>>
  BY DEF QueueTransfer, RequeueTransfer
<1>p. PICK r \in rtodo[a], g \in BOOLEAN :
          AddJob(r, g) /\ (g \/ rpc[a] = "requeue")
  BY DEF QueueTransfer, RequeueTransfer
<1>q. PICK j \in Jobs :
          /\ job[j] = "none" /\ job' = [job EXCEPT ![j] = "waiting"]
          /\ jrec' = [jrec EXCEPT ![j] = r] /\ jgroup' = [jgroup EXCEPT ![j] = g]
          /\ owner' = owner
  BY <1>p DEF AddJob
<1>0. /\ r \in Recipients /\ jrec[j] = NoRecipient
      /\ \A w \in Workers : wpc[w] # "idle" => wjob[w] # j /\ wjob[w] \in Jobs
  BY <1>q, <1>t, WorkerFacts DEF Types, JobShape
<1>g. g \/ \E i \in Jobs : jrec[i] = r
  BY <1>p DEF FirstJob
<1>s. \A i \in Jobs \ {j} : jrec'[i] = jrec[i] /\ job'[i] = job[i] /\ (Sole(i)' => Sole(i))
  BY <1>q, <1>0, <1>t DEF Sole, Types, JobShape
<1>n. Sole(j)' => NeverQueued(r)
  <2> SUFFICES ASSUME Sole(j)', NEW i \in Jobs, jrec[i] = r PROVE FALSE
    BY DEF NeverQueued
  <2>1. i # j /\ jrec'[i] = r /\ jrec'[j] = r
    BY <1>q, <1>0, <1>t DEF Types
  <2> QED BY <2>1 DEF Sole
<1>c. \A w \in Workers : wpc[w] # "idle" => Recipient(w)' = Recipient(w) /\ job'[wjob[w]] = job[wjob[w]]
  BY <1>u, <1>s, <1>0 DEF Recipient, workerVars
<1>1. Attended'
  BY <1>u, <1>q, <1>0, <1>c DEF Attended, workerVars, moneyVars
<1>k. \A x \in Recipients : (\E i \in Jobs : jrec[i] = x) => \E i \in Jobs : jrec'[i] = x
  BY <1>q, <1>0, <1>t DEF Types
<1>2. FirstJob'
  <2>1. \A b \in Requests : rpc'[b] \in {"retry", "requeue"} => rpc[b] = rpc'[b] /\ rtodo'[b] \subseteq rtodo[b]
    BY <1>t DEF QueueTransfer, RequeueTransfer, GoR, EndR, Types
  <2>2. \A i \in Jobs : Sole(i)' => jgroup'[i]
    BY <1>q, <1>s, <1>n, <1>g, <1>t DEF FirstJob, NeverQueued, Types
  <2>3. \A b \in Requests : rtodo[b] \subseteq Recipients
    BY <1>t DEF Types
  <2> QED BY <2>1, <2>2, <2>3, <1>k, <1>u DEF FirstJob, rowVars
<1>3. \A x \in Recipients : NeverQueued(x)' => Settled(x, 0, FALSE)'
  BY <1>k, <1>u DEF Books, NeverQueued, Settled, moneyVars
<1>4. ASSUME NEW i \in Jobs, Sole(i)', jrec'[i] \notin marred'
      PROVE  JobBooks(i)'
  <2>1. CASE i # j
    <3>1. JobBooks(i) /\ jrec'[i] = jrec[i] /\ job'[i] = job[i]
      BY <2>1, <1>4, <1>s, <1>u DEF Books, moneyVars
    <3> QED BY <3>1, <1>q, <1>u DEF JobBooks, Abandoned, Resting, Settled, moneyVars, rowVars
  <2>2. CASE i = j
    <3>1. NeverQueued(r) /\ jrec'[i] = r /\ job'[i] = "waiting"
      BY <2>2, <1>4, <1>n, <1>q, <1>t DEF Types
    <3>2. Settled(r, 0, FALSE) /\ rstatus[r] # "SUCCESSFUL"
      BY <3>1, <1>0 DEF Books, FirstJob, NeverQueued
    <3> QED BY <3>1, <3>2, <1>u DEF JobBooks, Resting, Settled, moneyVars, rowVars
  <2> QED BY <2>1, <2>2
<1>5. ASSUME NEW w \in Workers, wpc'[w] # "idle", Sole(wjob[w])', Recipient(w)' \notin marred'
      PROVE  WorkerBooks(w)'
  <2>1. wpc[w] # "idle" /\ wjob' = wjob /\ wjob[w] \in Jobs \ {j} /\ Recipient(w)' = Recipient(w)
    BY <1>5, <1>u, <1>0, <1>c DEF workerVars
  <2>2. Sole(wjob[w])
    <3>1. PICK i \in Jobs \ {j} : i = wjob[w] /\ i = wjob'[w]
      BY <2>1
    <3>2. Sole(i)'
      BY <1>5, <3>1 DEF Sole
    <3> QED BY <3>1, <3>2, <1>s
  <2>3. WorkerBooks(w)
    BY <2>1, <2>2, <1>5, <1>u DEF Books, moneyVars
  <2> QED BY <2>1, <2>3, <1>u DEF WorkerBooks, Resting, Settled, workerVars, moneyVars, rowVars
<1> QED BY <1>1, <1>2, <1>3, <1>4, <1>5 DEF Books

\* A job whose worker lives on is marred; one nobody works on is just queued
\* again or given up.
LEMMA StallStraight ==
    ASSUME Shaped, Straight, NEW j \in Jobs, Stall(j)
    PROVE  Straight'
<1> USE PayoutTransfersAssumption DEF Straight
<1>t. Types /\ JobShape
  BY DEF Shaped, Shape
<1>u. UNCHANGED <<jrec, jgroup, balance, debits, reversals, sent, rowVars, reqVars, workerVars>>
  BY DEF Stall
<1>0. /\ job[j] = "active" /\ owner' = [owner EXCEPT ![j] = Nobody]
      /\ \E s \in {"waiting", "failed"} : job' = [job EXCEPT ![j] = s]
      /\ marred' = IF owner[j] = Nobody THEN marred ELSE marred \cup {jrec[j]}
  BY DEF Stall
<1>s. \A i \in Jobs : Sole(i)' <=> Sole(i)
  BY <1>u, <1>0, <1>t DEF Sole, Types
<1>v. \A w \in Workers : Recipient(w)' = Recipient(w) /\ wpc'[w] = wpc[w] /\ wjob'[w] = wjob[w]
  BY <1>u DEF Recipient, workerVars
<1>k. \A i \in Jobs \ {j} : job'[i] = job[i] /\ owner'[i] = owner[i]
  BY <1>0, <1>t DEF Types
<1>1. Attended'
  <2>1. ASSUME NEW w \in Workers, wpc'[w] # "idle", Recipient(w)' \notin marred'
        PROVE  job'[wjob'[w]] = "active" /\ owner'[wjob'[w]] = w
    <3>1. wpc[w] # "idle" /\ wjob[w] \in Jobs /\ Recipient(w) \notin marred
      BY <2>1, <1>v, <1>0, WorkerFacts
    <3>2. job[wjob[w]] = "active" /\ owner[wjob[w]] = w
      BY <3>1 DEF Attended
    <3>3. wjob[w] # j
      BY <2>1, <3>2, <1>0, <1>v DEF Recipient
    <3> QED BY <3>1, <3>2, <3>3, <1>k, <1>v
  <2>2. ASSUME NEW i \in Jobs, owner'[i] # Nobody
        PROVE  wjob'[owner'[i]] = i /\ wpc'[owner'[i]] # "idle"
    <3>1. i # j
      BY <2>2, <1>0, <1>t DEF Types
    <3>2. owner'[i] = owner[i] /\ owner[i] \in Workers
      BY <2>2, <3>1, <1>k, <1>t DEF Types
    <3> QED BY <2>2, <3>2, <1>v DEF Attended
  <2> QED BY <2>1, <2>2 DEF Attended
<1>2. FirstJob'
  BY <1>u, <1>s DEF FirstJob, rowVars, reqVars
<1>3. \A r \in Recipients : NeverQueued(r)' => Settled(r, 0, FALSE)'
  BY <1>u DEF Books, NeverQueued, Settled
<1>4. ASSUME NEW i \in Jobs, Sole(i)', jrec'[i] \notin marred'
      PROVE  JobBooks(i)'
  <2>1. Sole(i) /\ jrec'[i] = jrec[i] /\ jrec[i] \notin marred
    BY <1>4, <1>s, <1>u, <1>0
  <2>2. JobBooks(i)
    BY <2>1 DEF Books
  <2>3. CASE i # j
    BY <2>1, <2>2, <2>3, <1>k, <1>u DEF JobBooks, Abandoned, Resting, Settled, rowVars
  <2>4. CASE i = j
    <3>1. owner[j] = Nobody
      BY <2>1, <2>4, <1>4, <1>0
    <3>2. Resting(jrec[j])
      BY <2>2, <2>4, <3>1, <1>0 DEF JobBooks, Abandoned
    <3>3. job'[j] # "completed"
      BY <1>0, <1>t DEF Types
    <3> QED BY <2>1, <2>4, <3>2, <3>3, <1>u DEF JobBooks, Resting, Settled, rowVars
  <2> QED BY <2>3, <2>4
<1>5. ASSUME NEW w \in Workers, wpc'[w] # "idle", Sole(wjob[w])', Recipient(w)' \notin marred'
      PROVE  WorkerBooks(w)'
  <2>1. wpc[w] # "idle" /\ wjob[w] \in Jobs /\ Recipient(w) \notin marred
    BY <1>5, <1>v, <1>0, WorkerFacts
  <2>2. Sole(wjob[w])
    BY <1>5, <2>1, <1>u, <1>0, <1>t DEF Sole, Types, workerVars
  <2>3. WorkerBooks(w)
    BY <2>1, <2>2 DEF Books
  <2> QED BY <2>3, <1>v, <1>u DEF WorkerBooks, Resting, Settled, workerVars, rowVars
<1> QED BY <1>1, <1>2, <1>3, <1>4, <1>5 DEF Books

\* A crash leaves the books of whoever had no money at stake as the queue finds them.
LEMMA CrashStraight ==
    ASSUME Shaped, Straight, Crash
    PROVE  Straight'
<1> USE PayoutTransfersAssumption DEF Straight
<1>t. Types /\ JobShape
  BY DEF Shaped, Shape
<1>u. UNCHANGED <<jrec, jgroup, job, balance, debits, reversals, sent, rowVars>>
  BY DEF Crash
<1>0. /\ \A j \in Jobs : owner'[j] = Nobody
      /\ \A w \in Workers : wpc'[w] = "idle"
      /\ \A a \in Requests : rpc'[a] = "idle"
      /\ marred' = marred \cup {Recipient(w) : w \in AtStake}
  BY DEF Crash
<1>1. Attended'
  BY <1>0 DEF Attended
<1>2. FirstJob'
  BY <1>u, <1>0 DEF FirstJob, Sole, rowVars
<1>3. \A r \in Recipients : NeverQueued(r)' => Settled(r, 0, FALSE)'
  BY <1>u DEF Books, NeverQueued, Settled
<1>4. ASSUME NEW j \in Jobs, Sole(j)', jrec'[j] \notin marred'
      PROVE  JobBooks(j)'
  <2>1. Sole(j) /\ jrec'[j] = jrec[j] /\ jrec[j] \notin marred /\ JobBooks(j)
    BY <1>4, <1>u, <1>0 DEF Sole, Books
  <2>2. CASE job[j] # "active" \/ owner[j] = Nobody
    BY <2>1, <2>2, <1>u DEF JobBooks, Abandoned, Resting, Settled, rowVars
  <2>3. CASE job[j] = "active" /\ owner[j] # Nobody
    <3>1. PICK w \in Workers : w = owner[j]
      BY <2>3, <1>t DEF Types
    <3>2. wjob[w] = j /\ wpc[w] # "idle" /\ Recipient(w) = jrec[j]
      BY <2>3, <3>1 DEF Attended, Recipient
    <3>3. w \notin AtStake
      BY <1>4, <2>1, <3>2, <1>0
    <3>4. WorkerBooks(w)
      BY <2>1, <3>2 DEF Books
    <3>5. wpc[w] \in WPCs
      BY <1>t DEF Types
    <3>6. Resting(jrec[j])
      BY <3>2, <3>3, <3>4, <3>5 DEF WPCs, WorkerBooks, AtStake, Resting
    <3> QED BY <2>1, <2>3, <3>6, <1>u DEF JobBooks, Resting, Settled, rowVars
  <2> QED BY <2>2, <2>3
<1> QED BY <1>0, <1>1, <1>2, <1>3, <1>4 DEF Books

\* The books of a single job are straight at every step, unless it goes wrong.
LEMMA StraightStep ==
    ASSUME Shaped, Straight, [Next]_vars
    PROVE  Straight'
<1>1. CASE UNCHANGED vars
  BY <1>1 DEF vars, moneyVars, rowVars, reqVars, jobVars, workerVars, Straight, Attended, FirstJob, Books, Sole,
     NeverQueued, JobBooks, Abandoned, WorkerBooks, Resting, Settled, Recipient
<1>2. ASSUME NEW a \in Requests, Create(a) \/ Decide(a) \/ Process(a) \/ Retry(a) \/ RequestThrows(a)
      PROVE  Straight'
  BY <1>2, RequestStraight, QueueStraight
<1>3. ASSUME NEW w \in Workers, Work(w) \/ StatementThrows(w) \/ ExecutionThrows(w)
      PROVE  Straight'
  BY <1>3, TakeStraight, ProceedsStraight, FinishesStraight DEF Work, Proceeds, Finishes
<1>4. ASSUME NEW j \in Jobs, Stall(j)
      PROVE  Straight'
  BY <1>4, StallStraight
<1> QED BY <1>1, <1>2, <1>3, <1>4, CrashStraight DEF Next

\* Under every choice of faults: a recipient for whom one job was queued is
\* paid for exactly if the transfer was made, however often it was refused,
\* threw or died, unless one of the faults that mar it befell that job.
THEOREM OnlyJobBalances == Spec => []SingleJobBalances
<1>1. Init => Straight
  BY PayoutTransfersAssumption DEF Init, Straight, Attended, FirstJob, Books, Sole, NeverQueued, JobBooks, Abandoned, Settled
<1>2. Shaped /\ Straight /\ [Next]_vars => Straight'
  BY StraightStep
<1>3. Shaped /\ Straight => SingleJobBalances
  <2> SUFFICES ASSUME Shaped, Straight, NEW r \in Recipients \ marred, Quiet(r), Cardinality(JobsOf(r)) <= 1
               PROVE  Balanced(r)
    BY DEF SingleJobBalances
  <2>t. debits[r] \in Nat /\ reversals[r] \in Nat
    BY DEF Shaped, Types
  <2>1. IsFiniteSet(JobsOf(r)) /\ Cardinality(JobsOf(r)) \in Nat
    BY FS_Subset, FS_CardinalityType, PayoutTransfersAssumption DEF JobsOf
  <2>2. CASE Cardinality(JobsOf(r)) = 0
    <3>1. NeverQueued(r)
      BY <2>1, <2>2, FS_EmptySet DEF JobsOf, NeverQueued
    <3> QED BY <3>1, <2>t DEF Straight, Books, Settled, Balanced
  <2>3. CASE Cardinality(JobsOf(r)) = 1
    <3>1. PICK j : JobsOf(r) = {j}
      BY <2>1, <2>3, FS_Singleton
    <3>2. j \in Jobs /\ jrec[j] = r /\ job[j] \in {"completed", "failed"}
      BY <3>1 DEF JobsOf, Quiet
    <3>3. JobBooks(j)
      BY <3>1, <3>2 DEF Sole, JobsOf, Straight, Books
    <3> QED BY <3>2, <3>3, <2>t DEF JobBooks, Abandoned, Resting, Settled, Balanced
  <2> QED BY <2>1, <2>2, <2>3
<1> QED BY <1>1, <1>2, <1>3, AlwaysShaped, PTL DEF Spec
=============================================================================
