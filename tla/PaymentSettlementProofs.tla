----------------------- MODULE PaymentSettlementProofs -----------------------
(***************************************************************************)
(* Proofs about PaymentSettlement for every set of contributions, payments,*)
(* requests, events and groups, every finite number of worker slots, any   *)
(* number of attempts and stalls, and whether or not the locked relation   *)
(* resolves.                                                               *)
(***************************************************************************)
EXTENDS PaymentSettlement, TLAPS, FiniteSetTheorems

\* The steps of a request that has opened a payment it has not answered yet.
Opening == {"provider", "account", "record", "answer"}

\* A request works on a contribution, and from its INSERT on a payment nobody
\* can have been charged for.
RequestShape ==
    \A i \in Initiators :
        /\ ipc[i] # "idle" => icon[i] \in Contributions
        /\ ipc[i] \in Opening =>
              ipay[i] \in Payments /\ status[ipay[i]] # "none" /\ charge[ipay[i]] = "none"

\* No two requests open the same row.
OpenedOnce ==
    \A i, j \in Initiators :
        ipc[i] \in Opening /\ ipc[j] \in Opening /\ ipay[i] = ipay[j] => i = j

PaymentShape ==
    \A p \in Payments :
        /\ status[p] # "none" <=> payFor[p] \in Contributions
        /\ charge[p] # "none" => status[p] # "none"
        /\ status[p] = "SUCCESSFUL" => charge[p] # "none"

\* A stored event names a payment that has an order, and an order, and its job
\* runs within its limits.
JobShape ==
    \A e \in Events :
        /\ job[e] # "none" => /\ event[e] \in Payments /\ charge[event[e]] # "none"
                             /\ about[e] \in Payments
        /\ job[e] \in {"none", "waiting", "active"} =>
              attempts[e] < JobAttempts /\ stalls[e] <= MaxStalledCount
        /\ owner[e] # Nobody => job[e] = "active"

\* Past verification a worker carries a reference of the order it asked about.
WorkerShape ==
    \A w \in Workers : wpc[w] # "idle" =>
        /\ wjob[w] \in Events /\ job[wjob[w]] # "none"
        /\ wpc[w] \in {"credit", "check", "settle"} =>
              wref[w] \in References /\ wref[w].order = about[wjob[w]]

Shape == RequestShape /\ OpenedOnce /\ PaymentShape /\ JobShape /\ WorkerShape

Shaped == TypeOK /\ Shape

\* What a busy worker is working on.
LEMMA WorkerFacts ==
    ASSUME Shaped, NEW w \in Workers, wpc[w] # "idle"
    PROVE  /\ wjob[w] \in Events /\ job[wjob[w]] # "none"
           /\ PaymentOf(w) \in Payments /\ OrderOf(w) \in Payments
           /\ charge[PaymentOf(w)] # "none" /\ status[PaymentOf(w)] # "none"
           /\ payFor[PaymentOf(w)] \in Contributions
           /\ GroupWallet(w) \in Groups
           /\ wpc[w] \in {"credit", "check", "settle"} =>
                 wref[w] \in References /\ wref[w].order = OrderOf(w)
<1>1. wjob[w] \in Events /\ job[wjob[w]] # "none"
  BY DEF Shaped, Shape, WorkerShape
<1>2. PaymentOf(w) \in Payments /\ charge[PaymentOf(w)] # "none" /\ OrderOf(w) \in Payments
  BY <1>1 DEF Shaped, Shape, JobShape, PaymentOf, OrderOf
<1>3. status[PaymentOf(w)] # "none" /\ payFor[PaymentOf(w)] \in Contributions
  BY <1>2 DEF Shaped, Shape, PaymentShape
<1>4. wpc[w] \in {"credit", "check", "settle"} => wref[w] \in References /\ wref[w].order = OrderOf(w)
  BY DEF Shaped, Shape, WorkerShape, OrderOf
<1> QED BY <1>1, <1>2, <1>3, <1>4, PaymentSettlementAssumption DEF GroupWallet

-----------------------------------------------------------------------------
(* The requests                                                            *)

\* A request moves without touching a payment.
LEMMA RequestMoves ==
    ASSUME Shaped, NEW i \in Initiators,
           Request(i) \/ LockContribution(i) \/ RefuseContribution(i) \/ ProviderAccepts(i) \/ RequestThrows(i)
    PROVE  Shaped'
<1> USE PaymentSettlementAssumption DEF Shaped, Shape, paymentVars, orderVars, moneyVars, lockVars, initVars, eventVars, jobVars, workerVars,
        Request, LockContribution, RefuseContribution, ProviderAccepts, RequestThrows, GoI, UnlockContribution, Opening
<1>u. UNCHANGED <<status, payFor, method, reference, charge, txns, credits, strays, backing, paid, walletLock, ipay, event, about, processed,
                  job, owner, attempts, stalls, wpc, wjob, wref, overtaken>>
  OBVIOUS
<1>1. /\ ipc' \in [Initiators -> ISteps] /\ \A j \in Initiators \ {i} : ipc'[j] = ipc[j]
      /\ ipc'[i] \in {"lock", "locked", "error", "refused", "record"}
      /\ ipc'[i] = "record" => ipc[i] \in Opening
  BY DEF TypeOK, ISteps
<1>2. icon' \in [Initiators -> Contributions \cup {NoContribution}] /\ icon'[i] \in Contributions
      /\ \A j \in Initiators \ {i} : icon'[j] = icon[j]
  BY DEF TypeOK, RequestShape
<1>3. rowLock' \in [Contributions -> Initiators \cup {Nobody}]
  BY DEF TypeOK
<1>4. TypeOK'
  BY <1>u, <1>1, <1>2, <1>3 DEF TypeOK
<1>5. RequestShape'
  BY <1>u, <1>1, <1>2 DEF RequestShape
<1>6. OpenedOnce'
  BY <1>u, <1>1 DEF OpenedOnce
<1>7. PaymentShape' /\ JobShape' /\ WorkerShape'
  BY <1>u DEF PaymentShape, JobShape, WorkerShape
<1> QED BY <1>4, <1>5, <1>6, <1>7

LEMMA CreateShaped ==
    ASSUME Shaped, NEW i \in Initiators, CreatePayment(i)
    PROVE  Shaped'
<1> USE PaymentSettlementAssumption DEF Shaped, Shape
<1>u. UNCHANGED <<reference, charge, txns, credits, strays, backing, paid, walletLock, icon, event, about, processed,
                  job, owner, attempts, stalls, wpc, wjob, wref, overtaken>>
  BY DEF CreatePayment, moneyVars, eventVars, jobVars, workerVars
<1>0. ipc[i] = "locked" /\ icon[i] \in Contributions
  BY DEF CreatePayment, RequestShape
<1>p. PICK p \in Payments, m \in Methods :
          /\ status[p] = "none"
          /\ status' = [status EXCEPT ![p] = "INITIALIZED"]
          /\ payFor' = [payFor EXCEPT ![p] = icon[i]]
          /\ method' = [method EXCEPT ![p] = m]
          /\ ipay' = [ipay EXCEPT ![i] = p]
          /\ ipc' = [ipc EXCEPT ![i] = IF m = "card" THEN "provider" ELSE "account"]
  BY DEF CreatePayment, GoI
<1>r. rowLock' \in [Contributions -> Initiators \cup {Nobody}]
  BY DEF CreatePayment, UnlockContribution, TypeOK
<1>1. TypeOK'
  BY <1>u, <1>0, <1>p, <1>r DEF TypeOK, Statuses, ISteps
<1>2. charge[p] = "none" /\ \A j \in Initiators : ipc[j] \in Opening => ipay[j] # p
  BY <1>p DEF PaymentShape, RequestShape, TypeOK
<1>3. RequestShape'
  BY <1>u, <1>0, <1>p, <1>2 DEF RequestShape, TypeOK, Opening
<1>4. OpenedOnce'
  BY <1>u, <1>p, <1>2 DEF OpenedOnce, TypeOK, Opening
<1>5. PaymentShape'
  BY <1>u, <1>0, <1>p, <1>2 DEF PaymentShape, TypeOK
<1>6. JobShape' /\ WorkerShape'
  BY <1>u DEF JobShape, WorkerShape
<1> QED BY <1>1, <1>3, <1>4, <1>5, <1>6

\* The writes of a request after its INSERT go to the payment it opened.
LEMMA RequestWrites ==
    ASSUME Shaped, NEW i \in Initiators, ProviderUnavailable(i) \/ RecordPending(i) \/ Answer(i)
    PROVE  Shaped'
<1> USE DEF Shaped, Shape
<1>u. UNCHANGED <<payFor, method, txns, credits, strays, backing, paid, icon, ipay, rowLock, walletLock, event, about, processed,
                  job, owner, attempts, stalls, wpc, wjob, wref, overtaken>>
  BY DEF ProviderUnavailable, RecordPending, Answer, orderVars, moneyVars, lockVars, eventVars, jobVars, workerVars
<1>0. ipc[i] \in Opening /\ ipay[i] \in Payments /\ status[ipay[i]] # "none" /\ charge[ipay[i]] = "none"
  BY DEF ProviderUnavailable, RecordPending, Answer, RequestShape, Opening
<1>1. /\ ipc' \in [Initiators -> ISteps] /\ \A j \in Initiators \ {i} : ipc'[j] = ipc[j]
      /\ ipc'[i] \in {"refused", "answer", "done"}
  BY DEF ProviderUnavailable, RecordPending, Answer, GoI, TypeOK, ISteps
<1>2. /\ status' \in [Payments -> Statuses]
      /\ \A p \in Payments : status'[p] # "none" <=> status[p] # "none"
      /\ \A p \in Payments : status'[p] = "SUCCESSFUL" => status[p] = "SUCCESSFUL"
  BY <1>0 DEF ProviderUnavailable, RecordPending, Answer, TypeOK, Statuses
<1>3. /\ charge' \in [Payments -> {"none", "open", "paid"}]
      /\ \A p \in Payments : p # ipay[i] => charge'[p] = charge[p]
      /\ \A p \in Payments : charge[p] # "none" => charge'[p] = charge[p]
      /\ ipc'[i] = "answer" => charge' = charge
  BY <1>0 DEF ProviderUnavailable, RecordPending, Answer, GoI, TypeOK, orderVars
<1>r. reference' \in [Payments -> References \cup {NoReference}]
  <2>1. OrderRef(ipay[i]) \in References
    BY <1>0 DEF OrderRef, References
  <2> QED BY <2>1, <1>0 DEF ProviderUnavailable, RecordPending, Answer, TypeOK, orderVars
<1>4. TypeOK'
  BY <1>u, <1>1, <1>2, <1>3, <1>r DEF TypeOK
<1>5. RequestShape'
  <2>1. \A j \in Initiators \ {i} : ipc[j] \in Opening => ipay[j] # ipay[i]
    BY <1>0 DEF OpenedOnce
  <2> QED BY <2>1, <1>u, <1>0, <1>1, <1>2, <1>3 DEF RequestShape, Opening
<1>6. OpenedOnce'
  BY <1>u, <1>0, <1>1 DEF OpenedOnce, Opening
<1>7. PaymentShape'
  BY <1>u, <1>0, <1>2, <1>3 DEF PaymentShape
<1>8. JobShape' /\ WorkerShape'
  BY <1>u, <1>3 DEF JobShape, WorkerShape
<1> QED BY <1>4, <1>5, <1>6, <1>7, <1>8
-----------------------------------------------------------------------------
(* The provider, the stored events and the stalled check                   *)

LEMMA PayShaped ==
    ASSUME Shaped, NEW p \in Payments, Pay(p)
    PROVE  Shaped'
<1> USE DEF Shaped, Shape
<1>u. UNCHANGED <<status, payFor, method, reference, txns, credits, strays, backing, paid, rowLock, walletLock,
                  ipc, icon, ipay, event, about, processed, job, owner, attempts, stalls, wpc, wjob, wref, overtaken>>
  BY DEF Pay, moneyVars, lockVars, initVars, eventVars, jobVars, workerVars
<1>1. /\ charge' \in [Payments -> {"none", "open", "paid"}]
      /\ \A q \in Payments : charge'[q] = "none" <=> charge[q] = "none"
  BY DEF Pay, TypeOK
<1>2. TypeOK'
  BY <1>u, <1>1 DEF TypeOK
<1>3. RequestShape' /\ OpenedOnce'
  BY <1>u, <1>1 DEF RequestShape, OpenedOnce
<1>4. PaymentShape' /\ JobShape' /\ WorkerShape'
  BY <1>u, <1>1 DEF PaymentShape, JobShape, WorkerShape
<1> QED BY <1>2, <1>3, <1>4

LEMMA DeliverShaped ==
    ASSUME Shaped, NEW e \in Events, Deliver(e)
    PROVE  Shaped'
<1> USE PaymentSettlementAssumption DEF Shaped, Shape
<1>u. UNCHANGED <<status, payFor, method, reference, charge, txns, credits, strays, backing, paid, rowLock, walletLock, ipc, icon, ipay,
                  processed, owner, attempts, stalls, wpc, wjob, wref, overtaken>>
  BY DEF Deliver, paymentVars, orderVars, moneyVars, lockVars, initVars, workerVars
<1>p. PICK p \in Payments, v \in Payments :
          /\ charge[v] \in EventsFor /\ (p = v \/ charge[p] # "none")
          /\ event' = [event EXCEPT ![e] = p] /\ about' = [about EXCEPT ![e] = v]
  BY DEF Deliver
<1>0. job[e] = "none" /\ job' = [job EXCEPT ![e] = "waiting"] /\ charge[p] # "none"
  BY <1>p DEF Deliver
<1>1. TypeOK'
  BY <1>u, <1>p, <1>0 DEF TypeOK
<1>2. RequestShape' /\ OpenedOnce' /\ PaymentShape'
  BY <1>u DEF RequestShape, OpenedOnce, PaymentShape
<1>3. WorkerShape'
  <2>1. \A b \in Events \ {e} : about'[b] = about[b] /\ job'[b] = job[b]
    BY <1>p, <1>0 DEF TypeOK
  <2>2. \A w \in Workers : wpc[w] # "idle" => wjob[w] \in Events \ {e}
    BY <1>0 DEF WorkerShape
  <2> QED BY <2>1, <2>2, <1>u DEF WorkerShape
<1>4. JobShape'
  BY <1>u, <1>p, <1>0 DEF JobShape, TypeOK
<1> QED BY <1>1, <1>2, <1>3, <1>4

LEMMA StallShaped ==
    ASSUME Shaped, NEW e \in Events, Stall(e)
    PROVE  Shaped'
<1> USE PaymentSettlementAssumption DEF Shaped, Shape
<1>u. UNCHANGED <<status, payFor, method, reference, charge, txns, credits, strays, backing, paid, rowLock, walletLock, ipc, icon, ipay,
                  event, about, processed, attempts, wpc, wjob, wref, overtaken>>
  BY DEF Stall, paymentVars, orderVars, moneyVars, lockVars, initVars, eventVars, workerVars
<1>0. job[e] = "active" /\ stalls[e] \in Nat /\ stalls[e] <= MaxStalledCount
  BY DEF Stall, JobShape, TypeOK
<1>1. /\ stalls' = [stalls EXCEPT ![e] = stalls[e] + 1]
      /\ job' = [job EXCEPT ![e] = IF stalls[e] < MaxStalledCount THEN "waiting" ELSE "failed"]
      /\ owner' = [owner EXCEPT ![e] = Nobody]
  BY DEF Stall
<1>2. stalls[e] + 1 \in 0..(MaxStalledCount + 1)
  BY <1>0
<1>3. TypeOK'
  BY <1>u, <1>1, <1>2 DEF TypeOK
<1>4. RequestShape' /\ OpenedOnce' /\ PaymentShape'
  BY <1>u DEF RequestShape, OpenedOnce, PaymentShape
<1>5. JobShape'
  BY <1>u, <1>0, <1>1 DEF JobShape, TypeOK
<1>6. WorkerShape'
  BY <1>u, <1>1 DEF WorkerShape, TypeOK
<1> QED BY <1>3, <1>4, <1>5, <1>6

LEMMA CrashShaped ==
    ASSUME Shaped, Crash
    PROVE  Shaped'
<1> USE PaymentSettlementAssumption DEF Shaped, Shape, Crash, paymentVars, orderVars, moneyVars, eventVars
<1>1. TypeOK'
  BY DEF TypeOK, ISteps, WSteps
<1>2. \A i \in Initiators : /\ ipc'[i] \notin Opening
                            /\ ipc'[i] # "idle" => ipc[i] # "idle"
  BY DEF TypeOK, Opening
<1>3. RequestShape' /\ OpenedOnce'
  BY <1>2 DEF RequestShape, OpenedOnce
<1>4. PaymentShape' /\ JobShape' /\ WorkerShape'
  BY DEF PaymentShape, JobShape, WorkerShape
<1> QED BY <1>1, <1>3, <1>4
-----------------------------------------------------------------------------
(* The workers                                                             *)

LEMMA TakeShaped ==
    ASSUME Shaped, NEW w \in Workers, NEW e \in Events, Take(w, e)
    PROVE  Shaped'
<1> USE PaymentSettlementAssumption DEF Shaped, Shape, Take, GoW
<1>u. UNCHANGED <<status, payFor, method, reference, charge, txns, credits, strays, backing, paid, rowLock, walletLock, ipc, icon, ipay,
                  event, about, processed, attempts, stalls>>
  BY DEF paymentVars, orderVars, moneyVars, lockVars, initVars, eventVars
<1>1. TypeOK'
  BY <1>u DEF TypeOK, WSteps
<1>2. RequestShape' /\ OpenedOnce' /\ PaymentShape'
  BY <1>u DEF RequestShape, OpenedOnce, PaymentShape
<1>3. JobShape'
  BY <1>u DEF JobShape, TypeOK
<1>4. WorkerShape'
  BY <1>u DEF WorkerShape, TypeOK
<1> QED BY <1>1, <1>2, <1>3, <1>4

\* A worker moves on without touching the payment or its job.
LEMMA WorkerMoves ==
    ASSUME Shaped, NEW w \in Workers,
           \/ NothingToSettle(w) \/ ReadPayment(w) \/ VerifyConfirms(w) \/ VerifyDenies(w)
           \/ VerifyThrows(w) \/ CreditWallet(w) \/ CheckPayment(w)
           \/ DuplicateReference(w) \/ SettlementThrows(w)
    PROVE  Shaped'
<1> USE PaymentSettlementAssumption DEF Shaped, Shape
<1>u. UNCHANGED <<status, payFor, method, reference, charge, txns, credits, strays, backing, paid, rowLock,
                  ipc, icon, ipay, wjob, overtaken, event, about, processed, job, owner, attempts, stalls>>
  BY DEF NothingToSettle, ReadPayment, VerifyConfirms, VerifyDenies, VerifyThrows, CreditWallet, CheckPayment,
         DuplicateReference, SettlementThrows, RollbackSettlement, paymentVars, orderVars, moneyVars, lockVars,
         initVars, eventVars, jobVars
<1>1. wpc[w] # "idle" /\ \E s \in WSteps : s # "idle" /\ wpc' = [wpc EXCEPT ![w] = s]
  BY DEF NothingToSettle, ReadPayment, VerifyConfirms, VerifyDenies, VerifyThrows, CreditWallet, CheckPayment,
         DuplicateReference, SettlementThrows, RollbackSettlement, InTransaction, GoW, WSteps
<1>2. walletLock' \in [Groups -> Workers \cup {Nobody}]
  BY DEF NothingToSettle, ReadPayment, VerifyConfirms, VerifyDenies, VerifyThrows, CreditWallet, CheckPayment,
         DuplicateReference, SettlementThrows, RollbackSettlement, Unlock, TypeOK, lockVars
<1>r. wref' \in [Workers -> References \cup {NoReference}]
  <2>1. CASE VerifyConfirms(w)
    <3>1. PICK k \in Namings : wref' = [wref EXCEPT ![w] = [naming |-> k, order |-> OrderOf(w)]]
      BY <2>1 DEF VerifyConfirms
    <3>2. OrderOf(w) \in Payments
      BY <1>1, WorkerFacts
    <3>3. [naming |-> k, order |-> OrderOf(w)] \in References
      BY <3>2 DEF References
    <3> QED BY <3>1, <3>3 DEF TypeOK
  <2>2. CASE ~ VerifyConfirms(w)
    BY <2>2 DEF NothingToSettle, ReadPayment, VerifyDenies, VerifyThrows, CreditWallet, CheckPayment,
         DuplicateReference, SettlementThrows, RollbackSettlement, TypeOK
  <2> QED BY <2>1, <2>2
<1>w. /\ \A v \in Workers \ {w} : wref'[v] = wref[v]
      /\ wpc'[w] \in {"credit", "check", "settle"} => wref'[w] \in References /\ wref'[w].order = OrderOf(w)
  <2>1. CASE VerifyConfirms(w)
    <3>1. PICK k \in Namings : wref' = [wref EXCEPT ![w] = [naming |-> k, order |-> OrderOf(w)]]
      BY <2>1 DEF VerifyConfirms
    <3>2. PICK r : r = [naming |-> k, order |-> OrderOf(w)]
      OBVIOUS
    <3>3. r \in References /\ r.order = OrderOf(w) /\ wref' = [wref EXCEPT ![w] = r]
      BY <1>1, <3>1, <3>2, WorkerFacts DEF References
    <3> QED BY <3>3 DEF TypeOK
  <2>2. CASE ~ VerifyConfirms(w)
    <3>1. wref' = wref
      BY <2>2 DEF NothingToSettle, ReadPayment, VerifyDenies, VerifyThrows, CreditWallet, CheckPayment,
         DuplicateReference, SettlementThrows, RollbackSettlement
    <3>2. wpc'[w] \in {"credit", "check", "settle"} => wpc[w] \in {"credit", "check", "settle"}
      BY <2>2 DEF NothingToSettle, ReadPayment, VerifyDenies, VerifyThrows, CreditWallet, CheckPayment,
         DuplicateReference, SettlementThrows, RollbackSettlement, GoW, TypeOK
    <3> QED BY <3>1, <3>2, WorkerFacts
  <2> QED BY <2>1, <2>2
<1>3. TypeOK'
  <2>1. wpc' \in [Workers -> WSteps]
    BY <1>1 DEF TypeOK
  <2> QED BY <2>1, <1>u, <1>2, <1>r DEF TypeOK
<1>4. RequestShape' /\ OpenedOnce' /\ PaymentShape' /\ JobShape'
  BY <1>u DEF RequestShape, OpenedOnce, PaymentShape, JobShape
<1>5. WorkerShape'
  BY <1>u, <1>1, <1>w DEF WorkerShape, OrderOf, TypeOK
<1> QED BY <1>3, <1>4, <1>5

\* A worker writes the payment it is working on.
LEMMA WorkerWrites ==
    ASSUME Shaped, NEW w \in Workers,
           MarkFailed(w) \/ DuplicateReturn(w) \/ SupersededReturn(w) \/ Settle(w)
    PROVE  Shaped'
<1> USE PaymentSettlementAssumption DEF Shaped, Shape
<1>u. UNCHANGED <<payFor, method, charge, rowLock, ipc, icon, ipay, wjob, wref,
                  event, about, processed, job, owner, attempts, stalls>>
  BY DEF MarkFailed, DuplicateReturn, SupersededReturn, Settle, orderVars, lockVars, initVars, eventVars, jobVars
<1>0. wpc[w] # "idle" /\ wpc' = [wpc EXCEPT ![w] = "mark"]
  BY DEF MarkFailed, DuplicateReturn, SupersededReturn, Settle, GoW
<1>f. /\ PaymentOf(w) \in Payments /\ status[PaymentOf(w)] # "none" /\ charge[PaymentOf(w)] # "none"
      /\ OrderOf(w) \in Payments /\ payFor[PaymentOf(w)] \in Contributions
  BY <1>0, WorkerFacts
<1>1. /\ status' \in [Payments -> Statuses]
      /\ \A p \in Payments : status'[p] # "none" <=> status[p] # "none"
      /\ \A p \in Payments : status'[p] = "SUCCESSFUL" => status[p] = "SUCCESSFUL" \/ p = PaymentOf(w)
  BY <1>f DEF MarkFailed, DuplicateReturn, SupersededReturn, Settle, TypeOK, Statuses
<1>2. /\ txns' \subseteq [payment : Payments, reference : References]
      /\ reference' \in [Payments -> References \cup {NoReference}]
      /\ overtaken' \subseteq Workers
  <2>1. CASE Settle(w)
    <3>1. wref[w] \in References
      BY <2>1, <1>f DEF Settle, WorkerShape
    <3>2. [payment |-> PaymentOf(w), reference |-> wref[w]] \in [payment : Payments, reference : References]
      BY <3>1, <1>f
    <3> QED BY <2>1, <3>1, <3>2, <1>f DEF Settle, Judging, TypeOK
  <2>2. CASE ~ Settle(w)
    BY <2>2 DEF MarkFailed, DuplicateReturn, SupersededReturn, orderVars, moneyVars, TypeOK
  <2> QED BY <2>1, <2>2
<1>b. backing' \subseteq Payments \X Payments
  <2>1. <<PaymentOf(w), OrderOf(w)>> \in Payments \X Payments
    BY <1>f
  <2> QED BY <2>1 DEF MarkFailed, DuplicateReturn, SupersededReturn, Settle, CommitCredit, Back, moneyVars, TypeOK
<1>m. /\ paid' \subseteq Contributions
      /\ credits' \in [Payments -> Nat] /\ strays' \in [Payments -> Nat]
      /\ walletLock' \in [Groups -> Workers \cup {Nobody}]
  BY <1>f DEF MarkFailed, DuplicateReturn, SupersededReturn, Settle, CommitCredit, Unlock, TypeOK, lockVars, moneyVars
<1>3. TypeOK'
  BY <1>u, <1>0, <1>1, <1>2, <1>b, <1>m DEF TypeOK, WSteps
<1>4. RequestShape' /\ OpenedOnce' /\ PaymentShape'
  BY <1>u, <1>f, <1>1 DEF RequestShape, OpenedOnce, PaymentShape
<1>5. JobShape' /\ WorkerShape'
  BY <1>u, <1>0 DEF JobShape, WorkerShape, TypeOK
<1> QED BY <1>3, <1>4, <1>5

\* A worker is through with its job, or its job throws.
LEMMA WorkerEnds ==
    ASSUME Shaped, NEW w \in Workers, SkipProcessed(w) \/ MarkProcessed(w) \/ JobThrows(w)
    PROVE  Shaped'
<1> USE PaymentSettlementAssumption DEF Shaped, Shape
<1>u. UNCHANGED <<status, payFor, method, reference, charge, txns, credits, strays, backing, paid, rowLock, walletLock, ipc, icon, ipay,
                  event, about, stalls>>
  BY DEF SkipProcessed, MarkProcessed, JobThrows, paymentVars, orderVars, moneyVars, lockVars, initVars, eventVars
<1>0. /\ wpc[w] # "idle" /\ wpc' = [wpc EXCEPT ![w] = "idle"] /\ wjob' = [wjob EXCEPT ![w] = NoEvent]
      /\ wref' = [wref EXCEPT ![w] = NoReference] /\ overtaken' = overtaken \ {w}
  BY DEF SkipProcessed, MarkProcessed, JobThrows, Rest, GoW
<1>e. PICK e \in Events : e = wjob[w] /\ job[e] # "none"
  BY <1>0, WorkerFacts
<1>1. processed' \subseteq Events
  BY <1>e DEF SkipProcessed, MarkProcessed, JobThrows, TypeOK, eventVars
<1>2. \/ UNCHANGED <<job, owner, attempts>>
      \/ /\ owner[e] = w
         /\ owner' = [owner EXCEPT ![e] = Nobody]
         /\ \/ attempts' = attempts /\ job' = [job EXCEPT ![e] = "completed"]
            \/ /\ attempts' = [attempts EXCEPT ![e] = attempts[e] + 1]
               /\ job' = [job EXCEPT ![e] = IF attempts[e] + 1 < JobAttempts THEN "waiting" ELSE "failed"]
  BY <1>e DEF SkipProcessed, MarkProcessed, JobThrows, Finish
<1>3. owner[e] = w => /\ attempts[e] \in Nat /\ attempts[e] < JobAttempts
                      /\ attempts[e] + 1 \in 0..JobAttempts /\ stalls[e] <= MaxStalledCount
  <2> SUFFICES ASSUME owner[e] = w PROVE /\ attempts[e] \in Nat /\ attempts[e] < JobAttempts
                                         /\ attempts[e] + 1 \in 0..JobAttempts /\ stalls[e] <= MaxStalledCount
    OBVIOUS
  <2>1. owner[e] # Nobody
    BY PaymentSettlementAssumption
  <2> QED BY <2>1 DEF JobShape, TypeOK
<1>4. /\ job' \in [Events -> {"none", "waiting", "active", "completed", "failed"}]
      /\ owner' \in [Events -> Workers \cup {Nobody}]
      /\ attempts' \in [Events -> 0..JobAttempts]
  BY <1>2, <1>3 DEF TypeOK
<1>5. TypeOK'
  BY <1>u, <1>0, <1>1, <1>4 DEF TypeOK, WSteps
<1>6. RequestShape' /\ OpenedOnce' /\ PaymentShape'
  BY <1>u DEF RequestShape, OpenedOnce, PaymentShape
<1>7. JobShape'
  <2>1. CASE UNCHANGED <<job, owner, attempts>>
    BY <2>1, <1>u DEF JobShape
  <2>2. CASE ~ UNCHANGED <<job, owner, attempts>>
    <3>1. /\ \A b \in Events \ {e} : job'[b] = job[b] /\ owner'[b] = owner[b] /\ attempts'[b] = attempts[b]
          /\ owner[e] = w /\ owner'[e] = Nobody
          /\ job'[e] = "waiting" => attempts'[e] < JobAttempts
          /\ job'[e] \in {"waiting", "completed", "failed"}
      BY <2>2, <1>2, <1>3 DEF TypeOK
    <3> QED BY <3>1, <1>e, <1>3, <1>u DEF JobShape
  <2> QED BY <2>1, <2>2
<1>8. WorkerShape'
  <2>1. \A b \in Events : job[b] # "none" => job'[b] # "none"
    BY <1>2 DEF TypeOK
  <2> QED BY <2>1, <1>u, <1>0 DEF WorkerShape, TypeOK
<1> QED BY <1>5, <1>6, <1>7, <1>8

LEMMA ShapedStep == Shaped /\ [Next]_vars => Shaped'
<1> SUFFICES ASSUME Shaped, [Next]_vars PROVE Shaped'
  OBVIOUS
<1>1. CASE UNCHANGED vars
  BY <1>1 DEF vars, paymentVars, orderVars, moneyVars, lockVars, initVars, eventVars, jobVars, workerVars, Shaped, TypeOK, Shape,
              RequestShape, OpenedOnce, PaymentShape, JobShape, WorkerShape
<1>2. CASE Next
  BY <1>2, RequestMoves, CreateShaped, RequestWrites, PayShaped, DeliverShaped, StallShaped, CrashShaped,
     TakeShaped, WorkerMoves, WorkerWrites, WorkerEnds
  DEF Next, Initiate, Work
<1> QED BY <1>1, <1>2

LEMMA InitShaped == Init => Shaped
BY PaymentSettlementAssumption
DEF Init, Shaped, TypeOK, Shape, RequestShape, OpenedOnce, PaymentShape, JobShape, WorkerShape, Opening,
    Statuses, ISteps, WSteps

\* The inductive invariant the others rest on.
LEMMA AlwaysShaped == Spec => []Shaped
BY InitShaped, ShapedStep, PTL DEF Spec

\* The rows, locks, requests, jobs and workers keep their types; attempts and
\* stalls stay within the limits of the queue.
THEOREM Typing == Spec => []TypeOK
<1>1. Shaped => TypeOK
  BY DEF Shaped
<1> QED BY <1>1, AlwaysShaped, PTL
-----------------------------------------------------------------------------
(* What a settlement leaves behind                                         *)

\* The rows a payment and its settlement consist of.
settlement == <<status, payFor, reference, txns, credits, strays, backing, paid>>

\* Only these actions write them.
Writes ==
    \/ \E i \in Initiators : CreatePayment(i) \/ ProviderUnavailable(i) \/ RecordPending(i)
    \/ \E w \in Workers : MarkFailed(w) \/ DuplicateReturn(w) \/ SupersededReturn(w) \/ Settle(w)

LEMMA OnlyTheseWrite ==
    ASSUME [Next]_vars
    PROVE  Writes \/ UNCHANGED settlement
<1> USE DEF Writes, settlement, paymentVars, orderVars, moneyVars
<1>1. ASSUME NEW i \in Initiators, Request(i) \/ Initiate(i) \/ RequestThrows(i)
      PROVE  Writes \/ UNCHANGED settlement
  BY <1>1 DEF Request, Initiate, RequestThrows, LockContribution, RefuseContribution, ProviderAccepts, Answer
<1>2. ASSUME NEW w \in Workers, Work(w) \/ SettlementThrows(w)
      PROVE  Writes \/ UNCHANGED settlement
  BY <1>2 DEF Work, Take, SkipProcessed, NothingToSettle, ReadPayment, JobThrows, VerifyConfirms, VerifyDenies,
              VerifyThrows, CreditWallet, CheckPayment, DuplicateReference, MarkProcessed, SettlementThrows,
              RollbackSettlement
<1>3. ASSUME \/ \E p \in Payments : Pay(p)
             \/ \E e \in Events : Deliver(e) \/ Stall(e)
             \/ Crash \/ UNCHANGED vars
      PROVE  UNCHANGED settlement
  BY <1>3 DEF Pay, Deliver, Stall, Crash, vars
<1> QED BY <1>1, <1>2, <1>3 DEF Next

\* A SUCCESSFUL payment holds the reference of one of its Transactions.
ReferenceHeld ==
    \A q \in Payments : status[q] = "SUCCESSFUL" => [payment |-> q, reference |-> reference[q]] \in txns

\* A settlement leaves all of its rows or none.
LEMMA AtomicStep ==
    ASSUME Shaped, SettlementAtomic, ReferenceHeld, [Next]_vars
    PROVE  SettlementAtomic' /\ ReferenceHeld'
<1>t. TypeOK /\ RequestShape /\ PaymentShape
  BY DEF Shaped, Shape
<1> USE DEF TransactionsOf
<1>1. CASE UNCHANGED settlement
  BY <1>1 DEF settlement, SettlementAtomic, ReferenceHeld
<1>2. ASSUME NEW i \in Initiators, CreatePayment(i)
      PROVE  SettlementAtomic' /\ ReferenceHeld'
  <2>p. PICK p \in Payments :
            /\ status[p] = "none"
            /\ status' = [status EXCEPT ![p] = "INITIALIZED"]
            /\ payFor' = [payFor EXCEPT ![p] = icon[i]]
    BY <1>2 DEF CreatePayment
  <2>1. UNCHANGED <<reference, txns, credits, strays, backing, paid>>
    BY <1>2 DEF CreatePayment, moneyVars
  <2>2. TransactionsOf(p) = {}
    <3>1. payFor[p] = NoContribution
      BY <2>p, <1>t DEF PaymentShape, TypeOK
    <3> QED BY <3>1, <1>t, PaymentSettlementAssumption DEF SettlementAtomic, TypeOK
  <2>3. \A t \in txns : t.payment \in Payments /\ t.payment # p
    BY <2>2, <1>t DEF TypeOK
  <2> QED BY <2>p, <2>1, <2>2, <2>3, <1>t DEF SettlementAtomic, ReferenceHeld, TypeOK
<1>3. ASSUME \/ \E i \in Initiators : ProviderUnavailable(i) \/ RecordPending(i)
             \/ \E w \in Workers : MarkFailed(w)
      PROVE  SettlementAtomic' /\ ReferenceHeld'
  <2>1. UNCHANGED <<payFor, txns, credits, strays, backing, paid>>
    BY <1>3 DEF ProviderUnavailable, RecordPending, MarkFailed, orderVars, moneyVars
  <2>2. \A p \in Payments : status'[p] = "SUCCESSFUL" => status[p] = "SUCCESSFUL" /\ reference'[p] = reference[p]
    BY <1>3, <1>t DEF ProviderUnavailable, RecordPending, MarkFailed, orderVars, RequestShape, Opening, TypeOK
  <2> QED BY <2>1, <2>2 DEF SettlementAtomic, ReferenceHeld
<1>4. ASSUME NEW w \in Workers, DuplicateReturn(w)
      PROVE  SettlementAtomic' /\ ReferenceHeld'
  <2>1. PaymentOf(w) \in Payments
    BY <1>4, WorkerFacts DEF DuplicateReturn
  <2>2. /\ TransactionsOf(PaymentOf(w)) # {} /\ UNCHANGED <<status, payFor, reference, txns, strays, paid>>
        /\ backing \subseteq backing'
    BY <1>4, <2>1 DEF DuplicateReturn, SettlementAtomic, orderVars, CommitCredit, Back
  <2>3. \A p \in Payments : credits'[p] > 0 <=> credits[p] > 0
    BY <1>4, <2>1, <2>2, <1>t DEF DuplicateReturn, CommitCredit, SettlementAtomic, TypeOK
  <2> QED BY <2>2, <2>3 DEF SettlementAtomic, ReferenceHeld
<1>5. ASSUME NEW w \in Workers, SupersededReturn(w)
      PROVE  SettlementAtomic' /\ ReferenceHeld'
  <2>p. PICK p \in Payments : p = PaymentOf(w)
    BY <1>5, WorkerFacts DEF SupersededReturn
  <2>v. PICK v \in Payments : v = OrderOf(w)
    BY <1>5, WorkerFacts DEF SupersededReturn
  <2>1. /\ UNCHANGED <<status, payFor, reference, txns, credits, paid>>
        /\ strays' = [strays EXCEPT ![p] = strays[p] + 1]
        /\ backing' = backing \cup {<<p, v>>}
        /\ status[p] # "SUCCESSFUL"
    BY <1>5, <2>p, <2>v DEF SupersededReturn, Back, orderVars
  <2>2. PICK q \in Payments : reference[q] = wref[w] /\ status[q] = "SUCCESSFUL"
    BY <1>5 DEF SupersededReturn, Superseded
  <2>3. wref[w].order = v
    BY <1>5, <2>v, WorkerFacts DEF SupersededReturn
  <2>4. [payment |-> q, reference |-> wref[w]] \in txns /\ q # p
    BY <2>1, <2>2 DEF ReferenceHeld
  <2>5. \E t \in txns : t.payment # p /\ <<p, t.reference.order>> \in backing'
    BY <2>1, <2>3, <2>4
  <2>6. ReferenceHeld'
    BY <2>1 DEF ReferenceHeld
  <2> QED BY <2>1, <2>5, <2>6, <1>t DEF SettlementAtomic, TypeOK
<1>6. ASSUME NEW w \in Workers, Settle(w)
      PROVE  SettlementAtomic' /\ ReferenceHeld'
  <2>p. PICK p \in Payments : p = PaymentOf(w)
    BY <1>6, WorkerFacts DEF Settle
  <2>r. PICK r \in References : r = wref[w]
    BY <1>6, WorkerFacts DEF Settle
  <2>t. PICK t : t = [payment |-> p, reference |-> r]
    OBVIOUS
  <2>1. /\ txns' = txns \cup {t} /\ t.payment = p
        /\ status' = [status EXCEPT ![p] = "SUCCESSFUL"]
        /\ reference' = [reference EXCEPT ![p] = r]
        /\ paid' = paid \cup {payFor[p]} /\ credits' = [credits EXCEPT ![p] = credits[p] + 1]
        /\ payFor' = payFor /\ strays' = strays /\ backing \subseteq backing'
    BY <1>6, <2>p, <2>r, <2>t DEF Settle, CommitCredit, Back
  <2>2. /\ TransactionsOf(p)' # {}
        /\ \A q \in Payments \ {p} : TransactionsOf(q)' = TransactionsOf(q)
    BY <2>1
  <2>3. \A q \in Payments : /\ TransactionsOf(q)' # {} <=> credits'[q] > 0
                            /\ TransactionsOf(q)' # {} => payFor'[q] \in paid'
                            /\ status'[q] = "SUCCESSFUL" => TransactionsOf(q)' # {}
    BY <2>1, <2>2, <1>t DEF SettlementAtomic, TypeOK
  <2>4. \A q \in Payments : strays'[q] > 0 =>
            \E u \in txns' : u.payment # q /\ <<q, u.reference.order>> \in backing'
    BY <2>1 DEF SettlementAtomic
  <2>5. \A c \in paid' : \E u \in txns' : payFor'[u.payment] = c
    <3>1. \A c \in paid : \E u \in txns : payFor[u.payment] = c
      BY DEF SettlementAtomic
    <3> QED BY <2>1, <3>1
  <2>6. ReferenceHeld'
    BY <2>1, <2>t, <1>t DEF ReferenceHeld, TypeOK
  <2> QED BY <2>3, <2>4, <2>5, <2>6 DEF SettlementAtomic
<1> QED BY <1>1, <1>2, <1>3, <1>4, <1>5, <1>6, OnlyTheseWrite DEF Writes

\* A settlement is all or nothing, whatever throws, rolls back or crashes.
THEOREM AllOfASettlement == Spec => []SettlementAtomic
<1>1. Init => SettlementAtomic /\ ReferenceHeld
  BY DEF Init, SettlementAtomic, TransactionsOf, ReferenceHeld
<1>2. Shaped /\ SettlementAtomic /\ ReferenceHeld /\ [Next]_vars => SettlementAtomic' /\ ReferenceHeld'
  BY AtomicStep
<1> QED BY <1>1, <1>2, AlwaysShaped, PTL DEF Spec
-----------------------------------------------------------------------------
(* The money comes from a payer                                            *)

\* A worker past verification was named an order that was paid.
Confirmed ==
    \A w \in Workers : wpc[w] \in {"credit", "check", "settle"} => charge[OrderOf(w)] = "paid"

LEMMA PaidStaysPaid ==
    ASSUME Shaped, [Next]_vars, NEW p \in Payments, charge[p] = "paid"
    PROVE  charge'[p] = "paid"
<1>t. TypeOK /\ RequestShape
  BY DEF Shaped, Shape
<1>1. ASSUME NEW i \in Initiators, Answer(i)
      PROVE  charge'[p] = "paid"
  <2>1. ipay[i] # p
    BY <1>1, <1>t DEF Answer, RequestShape, Opening
  <2> QED BY <1>1, <2>1, <1>t DEF Answer, TypeOK
<1>2. ASSUME NEW q \in Payments, Pay(q)
      PROVE  charge'[p] = "paid"
  BY <1>2, <1>t DEF Pay, TypeOK
<1>3. ASSUME NEW i \in Initiators, Request(i) \/ Initiate(i) \/ RequestThrows(i), ~ Answer(i)
      PROVE  charge' = charge
  BY <1>3 DEF Request, Initiate, RequestThrows, LockContribution, RefuseContribution, CreatePayment,
              ProviderAccepts, ProviderUnavailable, RecordPending, paymentVars, orderVars, moneyVars
<1>4. ASSUME NEW w \in Workers, Work(w) \/ SettlementThrows(w)
      PROVE  charge' = charge
  BY <1>4 DEF Work, Take, SkipProcessed, NothingToSettle, ReadPayment, JobThrows, VerifyConfirms, VerifyDenies,
              VerifyThrows, MarkFailed, CreditWallet, CheckPayment, DuplicateReturn, SupersededReturn, Settle, DuplicateReference,
              MarkProcessed, SettlementThrows, RollbackSettlement, paymentVars, orderVars
<1>5. ASSUME (\E e \in Events : Deliver(e) \/ Stall(e)) \/ Crash \/ UNCHANGED vars
      PROVE  charge' = charge
  BY <1>5 DEF Deliver, Stall, Crash, vars, paymentVars, orderVars, moneyVars
<1> QED BY <1>1, <1>2, <1>3, <1>4, <1>5 DEF Next

\* Where a worker goes: on with the same payment, to a new job's first step, or
\* to rest.
LEMMA WorkerPath ==
    ASSUME Shaped, [Next]_vars, NEW w \in Workers
    PROVE  \/ /\ wpc[w] # "idle" /\ PaymentOf(w)' = PaymentOf(w) /\ OrderOf(w)' = OrderOf(w)
              /\ wpc'[w] = wpc[w] \/ Work(w) \/ SettlementThrows(w)
           \/ wpc'[w] \in {"idle", "read"}
<1>t. TypeOK /\ JobShape /\ WorkerShape
  BY DEF Shaped, Shape
<1> USE DEF PaymentOf, OrderOf
<1>h. ASSUME wpc[w] # "idle", wpc'[w] = wpc[w], wjob'[w] = wjob[w], event'[wjob[w]] = event[wjob[w]],
             about'[wjob[w]] = about[wjob[w]]
      PROVE  wpc[w] # "idle" /\ PaymentOf(w)' = PaymentOf(w) /\ OrderOf(w)' = OrderOf(w) /\ wpc'[w] = wpc[w]
  BY <1>h
<1>0. CASE wpc[w] = "idle" /\ wpc'[w] = "idle"
  BY <1>0
<1>1. CASE UNCHANGED <<workerVars, eventVars>>
  BY <1>1, <1>0, <1>h DEF workerVars, eventVars
<1>2. ASSUME NEW e \in Events, Deliver(e)
      PROVE  /\ wpc[w] # "idle" => PaymentOf(w)' = PaymentOf(w) /\ OrderOf(w)' = OrderOf(w)
             /\ wpc'[w] = wpc[w]
  <2>1. wpc[w] # "idle" => wjob[w] # e
    BY <1>2, <1>t DEF Deliver, WorkerShape
  <2> QED BY <1>2, <2>1, <1>t DEF Deliver, workerVars, WorkerShape, TypeOK
<1>3. CASE Crash
  BY <1>3 DEF Crash
<1>4. ASSUME NEW v \in Workers, Work(v) \/ SettlementThrows(v), v # w
      PROVE  wpc'[w] = wpc[w] /\ wjob'[w] = wjob[w] /\ event' = event /\ about' = about
  BY <1>4, <1>t DEF Work, Take, SkipProcessed, NothingToSettle, ReadPayment, JobThrows, VerifyConfirms, VerifyDenies,
              VerifyThrows, MarkFailed, CreditWallet, CheckPayment, DuplicateReturn, SupersededReturn, Settle, DuplicateReference,
              MarkProcessed, SettlementThrows, RollbackSettlement, Rest, GoW, eventVars, TypeOK
<1>5. ASSUME Work(w) \/ SettlementThrows(w), wpc[w] = "idle"
      PROVE  wpc'[w] = "read"
  BY <1>5, <1>t DEF Work, Take, SkipProcessed, NothingToSettle, ReadPayment, JobThrows, VerifyConfirms, VerifyDenies,
              VerifyThrows, MarkFailed, CreditWallet, CheckPayment, DuplicateReturn, SupersededReturn, Settle, DuplicateReference,
              MarkProcessed, SettlementThrows, InTransaction, GoW, TypeOK
<1>6. ASSUME Work(w) \/ SettlementThrows(w), wpc[w] # "idle"
      PROVE  (PaymentOf(w)' = PaymentOf(w) /\ OrderOf(w)' = OrderOf(w)) \/ wpc'[w] = "idle"
  BY <1>6, <1>t DEF Work, Take, SkipProcessed, NothingToSettle, ReadPayment, JobThrows, VerifyConfirms, VerifyDenies,
              VerifyThrows, MarkFailed, CreditWallet, CheckPayment, DuplicateReturn, SupersededReturn, Settle, DuplicateReference,
              MarkProcessed, SettlementThrows, RollbackSettlement, Rest, GoW, eventVars, TypeOK
<1>7. ASSUME \/ \E i \in Initiators : Request(i) \/ Initiate(i) \/ RequestThrows(i)
             \/ \E p \in Payments : Pay(p)
             \/ \E e \in Events : Stall(e)
             \/ UNCHANGED vars
      PROVE  UNCHANGED <<workerVars, eventVars>>
  BY <1>7 DEF Request, Initiate, RequestThrows, LockContribution, RefuseContribution, CreatePayment, ProviderAccepts,
              ProviderUnavailable, RecordPending, Answer, Pay, Stall, vars
<1> QED BY <1>0, <1>1, <1>2, <1>3, <1>4, <1>5, <1>6, <1>7 DEF Next

\* The steps up to a settlement follow each other, and a worker starts on them
\* only when it reads that the payment has not succeeded.
LEMMA WorkerSteps ==
    ASSUME Shaped, NEW w \in Workers, Work(w) \/ SettlementThrows(w)
    PROVE  /\ wpc'[w] = "verify" => wpc[w] = "read" /\ status[PaymentOf(w)] # "SUCCESSFUL"
           /\ wpc'[w] = "fail" => wpc[w] = "verify"
           /\ wpc'[w] = "credit" => wpc[w] = "verify" /\ charge[OrderOf(w)] = "paid"
           /\ wpc'[w] = "check" => wpc[w] = "credit"
           /\ wpc'[w] = "settle" => wpc[w] = "check" /\ status[PaymentOf(w)] # "SUCCESSFUL"
<1>t. wpc \in [Workers -> WSteps]
  BY DEF Shaped, TypeOK
<1> QED
  BY <1>t DEF Work, Take, SkipProcessed, NothingToSettle, ReadPayment, JobThrows, VerifyConfirms, VerifyDenies,
              VerifyThrows, MarkFailed, CreditWallet, CheckPayment, DuplicateReturn, SupersededReturn, Settle, DuplicateReference,
              MarkProcessed, SettlementThrows, RollbackSettlement, Rest, GoW

LEMMA ConfirmedStep ==
    ASSUME Shaped, Confirmed, [Next]_vars
    PROVE  Confirmed'
<1> SUFFICES ASSUME NEW w \in Workers, wpc'[w] \in {"credit", "check", "settle"}
             PROVE  charge'[OrderOf(w)'] = "paid"
  BY DEF Confirmed
<1>1. /\ wpc[w] # "idle" /\ OrderOf(w)' = OrderOf(w)
      /\ wpc'[w] = wpc[w] \/ Work(w) \/ SettlementThrows(w)
  BY WorkerPath
<1>2. charge[OrderOf(w)] = "paid"
  BY <1>1, WorkerSteps DEF Confirmed
<1>3. OrderOf(w) \in Payments
  BY <1>1, WorkerFacts
<1> QED BY <1>1, <1>2, <1>3, PaidStaysPaid

LEMMA ChargeStep ==
    ASSUME Shaped, Confirmed, CreditNeedsCharge, [Next]_vars
    PROVE  CreditNeedsCharge'
<1>t. TypeOK
  BY DEF Shaped
<1>c. \A v \in Payments : charge[v] = "paid" => charge'[v] = "paid"
  BY PaidStaysPaid
<1>1. CASE UNCHANGED <<credits, strays, backing>>
  BY <1>1, <1>c, <1>t DEF CreditNeedsCharge, TypeOK
<1>2. CASE ~ UNCHANGED <<credits, strays, backing>>
  <2>1. PICK w \in Workers : DuplicateReturn(w) \/ SupersededReturn(w) \/ Settle(w)
    BY <1>2, OnlyTheseWrite DEF settlement, Writes, CreatePayment, ProviderUnavailable, RecordPending, MarkFailed,
       moneyVars
  <2>p. PICK p \in Payments, v \in Payments : p = PaymentOf(w) /\ v = OrderOf(w)
    BY <2>1, WorkerFacts DEF DuplicateReturn, SupersededReturn, Settle
  <2>2. charge[v] = "paid"
    BY <2>1, <2>p DEF Confirmed, DuplicateReturn, SupersededReturn, Settle
  <2>3. /\ backing' = backing \cup {<<p, v>>}
        /\ \A q \in Payments \ {p} : credits'[q] = credits[q] /\ strays'[q] = strays[q]
    BY <2>1, <2>p, <1>t DEF DuplicateReturn, SupersededReturn, Settle, CommitCredit, Back, TypeOK
  <2>4. \A b \in backing' : charge'[b[2]] = "paid"
    BY <2>2, <2>3, <1>c, <1>t DEF CreditNeedsCharge, TypeOK
  <2>5. \A q \in Payments : credits'[q] + strays'[q] > 0 => \E u \in Payments : <<q, u>> \in backing'
    BY <2>3 DEF CreditNeedsCharge
  <2> QED BY <2>4, <2>5 DEF CreditNeedsCharge
<1> QED BY <1>1, <1>2

\* The group wallet is only credited on a charge the provider took from a payer.
THEOREM MoneyComesFromAPayer == Spec => []CreditNeedsCharge
<1>1. Init => Confirmed /\ CreditNeedsCharge
  BY DEF Init, Confirmed, CreditNeedsCharge
<1>2. Shaped /\ Confirmed /\ CreditNeedsCharge /\ [Next]_vars => Confirmed' /\ CreditNeedsCharge'
  BY ConfirmedStep, ChargeStep
<1> QED BY <1>1, <1>2, AlwaysShaped, PTL DEF Spec
-----------------------------------------------------------------------------
(* How often a payment is credited                                         *)

\* The workers that may still return as duplicates, once payment p succeeded.
Ahead(p) == {w \in Workers : wpc[w] \in {"verify", "credit", "check"} /\ PaymentOf(w) = p}

\* Each credit takes its worker out of this set, and while the payment says
\* SUCCESSFUL none joins it.  A payment that says FAILED after it was settled
\* is credited again only with a further Transaction, which pays for as many
\* credits as there are slots.
Bounded ==
    \A p \in Payments :
        /\ IsFiniteSet(TransactionsOf(p))
        /\ credits[p] <= Cardinality(Workers) * Cardinality(TransactionsOf(p))
        /\ status[p] = "SUCCESSFUL" =>
              credits[p] + Cardinality(Ahead(p)) <= Cardinality(Workers) * Cardinality(TransactionsOf(p))

LEMMA WorkersCount ==
    ASSUME NEW S \in SUBSET Workers, NEW R \in SUBSET S
    PROVE  /\ Cardinality(S) \in Nat /\ Cardinality(R) \in Nat /\ Cardinality(R) <= Cardinality(S)
           /\ Cardinality(Workers) \in Nat /\ Cardinality(S) <= Cardinality(Workers)
           /\ \A w \in S : w \notin R => Cardinality(R) <= Cardinality(S) - 1
<1>1. IsFiniteSet(Workers)
  BY PaymentSettlementAssumption
<1>2. IsFiniteSet(S) /\ Cardinality(S) <= Cardinality(Workers)
  BY <1>1, FS_Subset
<1>3. IsFiniteSet(R) /\ Cardinality(R) <= Cardinality(S)
  BY <1>2, FS_Subset
<1>4. Cardinality(S) \in Nat /\ Cardinality(R) \in Nat /\ Cardinality(Workers) \in Nat
  BY <1>1, <1>2, <1>3, FS_CardinalityType
<1>5. ASSUME NEW w \in S, w \notin R
      PROVE  Cardinality(R) <= Cardinality(S) - 1
  <2>1. IsFiniteSet(S \ {w}) /\ Cardinality(S \ {w}) = Cardinality(S) - 1
    BY <1>2, FS_RemoveElement
  <2>2. R \subseteq S \ {w}
    BY <1>5
  <2> QED BY <2>1, <2>2, FS_Subset
<1> QED BY <1>2, <1>3, <1>4, <1>5

\* A worker joins Ahead(p) only by reading that p has not succeeded.
LEMMA AheadShrinks ==
    ASSUME Shaped, [Next]_vars, NEW p \in Payments, status[p] = "SUCCESSFUL"
    PROVE  Ahead(p)' \subseteq Ahead(p)
<1> SUFFICES ASSUME NEW w \in Workers, wpc'[w] \in {"verify", "credit", "check"}, PaymentOf(w)' = p
             PROVE  w \in Ahead(p)
  BY DEF Ahead
<1>1. /\ wpc[w] # "idle" /\ PaymentOf(w) = p
      /\ wpc'[w] = wpc[w] \/ Work(w) \/ SettlementThrows(w)
  BY WorkerPath
<1>2. wpc[w] \in {"verify", "credit", "check"}
  BY <1>1, WorkerSteps
<1> QED BY <1>1, <1>2 DEF Ahead

\* A Transaction more pays for a credit of every slot.
LEMMA OneMoreEach ==
    ASSUME NEW k \in Nat, NEW n \in Nat
    PROVE  k * n \in Nat /\ k * (n + 1) = k * n + k
OBVIOUS

\* Every credit past the first used up a slot that was ahead of the check.
LEMMA BoundedStep ==
    ASSUME Shaped, Bounded, [Next]_vars
    PROVE  Bounded'
<1> SUFFICES ASSUME NEW p \in Payments
             PROVE  /\ IsFiniteSet(TransactionsOf(p)')
                    /\ credits'[p] <= Cardinality(Workers) * Cardinality(TransactionsOf(p)')
                    /\ status'[p] = "SUCCESSFUL" =>
                          credits'[p] + Cardinality(Ahead(p)')
                            <= Cardinality(Workers) * Cardinality(TransactionsOf(p)')
  BY DEF Bounded
<1>t. status \in [Payments -> Statuses] /\ credits \in [Payments -> Nat]
  BY DEF Shaped, TypeOK
<1>k. PICK k \in Nat : k = Cardinality(Workers)
  BY WorkersCount
<1>n. PICK n \in Nat : n = Cardinality(TransactionsOf(p)) /\ IsFiniteSet(TransactionsOf(p))
  BY FS_CardinalityType DEF Bounded
<1>a. Ahead(p) \subseteq Workers /\ Ahead(p)' \subseteq Workers
  BY DEF Ahead
<1>b. PICK a \in Nat : a = Cardinality(Ahead(p)) /\ a <= k
  BY <1>a, <1>k, WorkersCount
<1>c. PICK b \in Nat : b = Cardinality(Ahead(p)') /\ b <= k
  BY <1>a, <1>k, WorkersCount
<1>d. PICK m \in Nat : m = k * n /\ k * (n + 1) = m + k
  BY OneMoreEach
<1>h. credits[p] \in Nat /\ credits[p] <= m /\ (status[p] = "SUCCESSFUL" => credits[p] + a <= m)
  BY <1>t, <1>k, <1>n, <1>b, <1>d DEF Bounded
<1>s. ASSUME status[p] = "SUCCESSFUL"
      PROVE  Ahead(p)' \subseteq Ahead(p) /\ b <= a
  <2>1. Ahead(p)' \subseteq Ahead(p)
    BY <1>s, AheadShrinks
  <2> QED BY <2>1, <1>a, <1>b, <1>c, WorkersCount
<1>1. ASSUME credits'[p] = credits[p], TransactionsOf(p)' = TransactionsOf(p),
             status'[p] = "SUCCESSFUL" => status[p] = "SUCCESSFUL"
      PROVE  /\ credits'[p] <= m
             /\ status'[p] = "SUCCESSFUL" => credits'[p] + b <= m
  BY <1>1, <1>h, <1>s
<1>2. ASSUME NEW w \in Workers, DuplicateReturn(w), p = PaymentOf(w)
      PROVE  TransactionsOf(p)' = TransactionsOf(p) /\ credits'[p] + b <= m /\ credits'[p] \in Nat
  <2>1. /\ credits'[p] = credits[p] + 1 /\ status[p] = "SUCCESSFUL" /\ wpc'[w] = "mark"
        /\ TransactionsOf(p)' = TransactionsOf(p)
    BY <1>2, <1>t DEF DuplicateReturn, CommitCredit, TransactionsOf, GoW, Shaped, TypeOK
  <2>2. w \in Ahead(p) /\ w \notin Ahead(p)'
    BY <1>2, <2>1 DEF DuplicateReturn, Ahead
  <2>3. b <= a - 1
    BY <2>1, <2>2, <1>s, <1>a, <1>b, <1>c, WorkersCount
  <2> QED BY <2>1, <2>3, <1>h
<1>3. ASSUME NEW w \in Workers, Settle(w), p = PaymentOf(w)
      PROVE  /\ IsFiniteSet(TransactionsOf(p)') /\ Cardinality(TransactionsOf(p)') = n + 1
             /\ credits'[p] + b <= m + k /\ credits'[p] \in Nat
  <2>1. ~ ReferenceTaken(w) /\ credits'[p] = credits[p] + 1 /\ wpc'[w] = "mark"
    BY <1>3, <1>t DEF Settle, CommitCredit, GoW, Shaped, TypeOK
  <2>r. PICK t : t = [payment |-> p, reference |-> wref[w]] /\ txns' = txns \cup {t}
    BY <1>3 DEF Settle
  <2>2. TransactionsOf(p)' = TransactionsOf(p) \cup {t} /\ t \notin TransactionsOf(p)
    BY <2>1, <2>r DEF TransactionsOf, ReferenceTaken
  <2>3. IsFiniteSet(TransactionsOf(p)') /\ Cardinality(TransactionsOf(p)') = n + 1
    BY <2>2, <1>n, FS_AddElement
  <2>4. w \notin Ahead(p)'
    BY <2>1 DEF Ahead
  <2>5. b <= k - 1
    BY <2>4, <1>a, <1>c, <1>k, WorkersCount
  <2> QED BY <2>1, <2>3, <2>5, <1>h
<1>4. ASSUME ~ \E w \in Workers : PaymentOf(w) = p /\ (DuplicateReturn(w) \/ Settle(w))
      PROVE  /\ credits'[p] = credits[p] /\ TransactionsOf(p)' = TransactionsOf(p)
             /\ status'[p] = "SUCCESSFUL" => status[p] = "SUCCESSFUL"
  <2>1. CASE UNCHANGED settlement
    BY <2>1 DEF settlement, TransactionsOf
  <2>2. ASSUME NEW w \in Workers, DuplicateReturn(w) \/ Settle(w)
        PROVE  /\ credits'[p] = credits[p] /\ TransactionsOf(p)' = TransactionsOf(p)
               /\ status'[p] = "SUCCESSFUL" => status[p] = "SUCCESSFUL"
    <3>1. PaymentOf(w) # p
      BY <1>4, <2>2
    <3> QED BY <2>2, <3>1, <1>t DEF DuplicateReturn, Settle, CommitCredit, TransactionsOf
  <2>3. CASE Writes /\ ~ \E w \in Workers : DuplicateReturn(w) \/ Settle(w)
    BY <2>3, <1>t DEF Writes, CreatePayment, ProviderUnavailable, RecordPending, MarkFailed, SupersededReturn,
       TransactionsOf, moneyVars
  <2> QED BY <2>1, <2>2, <2>3, OnlyTheseWrite
<1>5. CASE \E w \in Workers : PaymentOf(w) = p /\ DuplicateReturn(w)
  BY <1>5, <1>2, <1>k, <1>n, <1>c, <1>d
<1>6. CASE \E w \in Workers : PaymentOf(w) = p /\ Settle(w)
  BY <1>6, <1>3, <1>k, <1>c, <1>d
<1>7. CASE ~ \E w \in Workers : PaymentOf(w) = p /\ (DuplicateReturn(w) \/ Settle(w))
  BY <1>7, <1>1, <1>4, <1>k, <1>n, <1>c, <1>d
<1> QED BY <1>5, <1>6, <1>7

LEMMA AlwaysBounded == Spec => [](Shaped /\ Bounded)
<1>1. Init => Bounded
  <2> SUFFICES ASSUME Init, NEW p \in Payments
               PROVE  /\ IsFiniteSet(TransactionsOf(p))
                      /\ credits[p] <= Cardinality(Workers) * Cardinality(TransactionsOf(p))
                      /\ status[p] # "SUCCESSFUL"
    BY DEF Bounded
  <2>1. TransactionsOf(p) = {} /\ credits[p] = 0 /\ status[p] # "SUCCESSFUL"
    BY DEF Init, TransactionsOf
  <2>2. IsFiniteSet(TransactionsOf(p)) /\ Cardinality(TransactionsOf(p)) = 0 /\ Cardinality(Workers) \in Nat
    BY <2>1, FS_EmptySet, WorkersCount
  <2> QED BY <2>1, <2>2
<1>2. Shaped /\ Bounded /\ [Next]_vars => Bounded'
  BY BoundedStep
<1> QED BY <1>1, <1>2, AlwaysShaped, PTL DEF Spec

\* One payment is credited at most once per worker slot and Transaction, for
\* any number of events, retries, stalls and crashes.
THEOREM SurplusCreditsBounded == Spec => []CreditsBoundedByWorkers
<1>1. Bounded => CreditsBoundedByWorkers
  BY DEF Bounded, CreditsBoundedByWorkers
<1> QED BY <1>1, AlwaysBounded, PTL
-----------------------------------------------------------------------------
(* Steps of a payment                                                      *)

\* A row becomes visible only for a contribution that is unpaid and has no
\* other payment under way.
LEMMA OpensAloneStep ==
    ASSUME Shaped, [Next]_vars, NEW p \in Payments, status[p] = "none", status'[p] # "none"
    PROVE  /\ payFor'[p] \notin paid'
           /\ \A q \in Payments \ {p} : payFor'[q] = payFor'[p] => status'[q] = "FAILED"
<1>t. TypeOK /\ RequestShape /\ PaymentShape
  BY DEF Shaped, Shape
<1>1. Writes
  BY OnlyTheseWrite DEF settlement
<1>2. ~ \E i \in Initiators : ProviderUnavailable(i) \/ RecordPending(i)
  BY <1>t DEF ProviderUnavailable, RecordPending, RequestShape, Opening, TypeOK
<1>3. ASSUME NEW w \in Workers, MarkFailed(w) \/ DuplicateReturn(w) \/ SupersededReturn(w) \/ Settle(w)
      PROVE  FALSE
  <2>1. status[PaymentOf(w)] # "none"
    BY <1>3, WorkerFacts DEF MarkFailed, DuplicateReturn, SupersededReturn, Settle
  <2> QED BY <1>3, <2>1, <1>t DEF MarkFailed, DuplicateReturn, SupersededReturn, Settle, TypeOK
<1>4. PICK i \in Initiators : CreatePayment(i)
  BY <1>1, <1>2, <1>3 DEF Writes
<1>5. PICK r \in Payments :
          /\ status[r] = "none"
          /\ status' = [status EXCEPT ![r] = "INITIALIZED"]
          /\ payFor' = [payFor EXCEPT ![r] = icon[i]]
  BY <1>4 DEF CreatePayment
<1>6. icon[i] \in Contributions /\ icon[i] \notin paid /\ ~ HasActivePayment(icon[i]) /\ paid' = paid
  BY <1>4, <1>t DEF CreatePayment, moneyVars, RequestShape
<1>7. r = p /\ payFor'[p] = icon[i]
  BY <1>5, <1>t DEF TypeOK
<1>8. ASSUME NEW q \in Payments \ {p}, payFor'[q] = icon[i]
      PROVE  status'[q] = "FAILED"
  <2>1. payFor[q] = icon[i] /\ status'[q] = status[q]
    BY <1>5, <1>7, <1>8, <1>t DEF TypeOK
  <2>2. status[q] \notin {"PENDING", "INITIALIZED", "SUCCESSFUL"} /\ status[q] # "none"
    BY <2>1, <1>6, <1>t DEF HasActivePayment, PaymentShape
  <2> QED BY <2>1, <2>2, <1>t DEF TypeOK, Statuses
<1> QED BY <1>6, <1>7, <1>8

\* No payment is opened beside an active one of the same contribution, by any
\* number of concurrent requests.
THEOREM PaymentsOpenAlone == Spec => OpensAlone
<1>1. Shaped /\ [Next]_vars =>
        [\A p \in Payments : status[p] = "none" /\ status'[p] # "none" =>
            /\ payFor'[p] \notin paid'
            /\ \A q \in Payments \ {p} : payFor'[q] = payFor'[p] => status'[q] = "FAILED"]_vars
  BY OpensAloneStep
<1> QED BY <1>1, AlwaysShaped, PTL DEF Spec, OpensAlone

\* A worker between its two reads of a payment that already succeeded has been
\* overtaken by the settlement.
OvertakenOrFresh ==
    \A w \in Workers :
        /\ wpc[w] \in {"verify", "fail", "credit", "check", "settle"} =>
              status[PaymentOf(w)] # "SUCCESSFUL" \/ w \in overtaken

\* Only the worker itself, at rest, and a crash take it out of the overtaken.
LEMMA StaysOvertaken ==
    ASSUME Shaped, [Next]_vars, NEW w \in overtaken, wpc'[w] # "idle"
    PROVE  w \in overtaken'
<1>t. TypeOK
  BY DEF Shaped
<1>0. w \in Workers
  BY <1>t DEF TypeOK
<1>1. ASSUME NEW v \in Workers, Work(v) \/ SettlementThrows(v)
      PROVE  overtaken \subseteq overtaken' \/ (overtaken' = overtaken \ {v} /\ wpc'[v] = "idle")
  BY <1>1, <1>t DEF Work, Take, SkipProcessed, NothingToSettle, ReadPayment, JobThrows, VerifyConfirms, VerifyDenies,
              VerifyThrows, MarkFailed, CreditWallet, CheckPayment, DuplicateReturn, SupersededReturn, Settle,
              DuplicateReference, MarkProcessed, SettlementThrows, RollbackSettlement, Rest, GoW, TypeOK
<1>2. CASE Crash
  BY <1>0, <1>2 DEF Crash
<1>3. ASSUME \/ \E i \in Initiators : Request(i) \/ Initiate(i) \/ RequestThrows(i)
             \/ \E p \in Payments : Pay(p)
             \/ \E e \in Events : Deliver(e) \/ Stall(e)
             \/ UNCHANGED vars
      PROVE  overtaken' = overtaken
  BY <1>3 DEF Request, Initiate, RequestThrows, LockContribution, RefuseContribution, CreatePayment, ProviderAccepts,
              ProviderUnavailable, RecordPending, Answer, Pay, Deliver, Stall, vars, workerVars
<1> QED BY <1>1, <1>2, <1>3 DEF Next

LEMMA OvertakenStep ==
    ASSUME Shaped, OvertakenOrFresh, [Next]_vars
    PROVE  OvertakenOrFresh'
<1> SUFFICES ASSUME NEW w \in Workers, wpc'[w] \in {"verify", "fail", "credit", "check", "settle"},
                    status'[PaymentOf(w)'] = "SUCCESSFUL"
             PROVE  w \in overtaken'
  BY DEF OvertakenOrFresh
<1>t. TypeOK /\ RequestShape
  BY DEF Shaped, Shape
<1>1. /\ wpc[w] # "idle" /\ PaymentOf(w)' = PaymentOf(w)
      /\ wpc'[w] = wpc[w] \/ Work(w) \/ SettlementThrows(w)
  BY WorkerPath
<1>2. PaymentOf(w) \in Payments
  BY <1>1, WorkerFacts
<1>3. CASE status[PaymentOf(w)] = "SUCCESSFUL"
  <2>1. w \in overtaken
    BY <1>1, <1>3, WorkerSteps DEF OvertakenOrFresh
  <2> QED BY <2>1, StaysOvertaken
<1>4. CASE status[PaymentOf(w)] # "SUCCESSFUL"
  <2>1. PICK v \in Workers : Settle(v) /\ PaymentOf(v) = PaymentOf(w)
    <3>1. Writes
      BY <1>1, <1>4, OnlyTheseWrite DEF settlement
    <3> QED BY <3>1, <1>1, <1>2, <1>4, <1>t DEF Writes, CreatePayment, ProviderUnavailable, RecordPending, MarkFailed,
               DuplicateReturn, SupersededReturn, Settle, TypeOK
  <2>2. v # w
    BY <2>1, <1>t DEF Settle, GoW, TypeOK
  <2>3. wpc'[w] = wpc[w]
    BY <2>1, <2>2, <1>t DEF Settle, GoW, TypeOK
  <2> QED BY <2>1, <2>2, <2>3 DEF Settle, Judging
<1> QED BY <1>3, <1>4

\* What befalls a SUCCESSFUL payment comes from a worker that was overtaken.
LEMMA DisturbStep ==
    ASSUME Shaped, OvertakenOrFresh, [Next]_vars, NEW p \in Payments, status[p] = "SUCCESSFUL"
    PROVE  \/ status'[p] = "SUCCESSFUL" /\ credits'[p] = credits[p] /\ strays'[p] = strays[p]
           \/ \E w \in overtaken : PaymentOf(w) = p /\ wpc[w] # "mark" /\ wpc'[w] = "mark"
<1>t. TypeOK /\ RequestShape /\ PaymentShape
  BY DEF Shaped, Shape
<1>1. CASE UNCHANGED settlement
  BY <1>1 DEF settlement
<1>2. ASSUME NEW i \in Initiators, CreatePayment(i)
      PROVE  status'[p] = "SUCCESSFUL" /\ credits'[p] = credits[p] /\ strays'[p] = strays[p]
  BY <1>2, <1>t DEF CreatePayment, moneyVars, TypeOK
<1>3. ASSUME NEW i \in Initiators, ProviderUnavailable(i) \/ RecordPending(i)
      PROVE  status'[p] = "SUCCESSFUL" /\ credits'[p] = credits[p] /\ strays'[p] = strays[p]
  <2>1. charge[ipay[i]] = "none"
    BY <1>3, <1>t DEF ProviderUnavailable, RecordPending, RequestShape, Opening
  <2>2. charge[p] # "none"
    BY <1>t DEF PaymentShape
  <2> QED BY <1>3, <2>1, <2>2, <1>t DEF ProviderUnavailable, RecordPending, moneyVars, TypeOK
<1>4. ASSUME NEW w \in Workers, MarkFailed(w) \/ DuplicateReturn(w) \/ SupersededReturn(w) \/ Settle(w)
      PROVE  \/ status'[p] = "SUCCESSFUL" /\ credits'[p] = credits[p] /\ strays'[p] = strays[p]
             \/ w \in overtaken /\ PaymentOf(w) = p /\ wpc[w] # "mark" /\ wpc'[w] = "mark"
  <2>1. CASE PaymentOf(w) = p
    <3>1. wpc[w] \in {"fail", "check", "settle"} /\ wpc'[w] = "mark"
      BY <1>4, <1>t DEF MarkFailed, DuplicateReturn, SupersededReturn, Settle, GoW, TypeOK
    <3> QED BY <2>1, <3>1 DEF OvertakenOrFresh
  <2>2. CASE PaymentOf(w) # p
    BY <1>4, <2>2, <1>t DEF MarkFailed, DuplicateReturn, SupersededReturn, Settle, CommitCredit, moneyVars, TypeOK
  <2> QED BY <2>1, <2>2
<1> QED BY <1>1, <1>2, <1>3, <1>4, OnlyTheseWrite DEF Writes

\* With any number of slots, a worker that reads SUCCESSFUL leaves the payment
\* alone: only one that read it before the settlement committed disturbs it.
THEOREM SuccessDisturbedOnlyFromBefore == Spec => OnlyOvertakenDisturb
<1>1. Init => OvertakenOrFresh
  BY DEF Init, OvertakenOrFresh
<1>2. Shaped /\ OvertakenOrFresh /\ [Next]_vars => OvertakenOrFresh'
  BY OvertakenStep
<1>3. Shaped /\ OvertakenOrFresh /\ [Next]_vars =>
        [\A p \in Payments : status[p] = "SUCCESSFUL" =>
            \/ status'[p] = "SUCCESSFUL" /\ credits'[p] = credits[p] /\ strays'[p] = strays[p]
            \/ \E w \in overtaken : PaymentOf(w) = p /\ wpc[w] # "mark" /\ wpc'[w] = "mark"]_vars
  BY DisturbStep
<1> QED BY <1>1, <1>2, <1>3, AlwaysShaped, PTL DEF Spec, OnlyOvertakenDisturb
=============================================================================
