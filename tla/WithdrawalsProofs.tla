-------------------------- MODULE WithdrawalsProofs --------------------------
(***************************************************************************)
(* Proofs about Withdrawals for every set of rows, every finite number of  *)
(* requests at once, every opening balance and every subset of the faults; *)
(* and about the provider's access token, for any number of requests.      *)
(***************************************************************************)
EXTENDS Withdrawals, ProviderClient, TLAPS, FiniteSetTheorems

\* What Go and End do to the calls, by each call's step and withdrawal.
Others(c)      == \A d \in Calls \ {c} : call'[d] = call[d]
Moved(c, w, s) == call'[c].pc = s /\ call'[c].w = w /\ Others(c)
Gone(c)        == call'[c].pc = "idle" /\ Others(c)

LEMMA CallEffect ==
    ASSUME TypeOK, NEW c \in Calls, NEW w \in Withdrawals
    PROVE  /\ \A s \in Busy : Go(c, w, s) => Moved(c, w, s)
           /\ End(c) => Gone(c)
BY DEF TypeOK, Go, End, Moved, Gone, Others, Idle

LEMMA CallType ==
    ASSUME TypeOK, NEW c \in Calls
    PROVE  \/ call[c] = Idle /\ call[c].pc = "idle"
           \/ call[c].pc \in Busy /\ call[c].w \in Withdrawals /\ call[c].pc # "idle"
BY DEF TypeOK, Idle, Busy

\* The steps of the operations keep the types.
LEMMA TypeStep == TypeOK /\ [Next]_vars => TypeOK'
<1> SUFFICES ASSUME TypeOK, [Next]_vars PROVE TypeOK'
  OBVIOUS
<1> USE DEF TypeOK
<1>g. ASSUME NEW c \in Calls, NEW w \in Withdrawals, NEW s \in Busy, Go(c, w, s)
      PROVE  call' \in [Calls -> {Idle} \cup [pc : Busy, w : Withdrawals]]
  BY <1>g DEF Go
<1>e. ASSUME NEW c \in Calls, End(c)
      PROVE  call' \in [Calls -> {Idle} \cup [pc : Busy, w : Withdrawals]]
  BY <1>e DEF End
<1>1. ASSUME NEW c \in Calls, NEW w \in Withdrawals, CheckBalance(c, w) \/ ReadPending(c, w)
      PROVE  TypeOK'
  BY <1>1, <1>g DEF CheckBalance, ReadPending, Start, Busy
<1>2. ASSUME NEW c \in Calls, NEW w \in Withdrawals, CreateWithdrawal(c, w) \/ Reject(c, w) \/ MarkFailed(c, w)
      PROVE  TypeOK'
  BY <1>2, <1>e DEF CreateWithdrawal, Reject, MarkFailed, StatusAfterCatch, Final
<1>3. ASSUME NEW c \in Calls, NEW w \in Withdrawals, Claim(c, w)
      PROVE  TypeOK'
  BY <1>3, <1>g DEF Claim, Mar, Busy
<1>4. ASSUME NEW c \in Calls, NEW w \in Withdrawals, Debit(c, w)
      PROVE  TypeOK'
  BY <1>4, <1>g DEF Debit, TakeMoney, Mar, Busy
<1>5. ASSUME NEW c \in Calls, NEW w \in Withdrawals, RefuseDebit(c, w) \/ Transfer(c, w)
      PROVE  TypeOK'
  BY <1>5, <1>g DEF RefuseDebit, Transfer, Mar, Busy
<1>6. ASSUME NEW c \in Calls, NEW w \in Withdrawals, Record(c, w)
      PROVE  TypeOK'
  BY <1>6, <1>g, <1>e DEF Record, Final, Busy
<1>7. ASSUME NEW c \in Calls, NEW w \in Withdrawals, Credit(c, w) \/ CreditBack(c, w)
      PROVE  TypeOK'
  <2>1. balance' \in Nat /\ books' \in [Withdrawals -> [debits : Nat, credits : Nat]]
    BY <1>7 DEF Credit, CreditedInTry, CreditBack, CreditedBack, ReturnMoney
  <2>2. call' \in [Calls -> {Idle} \cup [pc : Busy, w : Withdrawals]]
    BY <1>7, <1>g, <1>e DEF Credit, CreditBack, Busy
  <2> QED BY <1>7, <2>1, <2>2 DEF Credit, CreditBack, Mar, Drop
<1>8. ASSUME NEW c \in Calls, NEW w \in Withdrawals, StatementThrows(c, w)
      PROVE  TypeOK'
  BY <1>8, <1>g, <1>e DEF StatementThrows, Mar, Drop, Busy
<1>9. ASSUME NEW w \in Withdrawals, NEW s \in Final, OverrideStatus(w, s)
      PROVE  TypeOK'
  BY <1>9 DEF OverrideStatus, Final
<1>10. CASE Crash
  <2>1. \A c \in Calls : call[c].pc # "idle" => call[c].w \in Withdrawals
    BY CallType
  <2> QED BY <1>10, <2>1 DEF Crash
<1>11. CASE UNCHANGED vars
  BY <1>11 DEF vars
<1> QED
  BY <1>1, <1>2, <1>3, <1>4, <1>5, <1>6, <1>7, <1>8, <1>9, <1>10, <1>11 DEF Next, CallStep

\* Rows, books and calls keep their shape, and no balance is negative,
\* whatever requests run and fail.
THEOREM Typing == Spec => []TypeOK
<1>1. Init => TypeOK
  BY WithdrawalsAssumption DEF Init, TypeOK, Idle
<1> QED BY <1>1, TypeStep, PTL DEF Spec
-----------------------------------------------------------------------------
(* ProcessingIsAttended                                                    *)

\* The steps from which an approval still writes a final status.  Not every
\* step: a call about to credit in the try block has written FAILED, but a
\* second approval of the row may have written PROCESSING again.
Unrecorded == {"debit", "transfer", "complete", "fail", "creditBack", "failed"}

Attends(c, w) == call[c].pc \in Unrecorded /\ call[c].w = w

Attended ==
    \A w \in Withdrawals : status[w] = "PROCESSING" =>
        w \in dropped \/ \E c \in Calls : Attends(c, w)

\* A step of another call, or on another row, leaves a row attended.
LEMMA AttendedStep ==
    ASSUME TypeOK, Attended, [Next]_vars
    PROVE  Attended'
<1> SUFFICES ASSUME NEW v \in Withdrawals, status'[v] = "PROCESSING", v \notin dropped'
             PROVE  \E d \in Calls : Attends(d, v)'
  BY DEF Attended
\* Enough: an attending call that stays one, or the mover attends now.
<1>h. ASSUME v \notin dropped, status[v] = "PROCESSING",
             \A d \in Calls : Attends(d, v) => \E b \in Calls : Attends(b, v)'
      PROVE  \E d \in Calls : Attends(d, v)'
  BY <1>h DEF Attended
<1> USE DEF Attends, Unrecorded
<1>1. ASSUME NEW c \in Calls, NEW w \in Withdrawals, CheckBalance(c, w) \/ ReadPending(c, w)
      PROVE  \E d \in Calls : Attends(d, v)'
  <2>1. call[c].pc = "idle" /\ Others(c) /\ UNCHANGED <<status, dropped>>
    BY <1>1, CallEffect DEF CheckBalance, ReadPending, Start, Busy, Moved
  <2> QED BY <2>1, <1>h DEF Others
<1>2. ASSUME NEW c \in Calls, NEW w \in Withdrawals, CreateWithdrawal(c, w) \/ Reject(c, w) \/ MarkFailed(c, w)
      PROVE  \E d \in Calls : Attends(d, v)'
  <2>1. call[c].w = w /\ Others(c) /\ status'[w] # "PROCESSING" /\ dropped' = dropped
    BY <1>2, CallEffect
    DEF CreateWithdrawal, Reject, MarkFailed, At, Gone, TypeOK, StatusAfterCatch
  <2>2. v # w /\ status[v] = "PROCESSING"
    BY <1>2, <2>1 DEF CreateWithdrawal, Reject, MarkFailed, StatusAfterCatch, TypeOK
  <2> QED BY <2>1, <2>2, <1>h DEF Others
<1>3. ASSUME NEW c \in Calls, NEW w \in Withdrawals, Claim(c, w)
      PROVE  \E d \in Calls : Attends(d, v)'
  <2>1. Moved(c, w, "debit") /\ call[c].pc = "claim" /\ dropped' = dropped
    BY <1>3, CallEffect DEF Claim, At, Busy
  <2>2. CASE v = w
    BY <2>1, <2>2 DEF Moved
  <2>3. CASE v # w
    <3>1. status[v] = "PROCESSING"
      BY <1>3, <2>3 DEF Claim, TypeOK
    <3> QED BY <2>1, <3>1, <1>h DEF Moved, Others
  <2> QED BY <2>2, <2>3
<1>4. ASSUME NEW c \in Calls, NEW w \in Withdrawals, Debit(c, w) \/ RefuseDebit(c, w) \/ Transfer(c, w)
      PROVE  \E d \in Calls : Attends(d, v)'
  <2>1. \E s \in {"transfer", "complete", "fail", "creditBack"} : Moved(c, w, s)
    BY <1>4, CallEffect DEF Debit, RefuseDebit, Transfer, Busy
  <2>2. call[c].w = w /\ UNCHANGED <<status, dropped>>
    BY <1>4 DEF Debit, RefuseDebit, Transfer, At
  <2> QED BY <2>1, <2>2, <1>h DEF Moved, Others
<1>5. ASSUME NEW c \in Calls, NEW w \in Withdrawals, Record(c, w)
      PROVE  \E d \in Calls : Attends(d, v)'
  <2>1. call[c].w = w /\ Others(c) /\ dropped' = dropped
    BY <1>5, CallEffect DEF Record, At, Gone, Moved, Busy
  <2>2. v # w /\ status[v] = "PROCESSING"
    BY <1>5 DEF Record, TypeOK
  <2> QED BY <2>1, <2>2, <1>h DEF Others
<1>6. ASSUME NEW c \in Calls, NEW w \in Withdrawals, Credit(c, w)
      PROVE  \E d \in Calls : Attends(d, v)'
  <2>1. call[c].pc = "credit" /\ Others(c) /\ UNCHANGED <<status, dropped>>
    BY <1>6, CallEffect DEF Credit, At, Gone, Moved, Busy
  <2> QED BY <2>1, <1>h DEF Others
<1>7. ASSUME NEW c \in Calls, NEW w \in Withdrawals, CreditBack(c, w)
      PROVE  \E d \in Calls : Attends(d, v)'
  <2>1. /\ call[c].w = w /\ status' = status
        /\ \/ Moved(c, w, "failed") /\ dropped' = dropped
           \/ Others(c) /\ dropped' = dropped \cup {w}
    BY <1>7, CallEffect DEF CreditBack, At, Gone, Drop, Busy
  <2> QED BY <2>1, <1>h DEF Moved, Others
<1>8. ASSUME NEW c \in Calls, NEW w \in Withdrawals, StatementThrows(c, w)
      PROVE  \E d \in Calls : Attends(d, v)'
  <2>1. /\ call[c].w = w /\ status' = status
        /\ \/ Moved(c, w, "creditBack") /\ dropped' = dropped
           \/ Others(c) /\ dropped' = dropped \cup {w}
    BY <1>8, CallEffect DEF StatementThrows, Gone, Drop, Busy
  <2> QED BY <2>1, <1>h DEF Moved, Others
<1>9. ASSUME NEW w \in Withdrawals, NEW s \in Final, OverrideStatus(w, s)
      PROVE  \E d \in Calls : Attends(d, v)'
  <2>1. status[v] = "PROCESSING" /\ UNCHANGED <<call, dropped>>
    BY <1>9 DEF OverrideStatus, TypeOK, Final
  <2> QED BY <2>1, <1>h
<1>10. CASE Crash
  <2>1. \A d \in Calls : call[d].pc # "idle" => call[d].w \in dropped'
    BY <1>10 DEF Crash
  <2>2. \A d \in Calls : ~ Attends(d, v)
    BY <2>1
  <2>3. status[v] = "PROCESSING" /\ v \notin dropped
    BY <1>10 DEF Crash
  <2> QED BY <2>2, <2>3, <1>h
<1>11. CASE UNCHANGED vars
  BY <1>11, <1>h DEF vars
<1> QED
  BY <1>1, <1>2, <1>3, <1>4, <1>5, <1>6, <1>7, <1>8, <1>9, <1>10, <1>11 DEF Next, CallStep

\* A withdrawal is left in PROCESSING only when its approval was cut off, for
\* any number of approvals, rejections and overrides of the same row.
THEOREM NoneLeftProcessing == Spec => []ProcessingIsAttended
<1>1. Init => Attended
  BY DEF Init, Attended
<1>2. TypeOK /\ Attended /\ [Next]_vars => Attended'
  BY AttendedStep
<1>3. Attended => ProcessingIsAttended
  BY DEF Attended, Attends, Unrecorded, ProcessingIsAttended, InFlight
<1> QED BY <1>1, <1>2, <1>3, Typing, PTL DEF Spec
-----------------------------------------------------------------------------
(* UnpaidGetsMoneyBack                                                     *)

\* A call that records a success is for a withdrawal the provider executed.
PaidAfterTransfer ==
    \A c \in Calls : call[c].pc = "complete" => call[c].w \in paid

\* The calls that took money for w and are still to have it paid or returned, in
\* the try block or in the catch block.
Owes(c, w) == call[c].pc \in {"transfer", "fail", "credit", "creditBack"} /\ call[c].w = w
Owing(w)   == {c \in Calls : Owes(c, w)}

\* Credits may run ahead of debits: the catch block credits on a refused debit.
Owed ==
    \A w \in Withdrawals \ (paid \cup dropped) :
        books[w].credits + Cardinality(Owing(w)) >= books[w].debits

LEMMA OwingCount ==
    ASSUME NEW w
    PROVE  /\ IsFiniteSet(Owing(w)) /\ Cardinality(Owing(w)) \in Nat
           /\ \A c \in Calls \ Owing(w) : Cardinality(Owing(w) \cup {c}) = Cardinality(Owing(w)) + 1
           /\ \A c \in Owing(w) : Cardinality(Owing(w) \ {c}) = Cardinality(Owing(w)) - 1
<1>1. IsFiniteSet(Owing(w))
  BY WithdrawalsAssumption, FS_Subset DEF Owing
<1>2. Cardinality(Owing(w)) \in Nat
  BY <1>1, FS_CardinalityType
<1>3. \A c \in Calls \ Owing(w) : Cardinality(Owing(w) \cup {c}) = Cardinality(Owing(w)) + 1
  BY <1>1, FS_AddElement
<1>4. \A c \in Owing(w) : Cardinality(Owing(w) \ {c}) = Cardinality(Owing(w)) - 1
  BY <1>1, FS_RemoveElement
<1> QED BY <1>1, <1>2, <1>3, <1>4

\* The provider pays only in the transfer step of an approval.
LEMMA PaidAfterTransferStep ==
    ASSUME TypeOK, PaidAfterTransfer, [Next]_vars
    PROVE  PaidAfterTransfer'
<1> SUFFICES ASSUME NEW d \in Calls, call'[d].pc = "complete"
             PROVE  call'[d].w \in paid'
  BY DEF PaidAfterTransfer
<1>h. ASSUME call'[d] = call[d], paid \subseteq paid'
      PROVE  call'[d].w \in paid'
  BY <1>h DEF PaidAfterTransfer
<1>1. ASSUME NEW c \in Calls, NEW w \in Withdrawals, CheckBalance(c, w) \/ ReadPending(c, w)
      PROVE  call'[d].w \in paid'
  <2>1. paid' = paid /\ \E s \in {"insert", "claim", "cancel"} : Moved(c, w, s)
    BY <1>1, CallEffect DEF CheckBalance, ReadPending, Start, Busy
  <2> QED BY <2>1, <1>h DEF Moved, Others
<1>2. ASSUME NEW c \in Calls, NEW w \in Withdrawals, CreateWithdrawal(c, w) \/ Reject(c, w) \/ MarkFailed(c, w)
      PROVE  call'[d].w \in paid'
  <2>1. paid' = paid /\ Gone(c)
    BY <1>2, CallEffect DEF CreateWithdrawal, Reject, MarkFailed
  <2> QED BY <2>1, <1>h DEF Gone, Others
<1>3. ASSUME NEW c \in Calls, NEW w \in Withdrawals,
             Claim(c, w) \/ Debit(c, w) \/ RefuseDebit(c, w) \/ CreditBack(c, w) \/ StatementThrows(c, w)
      PROVE  call'[d].w \in paid'
  <2>1. paid' = paid /\ (Gone(c) \/ \E s \in {"debit", "transfer", "creditBack", "failed"} : Moved(c, w, s))
    BY <1>3, CallEffect DEF Claim, Debit, RefuseDebit, CreditBack, StatementThrows, Busy
  <2> QED BY <2>1, <1>h DEF Gone, Moved, Others
<1>4. ASSUME NEW c \in Calls, NEW w \in Withdrawals, Transfer(c, w)
      PROVE  call'[d].w \in paid'
  <2>1. /\ paid \subseteq paid'
        /\ \/ \E s \in {"fail", "creditBack"} : Moved(c, w, s)
           \/ w \in paid' /\ Moved(c, w, "complete")
    BY <1>4, CallEffect DEF Transfer, Busy
  <2> QED BY <2>1, <1>h DEF Moved, Others
<1>5. ASSUME NEW c \in Calls, NEW w \in Withdrawals, Record(c, w) \/ Credit(c, w)
      PROVE  call'[d].w \in paid'
  <2>1. /\ paid' = paid
        /\ Gone(c) \/ \E s \in {"credit", "creditBack"} : Moved(c, w, s)
    BY <1>5, CallEffect DEF Record, Credit, Busy
  <2> QED BY <2>1, <1>h DEF Gone, Moved, Others
<1>6. ASSUME NEW w \in Withdrawals, NEW s \in Final, OverrideStatus(w, s)
      PROVE  call'[d].w \in paid'
  BY <1>6, <1>h DEF OverrideStatus
<1>7. CASE Crash
  BY <1>7 DEF Crash, Idle
<1>8. CASE UNCHANGED vars
  BY <1>8, <1>h DEF vars
<1> QED BY <1>1, <1>2, <1>3, <1>4, <1>5, <1>6, <1>7, <1>8 DEF Next, CallStep

\* Whoever leaves an owing step without returning the money marks the row paid
\* or dropped.
LEMMA OwedStep ==
    ASSUME TypeOK, PaidAfterTransfer, Owed, [Next]_vars
    PROVE  Owed'
<1> SUFFICES ASSUME NEW v \in Withdrawals, v \notin paid', v \notin dropped'
             PROVE  books'[v].credits + Cardinality(Owing(v)') >= books'[v].debits
  BY DEF Owed
<1> DEFINE Goal == books'[v].credits + Cardinality(Owing(v)') >= books'[v].debits
<1>n. /\ books[v].credits \in Nat /\ books[v].debits \in Nat
      /\ Cardinality(Owing(v)) \in Nat
  BY OwingCount DEF TypeOK
<1>m. paid \subseteq paid' /\ dropped \subseteq dropped'
  BY DEF Next, CallStep, CheckBalance, ReadPending, CreateWithdrawal, Reject, Claim, Debit, RefuseDebit,
         Transfer, Record, Credit, CreditBack, MarkFailed, StatementThrows, OverrideStatus, Crash, Drop, vars
<1>o. books[v].credits + Cardinality(Owing(v)) >= books[v].debits
  BY <1>m DEF Owed
\* Three ways to keep the balance of what is owed.
<1>same. ASSUME books'[v].credits \in {books[v].credits, books[v].credits + 1},
                books'[v].debits = books[v].debits,
                \A d \in Calls : Owes(d, v)' <=> Owes(d, v)
         PROVE  Goal
  <2>1. Owing(v)' = Owing(v)
    BY <1>same DEF Owing
  <2> QED BY <2>1, <1>same, <1>o, <1>n
<1>more. ASSUME NEW c \in Calls, ~ Owes(c, v), Owes(c, v)',
                \A d \in Calls \ {c} : Owes(d, v)' <=> Owes(d, v),
                books'[v].credits = books[v].credits,
                books'[v].debits \in {books[v].debits, books[v].debits + 1}
         PROVE  Goal
  <2>1. Owing(v)' = Owing(v) \cup {c} /\ c \notin Owing(v)
    BY <1>more DEF Owing
  <2>2. Cardinality(Owing(v)') = Cardinality(Owing(v)) + 1
    BY <2>1, OwingCount
  <2> QED BY <2>2, <1>more, <1>o, <1>n
<1>less. ASSUME NEW c \in Calls, Owes(c, v), ~ Owes(c, v)',
                \A d \in Calls \ {c} : Owes(d, v)' <=> Owes(d, v),
                books'[v].credits = books[v].credits + 1,
                books'[v].debits = books[v].debits
         PROVE  Goal
  <2>1. Owing(v)' = Owing(v) \ {c} /\ c \in Owing(v)
    BY <1>less DEF Owing
  <2>2. Cardinality(Owing(v)') = Cardinality(Owing(v)) - 1
    BY <2>1, OwingCount
  <2> QED BY <2>2, <1>less, <1>o, <1>n
<1> HIDE DEF Goal
<1> USE DEF Owes
<1>1. ASSUME NEW c \in Calls, NEW w \in Withdrawals, CheckBalance(c, w) \/ ReadPending(c, w)
      PROVE  Goal
  <2>1. /\ books' = books /\ call[c].pc = "idle"
        /\ \E s \in {"insert", "claim", "cancel"} : Moved(c, w, s)
    BY <1>1, CallEffect DEF CheckBalance, ReadPending, Start, Busy
  <2> QED BY <2>1, <1>same DEF Moved, Others
<1>2. ASSUME NEW c \in Calls, NEW w \in Withdrawals,
             CreateWithdrawal(c, w) \/ Reject(c, w) \/ Claim(c, w) \/ MarkFailed(c, w)
      PROVE  Goal
  <2>1. /\ books' = books /\ call[c].pc \in {"insert", "cancel", "claim", "failed"}
        /\ Gone(c) \/ Moved(c, w, "debit")
    BY <1>2, CallEffect DEF CreateWithdrawal, Reject, Claim, MarkFailed, At, Busy
  <2> QED BY <2>1, <1>same DEF Gone, Moved, Others
<1>3. ASSUME NEW c \in Calls, NEW w \in Withdrawals, Debit(c, w) \/ RefuseDebit(c, w)
      PROVE  Goal
  <2>1. /\ call[c].pc = "debit" /\ call[c].w = w
        /\ \E s \in {"transfer", "creditBack"} : Moved(c, w, s)
    BY <1>3, CallEffect DEF Debit, RefuseDebit, At, Busy
  <2>2. /\ v # w => books'[v] = books[v]
        /\ books'[v].credits = books[v].credits
        /\ books'[v].debits \in {books[v].debits, books[v].debits + 1}
    BY <1>3 DEF Debit, RefuseDebit, TakeMoney, TypeOK
  <2>3. CASE v = w
    BY <2>1, <2>2, <2>3, <1>more DEF Moved, Others
  <2>4. CASE v # w
    BY <2>1, <2>2, <2>4, <1>same DEF Moved, Others
  <2> QED BY <2>3, <2>4
<1>4. ASSUME NEW c \in Calls, NEW w \in Withdrawals, Transfer(c, w)
      PROVE  Goal
  <2>1. /\ books' = books /\ call[c].pc = "transfer" /\ call[c].w = w
        /\ \/ \E s \in {"fail", "creditBack"} : Moved(c, w, s)
           \/ w \in paid' /\ Moved(c, w, "complete")
    BY <1>4, CallEffect DEF Transfer, At, Busy
  <2> QED BY <2>1, <1>same DEF Moved, Others
<1>5a. ASSUME NEW c \in Calls, NEW w \in Withdrawals, Record(c, w)
       PROVE  Goal
  <2>1. /\ books' = books /\ call[c].w = w
        /\ \/ call[c].pc = "complete" /\ Gone(c)
           \/ call[c].pc = "fail" /\ Moved(c, w, "credit")
    BY <1>5a, CallEffect DEF Record, At, Busy
  <2>2. call[c].pc = "complete" => v # w
    BY <2>1, <1>m DEF PaidAfterTransfer
  <2> QED BY <2>1, <2>2, <1>same DEF Gone, Moved, Others
<1>5b. ASSUME NEW c \in Calls, NEW w \in Withdrawals, Credit(c, w)
       PROVE  Goal
  <2>1. /\ call[c].pc = "credit" /\ call[c].w = w
        /\ Gone(c) \/ Moved(c, w, "creditBack")
    BY <1>5b, CallEffect DEF Credit, At, Busy
  <2>2. /\ v # w => books'[v] = books[v]
        /\ v = w => /\ books'[v].credits = books[v].credits + 1
                    /\ books'[v].debits = books[v].debits
    BY <1>5b DEF Credit, CreditedInTry, ReturnMoney, TypeOK
  <2>3. CASE v = w /\ Gone(c)
    BY <2>1, <2>2, <2>3, <1>less DEF Gone, Others
  <2>4. CASE v = w /\ Moved(c, w, "creditBack")
    BY <2>1, <2>2, <2>4, <1>same DEF Moved, Others
  <2>5. CASE v # w
    BY <2>1, <2>2, <2>5, <1>same DEF Gone, Moved, Others
  <2> QED BY <2>1, <2>3, <2>4, <2>5
<1>6. ASSUME NEW c \in Calls, NEW w \in Withdrawals, CreditBack(c, w)
      PROVE  Goal
  <2>1. /\ call[c].pc = "creditBack" /\ call[c].w = w
        /\ Gone(c) \/ Moved(c, w, "failed")
    BY <1>6, CallEffect DEF CreditBack, At, Busy
  <2>2. /\ v # w => books'[v] = books[v]
        /\ v = w => /\ books'[v].credits = books[v].credits + 1
                    /\ books'[v].debits = books[v].debits
    BY <1>6 DEF CreditBack, CreditedBack, ReturnMoney, TypeOK
  <2>3. CASE v = w
    BY <2>1, <2>2, <2>3, <1>less DEF Gone, Moved, Others
  <2>4. CASE v # w
    BY <2>1, <2>2, <2>4, <1>same DEF Gone, Moved, Others
  <2> QED BY <2>3, <2>4
<1>7. ASSUME NEW c \in Calls, NEW w \in Withdrawals, StatementThrows(c, w)
      PROVE  Goal
  <2>1. /\ books' = books /\ call[c].pc # "idle" /\ call[c].w = w
        /\ \/ call[c].pc \in {"debit", "complete", "fail", "credit"} /\ Moved(c, w, "creditBack")
           \/ w \in dropped' /\ Others(c) /\ Gone(c)
    BY <1>7, CallEffect DEF StatementThrows, Drop, Gone, Busy
  <2>2. CASE v = w
    <3>1. Moved(c, w, "creditBack") /\ call[c].pc \in {"debit", "fail", "credit"}
      BY <2>1, <2>2, <1>m DEF PaidAfterTransfer
    <3>2. CASE call[c].pc = "debit"
      BY <2>1, <2>2, <3>1, <3>2, <1>more DEF Moved, Others
    <3>3. CASE call[c].pc \in {"fail", "credit"}
      BY <2>1, <2>2, <3>1, <3>3, <1>same DEF Moved, Others
    <3> QED BY <3>1, <3>2, <3>3
  <2>3. CASE v # w
    BY <2>1, <2>3, <1>same DEF Gone, Moved, Others
  <2> QED BY <2>2, <2>3
<1>8. ASSUME NEW w \in Withdrawals, NEW s \in Final, OverrideStatus(w, s)
      PROVE  Goal
  BY <1>8, <1>same DEF OverrideStatus
<1>9. ASSUME Crash PROVE Goal
  <2>1. \A d \in Calls : call[d].pc # "idle" => call[d].w \in dropped'
    BY <1>9 DEF Crash
  <2>2. \A d \in Calls : ~ Owes(d, v) /\ ~ Owes(d, v)'
    BY <1>9, <2>1 DEF Crash, Idle
  <2> QED BY <1>9, <2>2, <1>same DEF Crash
<1>10. ASSUME UNCHANGED vars PROVE Goal
  BY <1>10, <1>same DEF vars
<1>q. Goal
  BY <1>1, <1>2, <1>3, <1>4, <1>5a, <1>5b, <1>6, <1>7, <1>8, <1>9, <1>10 DEF Next, CallStep
<1> QED BY <1>q DEF Goal

\* Money taken for a withdrawal that the provider did not pay is back on the
\* wallet when its approval ends, for any number of requests and any faults
\* that do not cut the approval off: by the credit of the try block when the
\* provider answered, by the one of the catch block when something threw.
THEOREM FailureReturnsMoney == Spec => []UnpaidGetsMoneyBack
<1>1. Init => PaidAfterTransfer /\ Owed
  <2> SUFFICES ASSUME Init PROVE PaidAfterTransfer /\ Owed
    OBVIOUS
  <2>1. \A w \in Withdrawals : books[w].credits = 0 /\ books[w].debits = 0
    BY DEF Init
  <2>2. \A w \in Withdrawals : Cardinality(Owing(w)) \in Nat
    BY OwingCount
  <2> QED BY <2>1, <2>2 DEF Init, PaidAfterTransfer, Owed, Idle
<1>2. TypeOK /\ PaidAfterTransfer /\ Owed /\ [Next]_vars => PaidAfterTransfer' /\ Owed'
  BY PaidAfterTransferStep, OwedStep
<1>3. TypeOK /\ Owed => UnpaidGetsMoneyBack
  <2> SUFFICES ASSUME TypeOK, Owed, NEW w \in Withdrawals \ (paid \cup dropped), ~ InFlight(w)
               PROVE  books[w].credits >= books[w].debits
    BY DEF UnpaidGetsMoneyBack
  <2>1. Owing(w) = {}
    BY DEF Owing, Owes, InFlight
  <2>2. Cardinality(Owing(w)) = 0
    BY <2>1, FS_EmptySet
  <2> QED BY <2>2 DEF Owed, TypeOK
<1> QED BY <1>1, <1>2, <1>3, Typing, PTL DEF Spec
-----------------------------------------------------------------------------
(* UnmarredBooksBalance                                                    *)

Approving      == {"debit", "transfer", "complete", "fail", "credit", "creditBack", "failed"}
Approves(c, w) == call[c].pc \in Approving /\ call[c].w = w
Out(w)         == books[w].debits - books[w].credits

\* Nothing has happened on behalf of a row that nobody claimed, marred or not.
Untouched ==
    \A w \in Withdrawals : status[w] \in {"none", "PENDING"} =>
        /\ w \notin paid
        /\ books[w].debits = 0 /\ books[w].credits = 0
        /\ \A c \in Calls : ~ Approves(c, w)

\* An unmarred row has at most one approval, and its books say where that is.
Straight(w) ==
    /\ \A c, d \in Calls : Approves(c, w) /\ Approves(d, w) => c = d
    /\ \A c \in Calls : Approves(c, w) =>
          (call[c].pc = "complete" <=> w \in paid)
    /\ Out(w) = IF w \in paid \/ \E c \in Calls : Owes(c, w) THEN 1 ELSE 0

UnmarredStraight == \A w \in Withdrawals \ marred : Straight(w)

LEMMA UntouchedStep ==
    ASSUME TypeOK, Untouched, [Next]_vars
    PROVE  Untouched'
<1> SUFFICES ASSUME NEW v \in Withdrawals, status'[v] \in {"none", "PENDING"}
             PROVE  /\ v \notin paid'
                    /\ books'[v].debits = 0 /\ books'[v].credits = 0
                    /\ \A d \in Calls : ~ Approves(d, v)'
  BY DEF Untouched
<1> DEFINE Goal == /\ v \notin paid'
                   /\ books'[v].debits = 0 /\ books'[v].credits = 0
                   /\ \A d \in Calls : ~ Approves(d, v)'
<1>h. ASSUME status[v] \in {"none", "PENDING"}, v \in paid' => v \in paid, books'[v] = books[v],
             \A d \in Calls : Approves(d, v)' => Approves(d, v)
      PROVE  Goal
  BY <1>h DEF Untouched
<1>a. ASSUME status[v] \in {"none", "PENDING"}
      PROVE  \A d \in Calls : call[d].pc \in Approving => call[d].w # v
  BY <1>a DEF Untouched, Approves
<1> HIDE DEF Goal
<1> USE DEF Approves, Approving
<1>1. ASSUME NEW c \in Calls, NEW w \in Withdrawals, CheckBalance(c, w) \/ ReadPending(c, w)
      PROVE  Goal
  <2>1. /\ UNCHANGED <<status, books, paid>>
        /\ \E s \in {"insert", "claim", "cancel"} : Moved(c, w, s)
    BY <1>1, CallEffect DEF CheckBalance, ReadPending, Start, Busy
  <2> QED BY <2>1, <1>h DEF Moved, Others
<1>2. ASSUME NEW c \in Calls, NEW w \in Withdrawals, CreateWithdrawal(c, w) \/ Reject(c, w) \/ MarkFailed(c, w)
      PROVE  Goal
  <2>1. UNCHANGED <<books, paid>> /\ Gone(c)
    BY <1>2, CallEffect DEF CreateWithdrawal, Reject, MarkFailed
  <2>2. status[v] \in {"none", "PENDING"}
    BY <1>2 DEF CreateWithdrawal, Reject, MarkFailed, StatusAfterCatch, TypeOK
  <2> QED BY <2>1, <2>2, <1>h DEF Gone, Others
<1>3. ASSUME NEW c \in Calls, NEW w \in Withdrawals, Claim(c, w)
      PROVE  Goal
  <2>1. UNCHANGED <<books, paid>> /\ Moved(c, w, "debit")
    BY <1>3, CallEffect DEF Claim, Busy
  <2>2. v # w /\ status[v] \in {"none", "PENDING"}
    BY <1>3 DEF Claim, TypeOK
  <2> QED BY <2>1, <2>2, <1>h DEF Moved, Others
<1>4. ASSUME NEW c \in Calls, NEW w \in Withdrawals,
             \/ Debit(c, w) \/ RefuseDebit(c, w) \/ Transfer(c, w)
             \/ Record(c, w) \/ Credit(c, w) \/ CreditBack(c, w)
      PROVE  Goal
  <2>1. call[c].w = w /\ call[c].pc \in Approving
    BY <1>4 DEF Debit, RefuseDebit, Transfer, Record, Credit, CreditBack, At
  <2>2. status[v] \in {"none", "PENDING"}
    BY <1>4 DEF Debit, RefuseDebit, Transfer, Record, Credit, CreditBack, TypeOK
  <2>3. v # w
    BY <2>1, <2>2, <1>a
  <2>4. books'[v] = books[v] /\ (v \in paid' => v \in paid)
    BY <1>4, <2>3
    DEF Debit, RefuseDebit, Transfer, Record, Credit, CreditedInTry, CreditBack, CreditedBack, TakeMoney,
        ReturnMoney, TypeOK
  <2>5. Gone(c) \/ \E s \in Busy : Moved(c, w, s)
    BY <1>4, CallEffect DEF Debit, RefuseDebit, Transfer, Record, Credit, CreditBack, Busy
  <2> QED BY <2>2, <2>3, <2>4, <2>5, <1>h DEF Gone, Moved, Others
<1>5. ASSUME NEW c \in Calls, NEW w \in Withdrawals, StatementThrows(c, w)
      PROVE  Goal
  <2>1. /\ UNCHANGED <<status, books, paid>> /\ call[c].w = w
        /\ \/ Gone(c)
           \/ call[c].pc \in {"debit", "complete", "fail", "credit"} /\ Moved(c, w, "creditBack")
    BY <1>5, CallEffect DEF StatementThrows, Busy
  <2> QED BY <2>1, <1>h DEF Gone, Moved, Others
<1>6. ASSUME NEW w \in Withdrawals, NEW s \in Final, OverrideStatus(w, s)
      PROVE  Goal
  <2>1. status[v] \in {"none", "PENDING"} /\ UNCHANGED <<books, paid, call>>
    BY <1>6 DEF OverrideStatus, Final, TypeOK
  <2> QED BY <2>1, <1>h
<1>7. ASSUME Crash PROVE Goal
  BY <1>7, <1>h DEF Crash, Idle
<1>8. ASSUME UNCHANGED vars PROVE Goal
  BY <1>8, <1>h DEF vars
<1>q. Goal
  BY <1>1, <1>2, <1>3, <1>4, <1>5, <1>6, <1>7, <1>8 DEF Next, CallStep
<1> QED BY <1>q DEF Goal

\* The books of a withdrawal that met no fault are straight at every step.
LEMMA StraightStep ==
    ASSUME TypeOK, Untouched, UnmarredStraight, [Next]_vars
    PROVE  UnmarredStraight'
<1> SUFFICES ASSUME NEW v \in Withdrawals, v \notin marred'
             PROVE  Straight(v)'
  BY DEF UnmarredStraight
<1>n. books[v].credits \in Nat /\ books[v].debits \in Nat
  BY DEF TypeOK
<1>m. v \notin marred
  BY DEF Next, CallStep, CheckBalance, ReadPending, CreateWithdrawal, Reject, Claim, Debit, RefuseDebit,
         Transfer, Record, Credit, CreditBack, MarkFailed, StatementThrows, OverrideStatus, Crash, Mar, vars
<1>s. Straight(v)
  BY <1>m DEF UnmarredStraight
<1> USE DEF Approves, Approving, Owes
\* Either nothing about v changes, ...
<1>same. ASSUME v \in paid' <=> v \in paid, books'[v] = books[v],
                \A d \in Calls : Approves(d, v) \/ Approves(d, v)' => call'[d] = call[d]
         PROVE  Straight(v)'
  <2>1. \A d \in Calls : (Owes(d, v)' <=> Owes(d, v)) /\ (Approves(d, v)' <=> Approves(d, v))
    BY <1>same
  <2>2. Out(v)' = Out(v)
    BY <1>same DEF Out
  <2>3. (\E d \in Calls : Owes(d, v)') <=> (\E d \in Calls : Owes(d, v))
    BY <2>1
  <2>4. \A d \in Calls : Approves(d, v)' => call'[d].pc = call[d].pc
    BY <1>same
  <2> HIDE DEF Approves, Approving, Owes
  <2> QED BY <1>same, <2>1, <2>2, <2>3, <2>4, <1>s DEF Straight
\* ... or the step is one of the only approval of v.
<1>only. ASSUME NEW c \in Calls, Approves(c, v), Others(c)
         PROVE  \A d \in Calls \ {c} : ~ Approves(d, v)'
  BY <1>only, <1>s DEF Straight, Others
<1>alone. ASSUME NEW c \in Calls, \A d \in Calls \ {c} : ~ Approves(d, v)',
                 \/ ~ Approves(c, v)' /\ Out(v)' = IF v \in paid' THEN 1 ELSE 0
                 \/ call'[c].pc \in {"debit", "failed"} /\ v \notin paid' /\ Out(v)' = 0
                 \/ /\ call'[c].pc \in {"transfer", "fail", "credit", "creditBack"} /\ call'[c].w = v
                    /\ v \notin paid' /\ Out(v)' = 1
                 \/ call'[c].pc = "complete" /\ v \in paid' /\ Out(v)' = 1
          PROVE  Straight(v)'
  <2>1. \A d \in Calls : Owes(d, v)' => d = c /\ Approves(d, v)'
    BY <1>alone
  <2> QED BY <2>1, <1>alone DEF Straight
\* What the books of v say at the step of its approval.
<1>at. ASSUME NEW c \in Calls, Approves(c, v)
       PROVE  /\ call[c].pc \in {"debit", "failed"} => v \notin paid /\ Out(v) = 0
              /\ call[c].pc \in {"transfer", "fail", "credit", "creditBack"} => v \notin paid /\ Out(v) = 1
              /\ call[c].pc = "complete" => v \in paid /\ Out(v) = 1
  <2>1. \A d \in Calls : Owes(d, v) => Approves(d, v)
    OBVIOUS
  <2>2. \A d \in Calls : Owes(d, v) => d = c
    BY <2>1, <1>at, <1>s DEF Straight
  <2> QED BY <2>2, <1>at, <1>s DEF Straight
<1>1. ASSUME NEW c \in Calls, NEW w \in Withdrawals, CheckBalance(c, w) \/ ReadPending(c, w)
      PROVE  Straight(v)'
  <2>1. /\ UNCHANGED <<books, paid>> /\ call[c].pc = "idle"
        /\ \E s \in {"insert", "claim", "cancel"} : Moved(c, w, s)
    BY <1>1, CallEffect DEF CheckBalance, ReadPending, Start, Busy
  <2> QED BY <2>1, <1>same DEF Moved, Others
<1>2. ASSUME NEW c \in Calls, NEW w \in Withdrawals, CreateWithdrawal(c, w) \/ Reject(c, w)
      PROVE  Straight(v)'
  <2>1. UNCHANGED <<books, paid>> /\ Gone(c) /\ call[c].pc \in {"insert", "cancel"}
    BY <1>2, CallEffect DEF CreateWithdrawal, Reject, At
  <2> QED BY <2>1, <1>same DEF Gone, Others
<1>3. ASSUME NEW c \in Calls, NEW w \in Withdrawals, Claim(c, w)
      PROVE  Straight(v)'
  <2>1. UNCHANGED <<books, paid>> /\ Moved(c, w, "debit") /\ call[c].pc = "claim"
    BY <1>3, CallEffect DEF Claim, At, Busy
  <2>2. CASE v # w
    BY <2>1, <2>2, <1>same DEF Moved, Others
  <2>3. CASE v = w
    <3>1. status[v] = "PENDING"
      BY <1>3, <2>3 DEF Claim, Mar
    <3>2. v \notin paid /\ books[v].debits = 0 /\ books[v].credits = 0 /\ \A d \in Calls : ~ Approves(d, v)
      BY <3>1 DEF Untouched
    <3>3. Out(v)' = 0
      BY <2>1, <3>2 DEF Out
    <3>4. \A d \in Calls \ {c} : ~ Approves(d, v)'
      BY <2>1, <3>2 DEF Moved, Others
    <3> QED BY <2>1, <3>2, <3>3, <3>4, <1>alone DEF Moved
  <2> QED BY <2>2, <2>3
<1>4. ASSUME NEW c \in Calls, NEW w \in Withdrawals, Debit(c, w)
      PROVE  Straight(v)'
  <2>1. /\ paid' = paid /\ call[c].pc = "debit" /\ call[c].w = w
        /\ Moved(c, w, "transfer") \/ (Moved(c, w, "creditBack") /\ w \in marred')
    BY <1>4, CallEffect DEF Debit, At, Mar, Busy
  <2>2. CASE v # w
    <3>1. books'[v] = books[v]
      BY <1>4, <2>2 DEF Debit, TakeMoney, TypeOK
    <3> QED BY <2>1, <2>2, <3>1, <1>same DEF Moved, Others
  <2>3. CASE v = w
    <3>1. Out(v)' = Out(v) + 1
      BY <1>4, <2>3, <1>n DEF Debit, TakeMoney, TypeOK, Out
    <3>2. Approves(c, v) /\ Moved(c, v, "transfer")
      BY <2>1, <2>3
    <3>3. Out(v) = 0 /\ v \notin paid
      BY <2>1, <3>2, <1>at
    <3>4. \A d \in Calls \ {c} : ~ Approves(d, v)'
      BY <3>2, <1>only DEF Moved
    <3> QED BY <2>1, <3>1, <3>2, <3>3, <3>4, <1>alone DEF Moved
  <2> QED BY <2>2, <2>3
<1>5. ASSUME NEW c \in Calls, NEW w \in Withdrawals, RefuseDebit(c, w)
      PROVE  Straight(v)'
  <2>1. UNCHANGED <<books, paid>> /\ call[c].w = w /\ w \in marred' /\ Moved(c, w, "creditBack")
    BY <1>5, CallEffect DEF RefuseDebit, At, Mar, Busy
  <2> QED BY <2>1, <1>same DEF Moved, Others
<1>6. ASSUME NEW c \in Calls, NEW w \in Withdrawals, Transfer(c, w)
      PROVE  Straight(v)'
  <2>1. /\ books' = books /\ call[c].pc = "transfer" /\ call[c].w = w
        /\ \/ Moved(c, w, "complete") /\ paid' = paid \cup {w}
           \/ /\ w \in marred' /\ paid' = paid \cup {w}
              /\ \E s \in {"fail", "creditBack"} : Moved(c, w, s)
           \/ paid' = paid /\ \E s \in {"fail", "creditBack"} : Moved(c, w, s)
    BY <1>6, CallEffect DEF Transfer, At, Mar, Busy
  <2>2. CASE v # w
    BY <2>1, <2>2, <1>same DEF Moved, Others
  <2>3. CASE v = w
    <3>1. Approves(c, v) /\ Out(v)' = Out(v)
      BY <2>1, <2>3 DEF Out
    <3>2. Out(v) = 1 /\ v \notin paid
      BY <2>1, <3>1, <1>at
    <3>3. \A d \in Calls \ {c} : ~ Approves(d, v)'
      BY <2>1, <3>1, <1>only DEF Moved
    <3> QED BY <2>1, <2>3, <3>1, <3>2, <3>3, <1>alone DEF Moved
  <2> QED BY <2>2, <2>3
<1>7a. ASSUME NEW c \in Calls, NEW w \in Withdrawals, Record(c, w)
       PROVE  Straight(v)'
  <2>1. /\ UNCHANGED <<books, paid>> /\ call[c].w = w
        /\ \/ call[c].pc = "complete" /\ Gone(c)
           \/ call[c].pc = "fail" /\ Moved(c, w, "credit")
    BY <1>7a, CallEffect DEF Record, At, Busy
  <2>2. CASE v # w
    BY <2>1, <2>2, <1>same DEF Gone, Moved, Others
  <2>3. CASE v = w
    <3>1. Approves(c, v) /\ Out(v)' = Out(v) /\ Out(v) = 1
      BY <2>1, <2>3, <1>at DEF Out
    <3>2. call[c].pc = "complete" <=> v \in paid
      BY <3>1, <1>s DEF Straight
    <3>3. \A d \in Calls \ {c} : ~ Approves(d, v)'
      BY <2>1, <3>1, <1>only DEF Gone, Moved
    <3> QED BY <2>1, <2>3, <3>1, <3>2, <3>3, <1>alone DEF Gone, Moved
  <2> QED BY <2>2, <2>3
<1>7b. ASSUME NEW c \in Calls, NEW w \in Withdrawals, Credit(c, w)
       PROVE  Straight(v)'
  <2>1. /\ paid' = paid /\ call[c].pc = "credit" /\ call[c].w = w
        /\ Gone(c) \/ (Moved(c, w, "creditBack") /\ w \in marred')
    BY <1>7b, CallEffect DEF Credit, At, Mar, Busy
  <2>2. CASE v # w
    <3>1. books'[v] = books[v]
      BY <1>7b, <2>2 DEF Credit, CreditedInTry, ReturnMoney, TypeOK
    <3> QED BY <2>1, <2>2, <3>1, <1>same DEF Gone, Moved, Others
  <2>3. CASE v = w
    <3>1. Out(v)' = Out(v) - 1
      BY <1>7b, <2>3, <1>n DEF Credit, CreditedInTry, ReturnMoney, TypeOK, Out
    <3>2. Approves(c, v) /\ Gone(c)
      BY <2>1, <2>3
    <3>3. Out(v) = 1 /\ v \notin paid
      BY <2>1, <3>2, <1>at
    <3>4. \A d \in Calls \ {c} : ~ Approves(d, v)'
      BY <3>2, <1>only DEF Gone
    <3> QED BY <2>1, <3>1, <3>2, <3>3, <3>4, <1>alone DEF Gone
  <2> QED BY <2>2, <2>3
<1>8. ASSUME NEW c \in Calls, NEW w \in Withdrawals, CreditBack(c, w)
      PROVE  Straight(v)'
  <2>1. /\ paid' = paid /\ call[c].pc = "creditBack" /\ call[c].w = w
        /\ Moved(c, w, "failed") \/ (Gone(c) /\ w \in marred')
    BY <1>8, CallEffect DEF CreditBack, At, Mar, Busy
  <2>2. CASE v # w
    <3>1. books'[v] = books[v]
      BY <1>8, <2>2 DEF CreditBack, CreditedBack, ReturnMoney, TypeOK
    <3> QED BY <2>1, <2>2, <3>1, <1>same DEF Gone, Moved, Others
  <2>3. CASE v = w
    <3>1. Out(v)' = Out(v) - 1
      BY <1>8, <2>3, <1>n DEF CreditBack, CreditedBack, ReturnMoney, TypeOK, Out
    <3>2. Approves(c, v) /\ Moved(c, v, "failed")
      BY <2>1, <2>3
    <3>3. Out(v) = 1 /\ v \notin paid
      BY <2>1, <3>2, <1>at
    <3>4. \A d \in Calls \ {c} : ~ Approves(d, v)'
      BY <3>2, <1>only DEF Moved
    <3> QED BY <2>1, <3>1, <3>2, <3>3, <3>4, <1>alone DEF Moved
  <2> QED BY <2>2, <2>3
<1>9. ASSUME NEW c \in Calls, NEW w \in Withdrawals, MarkFailed(c, w)
      PROVE  Straight(v)'
  <2>1. UNCHANGED <<books, paid>> /\ call[c].pc = "failed" /\ call[c].w = w /\ Gone(c)
    BY <1>9, CallEffect DEF MarkFailed, At
  <2>2. CASE v # w
    BY <2>1, <2>2, <1>same DEF Gone, Others
  <2>3. CASE v = w
    <3>1. Approves(c, v) /\ Out(v)' = Out(v)
      BY <2>1, <2>3 DEF Out
    <3>2. Out(v) = 0 /\ v \notin paid
      BY <2>1, <3>1, <1>at
    <3>3. \A d \in Calls \ {c} : ~ Approves(d, v)'
      BY <2>1, <3>1, <1>only DEF Gone
    <3> QED BY <2>1, <3>1, <3>2, <3>3, <1>alone DEF Gone
  <2> QED BY <2>2, <2>3
<1>10. ASSUME NEW c \in Calls, NEW w \in Withdrawals, StatementThrows(c, w)
       PROVE  Straight(v)'
  <2>1. /\ UNCHANGED <<books, paid>> /\ call[c].w = w /\ w \in marred'
        /\ Gone(c) \/ Moved(c, w, "creditBack")
    BY <1>10, CallEffect DEF StatementThrows, Mar, Busy
  <2> QED BY <2>1, <1>same DEF Gone, Moved, Others
<1>11. ASSUME NEW w \in Withdrawals, NEW s \in Final, OverrideStatus(w, s)
       PROVE  Straight(v)'
  BY <1>11, <1>same DEF OverrideStatus
<1>12. CASE Crash
  <2>1. \A d \in Calls : call[d].pc # "idle" => call[d].w \in marred'
    BY <1>12 DEF Crash
  <2>2. \A d \in Calls : ~ Approves(d, v) /\ ~ Approves(d, v)'
    BY <1>12, <2>1 DEF Crash, Idle
  <2> QED BY <1>12, <2>2, <1>same DEF Crash
<1>13. CASE UNCHANGED vars
  BY <1>13, <1>same DEF vars
<1> HIDE DEF Approves, Approving, Owes
<1> QED
  BY <1>1, <1>2, <1>3, <1>4, <1>5, <1>6, <1>7a, <1>7b, <1>8, <1>9, <1>10, <1>11, <1>12, <1>13 DEF Next, CallStep

\* The wallet is out exactly the withdrawals that were paid, unless a refused
\* debit, a second approval or a fault met them: whatever happens on the other
\* rows of the wallet, and whatever an administrator writes as the status.
THEOREM BooksBalance == Spec => []UnmarredBooksBalance
<1>1. Init => Untouched /\ UnmarredStraight
  BY DEF Init, Untouched, UnmarredStraight, Straight, Approves, Approving, Owes, Out, Idle
<1>2. TypeOK /\ Untouched /\ UnmarredStraight /\ [Next]_vars => Untouched' /\ UnmarredStraight'
  BY UntouchedStep, StraightStep
<1>3. UnmarredStraight => UnmarredBooksBalance
  BY DEF UnmarredStraight, Straight, Owes, Out, UnmarredBooksBalance, InFlight
<1> QED BY <1>1, <1>2, <1>3, Typing, PTL DEF Spec
-----------------------------------------------------------------------------
(* The provider's access token                                             *)

\* A token is used within the time to live that it was cached for, counted from
\* its issue and the time it waited to be cached, whoever cached it.
HeldInTime(c) ==
    /\ In(c, "set") =>
        request[c].token \in DOMAIN issued /\ request[c].since = issued[request[c].token]
    /\ In(c, "fetch") =>
        /\ request[c].token \in DOMAIN issued
        /\ request[c].since < issued[request[c].token] + request[c].waited + Ttl

CachedAfterIssue ==
    cached.token # 0 => cached.token \in DOMAIN issued /\ issued[cached.token] <= cached.at

TokenInv ==
    /\ ClientTypeOK
    /\ CachedAfterIssue
    /\ \A i \in DOMAIN issued : issued[i] <= clock
    /\ \A c \in Requests : HeldInTime(c)

LEMMA ProviderNumbers ==
    /\ Lifetime \in Nat /\ Margin \in Nat /\ MaxClock \in Nat /\ MaxTokens \in Nat
    /\ MinTtl \in Nat \ {0}
    /\ 0 \in 0..MaxClock /\ 0 \in 0..MaxTokens
BY ProviderAssumption

LEMMA TtlPositive == Ttl \in Nat \ {0}
BY ProviderNumbers DEF Ttl

\* A step that moves one request keeps what the others hold.
LEMMA OthersHold ==
    ASSUME TokenInv, ClientTypeOK', NEW c \in Requests,
           \A d \in Requests \ {c} : request'[d] = request[d],
           \A i \in DOMAIN issued : i \in DOMAIN issued' /\ issued'[i] = issued[i]
    PROVE  \A d \in Requests \ {c} : HeldInTime(d)'
<1> SUFFICES ASSUME NEW d \in Requests \ {c} PROVE HeldInTime(d)'
  OBVIOUS
<1> QED BY DEF TokenInv, HeldInTime, In

RequestRecords ==
    [pc : {"idle", "get", "authenticate", "set", "fetch", "refused"}, try : Tries,
     token : 0..MaxTokens, since : 0..MaxClock, waited : 0..MaxClock]

\* A step gives one request another record.
LEMMA RequestPut ==
    ASSUME ClientTypeOK, NEW c \in Requests, NEW r \in RequestRecords,
           request' = [request EXCEPT ![c] = r]
    PROVE  /\ request' \in [Requests -> RequestRecords]
           /\ request'[c] = r
           /\ \A d \in Requests \ {c} : request'[d] = request[d]
<1>1. request \in [Requests -> RequestRecords]
  BY DEF ClientTypeOK, RequestRecords
<1> QED BY <1>1

LEMMA NewRecords ==
    ASSUME NEW step \in {"idle", "get", "authenticate", "set", "fetch", "refused"}, NEW try \in Tries
    PROVE  /\ [NoRequest EXCEPT !.pc = step, !.try = try] \in RequestRecords
           /\ [NoRequest EXCEPT !.pc = step, !.try = try].pc = step
           /\ NoRequest \in RequestRecords /\ NoRequest.pc = "idle"
<1>1. NoRequest \in RequestRecords /\ NoRequest.pc = "idle"
  BY ProviderNumbers DEF NoRequest, RequestRecords, Tries
<1>2. ASSUME NEW r \in RequestRecords
      PROVE  [r EXCEPT !.pc = step, !.try = try] \in RequestRecords /\ [r EXCEPT !.pc = step, !.try = try].pc = step
  BY DEF RequestRecords
<1> QED BY <1>1, <1>2

\* What taking a token does to the requests.
LEMMA GoesOn ==
    ASSUME ClientTypeOK, NEW c \in Requests, NEW token \in 0..MaxTokens,
           NEW since \in 0..MaxClock, NEW waited \in 0..MaxClock,
           Goes(c, token, since, waited)
    PROVE  /\ request' \in [Requests -> RequestRecords]
           /\ \A d \in Requests \ {c} : request'[d] = request[d]
           /\ \/ request'[c].pc = "fetch" /\ request'[c].token = token
                 /\ request'[c].since = since /\ request'[c].waited = waited
              \/ request'[c].pc = "get"
<1>1. request[c] \in RequestRecords
  BY DEF ClientTypeOK, RequestRecords
<1>2. CASE request[c].try = "refresh"
  <2>1. request' = [request EXCEPT ![c] = [NoRequest EXCEPT !.pc = "get", !.try = "second"]]
    BY <1>2 DEF Goes, Becomes
  <2> QED BY <2>1, RequestPut, NewRecords DEF Tries
<1>3. CASE request[c].try # "refresh"
  <2>1. request' = [request EXCEPT ![c] =
            [request[c] EXCEPT !.pc = "fetch", !.token = token, !.since = since, !.waited = waited]]
    BY <1>3 DEF Goes, ClientTypeOK
  <2> DEFINE r == [request[c] EXCEPT !.pc = "fetch", !.token = token, !.since = since, !.waited = waited]
  <2>2. r \in RequestRecords /\ r.pc = "fetch" /\ r.token = token /\ r.since = since /\ r.waited = waited
    BY <1>1 DEF RequestRecords
  <2> HIDE DEF r
  <2>3. request' = [request EXCEPT ![c] = r]
    BY <2>1 DEF r
  <2> QED BY <2>2, <2>3, RequestPut
<1> QED BY <1>2, <1>3

\* Requests that take, cache and delete tokens keep it.
LEMMA TokenStep == TokenInv /\ [ClientNext]_clientVars => TokenInv'
<1> SUFFICES ASSUME TokenInv, [ClientNext]_clientVars PROVE TokenInv'
  OBVIOUS
<1> USE ProviderNumbers
<1>1. CASE UNCHANGED clientVars
  BY <1>1 DEF TokenInv, ClientTypeOK, CachedAfterIssue, HeldInTime, In, clientVars
<1>2. CASE TimePasses
  <2>1. ClientTypeOK'
    BY <1>2 DEF TokenInv, ClientTypeOK, TimePasses
  <2> QED BY <1>2, <2>1 DEF TokenInv, ClientTypeOK, CachedAfterIssue, HeldInTime, In, TimePasses
\* Requests that only move, and hold no token after it.
<1>3. ASSUME NEW c \in Requests, ClientTypeOK', clock' = clock, issued' = issued,
             cached' \in {cached, [cached EXCEPT !.token = 0]},
             \A d \in Requests \ {c} : request'[d] = request[d],
             request'[c].pc \notin {"set", "fetch"}
      PROVE  TokenInv'
  <2>1. \A d \in Requests : HeldInTime(d)'
    BY <1>3, OthersHold DEF HeldInTime, In
  <2>2. CachedAfterIssue' /\ \A i \in DOMAIN issued' : issued'[i] <= clock'
    BY <1>3 DEF TokenInv, ClientTypeOK, CachedAfterIssue
  <2> QED BY <1>3, <2>1, <2>2 DEF TokenInv
<1>t. ASSUME request' \in [Requests -> RequestRecords], UNCHANGED <<clock, issued>>,
             cached' \in [token : 0..MaxTokens, at : 0..MaxClock]
      PROVE  ClientTypeOK'
  BY <1>t DEF TokenInv, ClientTypeOK, RequestRecords
<1>r. \A c \in Requests : request[c] \in RequestRecords
  BY DEF TokenInv, ClientTypeOK, RequestRecords
<1>c. {cached, [cached EXCEPT !.token = 0]} \subseteq [token : 0..MaxTokens, at : 0..MaxClock]
  BY ProviderNumbers DEF TokenInv, ClientTypeOK
<1>4. ASSUME NEW c \in Requests, NEW r \in RequestRecords, r.pc \notin {"set", "fetch"},
             request' = [request EXCEPT ![c] = r], UNCHANGED <<clock, issued>>,
             cached' \in {cached, [cached EXCEPT !.token = 0]}
      PROVE  TokenInv'
  <2>1. /\ request' \in [Requests -> RequestRecords]
        /\ request'[c].pc \notin {"set", "fetch"}
        /\ \A d \in Requests \ {c} : request'[d] = request[d]
    BY <1>4, RequestPut DEF TokenInv
  <2>2. ClientTypeOK'
    BY <1>4, <1>t, <1>c, <2>1
  <2> QED BY <1>4, <1>3, <2>1, <2>2
<1>5. ASSUME NEW c \in Requests,
             Send(c) \/ Fail(c) \/ Fetch(c) \/ RefreshAccessToken(c) \/ (GetAccessToken(c) /\ ~IsCached)
      PROVE  TokenInv'
  <2>1. UNCHANGED <<clock, issued>> /\ cached' \in {cached, [cached EXCEPT !.token = 0]}
    BY <1>5 DEF Send, Fail, Fetch, RefreshAccessToken, GetAccessToken
  <2>2. \/ request' = [request EXCEPT ![c] = NoRequest]
        \/ \E try \in Tries : request' = [request EXCEPT ![c] = [NoRequest EXCEPT !.pc = "get", !.try = try]]
        \/ \E step \in {"authenticate", "refused"} : request' = [request EXCEPT ![c] = [request[c] EXCEPT !.pc = step]]
    BY <1>5 DEF Send, Fail, Fetch, RefreshAccessToken, GetAccessToken, Becomes, Answer, Tries, TokenInv, ClientTypeOK
  <2>3. CASE request' = [request EXCEPT ![c] = NoRequest]
    <3>1. NoRequest \in RequestRecords /\ NoRequest.pc = "idle"
      BY NewRecords DEF Tries
    <3> QED BY <1>4, <2>1, <2>3, <3>1
  <2>4. ASSUME NEW try \in Tries, request' = [request EXCEPT ![c] = [NoRequest EXCEPT !.pc = "get", !.try = try]]
        PROVE  TokenInv'
    <3> DEFINE r == [NoRequest EXCEPT !.pc = "get", !.try = try]
    <3>1. r \in RequestRecords /\ r.pc = "get"
      BY <2>4, NewRecords
    <3> HIDE DEF r
    <3>2. request' = [request EXCEPT ![c] = r]
      BY <2>4 DEF r
    <3> QED BY <1>4, <2>1, <3>1, <3>2
  <2>5. ASSUME NEW step \in {"authenticate", "refused"}, request' = [request EXCEPT ![c] = [request[c] EXCEPT !.pc = step]]
        PROVE  TokenInv'
    <3> DEFINE r == [request[c] EXCEPT !.pc = step]
    <3>1. r \in RequestRecords /\ r.pc = step
      BY <1>r DEF RequestRecords
    <3> HIDE DEF r
    <3>2. request' = [request EXCEPT ![c] = r]
      BY <2>5 DEF r
    <3> QED BY <1>4, <2>1, <2>5, <3>1, <3>2
  <2> QED BY <2>2, <2>3, <2>4, <2>5
<1>6. ASSUME NEW c \in Requests, GetAccessToken(c), IsCached
      PROVE  TokenInv'
  <2> DEFINE token == cached.token
             waited == cached.at - issued[token]
  <2>1. /\ token \in DOMAIN issued /\ clock \in 0..MaxClock /\ waited \in 0..MaxClock
        /\ clock < issued[token] + waited + Ttl /\ token \in 0..MaxTokens
    BY <1>6, TtlPositive DEF TokenInv, ClientTypeOK, CachedAfterIssue, IsCached
  <2>2. Goes(c, token, clock, waited) /\ UNCHANGED <<clock, issued, cached>>
    BY <1>6 DEF GetAccessToken
  <2>3. /\ request' \in [Requests -> RequestRecords]
        /\ \A d \in Requests \ {c} : request'[d] = request[d]
        /\ \/ request'[c].pc = "fetch" /\ request'[c].token = token
              /\ request'[c].since = clock /\ request'[c].waited = waited
           \/ request'[c].pc = "get"
    BY <2>1, <2>2, GoesOn DEF TokenInv
  <2>4. ClientTypeOK'
    BY <1>t, <1>c, <2>2, <2>3
  <2>5. HeldInTime(c)'
    <3> HIDE DEF waited
    <3> QED BY <2>1, <2>2, <2>3 DEF HeldInTime, In, Ttl
  <2>6. \A d \in Requests : HeldInTime(d)'
    BY <2>2, <2>3, <2>4, <2>5, OthersHold
  <2> QED BY <2>2, <2>4, <2>6 DEF TokenInv, CachedAfterIssue
<1>7. ASSUME NEW c \in Requests, Authenticate(c)
      PROVE  TokenInv'
  <2> DEFINE r == [request[c] EXCEPT !.pc = "set", !.token = Len(issued) + 1, !.since = clock]
  <2>1. /\ clock' = clock /\ cached' = cached /\ issued' = Append(issued, clock)
        /\ Len(issued) + 1 \in 0..MaxTokens /\ clock \in 0..MaxClock /\ issued \in Seq(0..MaxClock)
    BY <1>7 DEF Authenticate, TokenInv, ClientTypeOK
  <2>2. r \in RequestRecords /\ r.pc = "set" /\ r.token = Len(issued) + 1 /\ r.since = clock
    BY <1>r, <2>1 DEF RequestRecords
  <2>3. request' = [request EXCEPT ![c] = r]
    BY <1>7 DEF Authenticate, TokenInv, ClientTypeOK
  <2> HIDE DEF r
  <2>4. /\ request' \in [Requests -> RequestRecords] /\ request'[c] = r
        /\ \A d \in Requests \ {c} : request'[d] = request[d]
    BY <2>2, <2>3, RequestPut DEF TokenInv
  <2>5. /\ issued' \in Seq(0..MaxClock) /\ Len(issued') = Len(issued) + 1
        /\ \A i \in DOMAIN issued : i \in DOMAIN issued' /\ issued'[i] = issued[i]
        /\ DOMAIN issued' = 1..(Len(issued) + 1) /\ DOMAIN issued = 1..Len(issued)
        /\ issued'[Len(issued) + 1] = clock
    BY <2>1
  <2>6. ClientTypeOK'
    BY <2>1, <2>4, <2>5 DEF TokenInv, ClientTypeOK, RequestRecords
  <2>7. HeldInTime(c)'
    BY <2>1, <2>2, <2>4, <2>5 DEF HeldInTime, In
  <2>8. \A d \in Requests : HeldInTime(d)'
    BY <2>4, <2>5, <2>6, <2>7, OthersHold
  <2>9. CachedAfterIssue'
    BY <2>1, <2>5 DEF TokenInv, CachedAfterIssue
  <2>10. \A i \in DOMAIN issued' : issued'[i] <= clock'
    <3>1. ASSUME NEW i \in DOMAIN issued'
          PROVE  i \in DOMAIN issued \/ i = Len(issued) + 1
      BY <2>5, <2>1
    <3> QED BY <2>1, <2>5, <3>1 DEF TokenInv
  <2> QED BY <2>6, <2>8, <2>9, <2>10 DEF TokenInv
<1>8. ASSUME NEW c \in Requests, CacheToken(c)
      PROVE  TokenInv'
  <2> DEFINE token == request[c].token
             since == request[c].since
  <2>1. token \in DOMAIN issued /\ since = issued[token] /\ since \in 0..MaxClock /\ token \in 0..MaxTokens /\ 0 \in 0..MaxClock
    BY <1>8 DEF TokenInv, HeldInTime, CacheToken, ClientTypeOK
  <2>2. /\ Goes(c, token, since, 0) /\ UNCHANGED <<clock, issued>>
        /\ cached' = [token |-> token, at |-> clock] /\ clock \in 0..MaxClock
    BY <1>8 DEF CacheToken, TokenInv, ClientTypeOK
  <2>3. /\ request' \in [Requests -> RequestRecords]
        /\ \A d \in Requests \ {c} : request'[d] = request[d]
        /\ \/ request'[c].pc = "fetch" /\ request'[c].token = token
              /\ request'[c].since = since /\ request'[c].waited = 0
           \/ request'[c].pc = "get"
    BY <2>1, <2>2, GoesOn DEF TokenInv
  <2>4. ClientTypeOK'
    <3>1. cached' \in [token : 0..MaxTokens, at : 0..MaxClock]
      BY <2>1, <2>2
    <3> QED BY <1>t, <2>2, <2>3, <3>1
  <2>5. HeldInTime(c)'
    <3>1. since < since + 0 + Ttl
      BY <2>1, TtlPositive
    <3> QED BY <2>1, <2>2, <2>3, <3>1 DEF HeldInTime, In, Ttl
  <2>6. \A d \in Requests : HeldInTime(d)'
    BY <2>2, <2>3, <2>4, <2>5, OthersHold
  <2>7. CachedAfterIssue'
    BY <2>1, <2>2 DEF TokenInv, CachedAfterIssue
  <2> QED BY <2>2, <2>4, <2>6, <2>7 DEF TokenInv
<1> QED BY <1>1, <1>2, <1>5, <1>6, <1>7, <1>8 DEF ClientNext

LEMMA TokenInductive == ClientSpec => []TokenInv
<1>1. ClientInit => TokenInv
  BY ProviderNumbers
     DEF ClientInit, TokenInv, ClientTypeOK, CachedAfterIssue, HeldInTime, In, NoRequest, Tries
<1> QED BY <1>1, TokenStep, PTL DEF ClientSpec

\* A refused token took longer on its ways than its life exceeds its time to live.
LEMMA RefusedIsLate ==
    TokenInv => \A c \in Requests : In(c, "fetch") /\ Expired(request[c].token) =>
        request[c].waited + (clock - request[c].since) > Lifetime - Ttl
<1> SUFFICES ASSUME TokenInv, NEW c \in Requests, In(c, "fetch"), Expired(request[c].token)
             PROVE  request[c].waited + (clock - request[c].since) > Lifetime - Ttl
  OBVIOUS
<1>1. request[c].since < issued[request[c].token] + request[c].waited + Ttl
  BY DEF TokenInv, HeldInTime
<1>2. clock >= issued[request[c].token] + Lifetime
  BY DEF Expired
<1>3. /\ issued[request[c].token] \in Nat /\ clock \in Nat /\ request[c].since \in Nat
      /\ request[c].waited \in Nat
  BY ProviderNumbers DEF TokenInv, ClientTypeOK, HeldInTime
<1> QED BY <1>1, <1>2, <1>3, TtlPositive, ProviderNumbers

\* Where tokens live for at least the margin and the shortest time to live, the
\* provider refuses one only after a delay of more than the margin, however
\* requests, refreshes and other servers cache, overwrite and delete the token
\* (NombaAuthService): the time to live leaves the margin.
THEOREM TokenOutlivesCache ==
    ASSUME Lifetime - Margin >= MinTtl
    PROVE  ClientSpec => []RefusedOnlyWhenDelayed
<1>1. Lifetime - Ttl = Margin
  BY ProviderNumbers DEF Ttl
<1>2. TokenInv => RefusedOnlyWhenDelayed
  BY <1>1, RefusedIsLate DEF RefusedOnlyWhenDelayed
<1> QED BY <1>2, TokenInductive, PTL
=============================================================================
