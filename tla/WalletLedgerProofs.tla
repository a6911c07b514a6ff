------------------------- MODULE WalletLedgerProofs -------------------------
(***************************************************************************)
(* Proofs about WalletLedger for every set of wallets and requests, every  *)
(* set of amounts, every opening balance and every column width.           *)
(***************************************************************************)
EXTENDS WalletLedger, TLAPS, FiniteSetTheorems

-----------------------------------------------------------------------------
(***************************************************************************)
(* The fee, for every amount: TLC checks a few windows of amounts.         *)
(***************************************************************************)

\* The quotient the fee is rounded to.
LEMMA RoundedQuotient ==
    \A a \in Nat : /\ PercentageFee(a) \in Nat
                   /\ 100 * PercentageFee(a) <= a + 50
                   /\ a + 50 < 100 * PercentageFee(a) + 100
<1>1. TAKE a \in Nat
<1>2. PercentageFee(a) = (a + 50) \div 100
  BY DEF PercentageFee, contributionFeePercent
<1>3. QED
  BY <1>2

\* The two Math.max / Math.min steps leave a fee below the cap alone.
LEMMA CappedFee ==
    \A a \in Nat :
        CalculateFee(a) = IF PercentageFee(a) > 2000 THEN 2000 ELSE PercentageFee(a)
<1>1. TAKE a \in Nat
<1>2. PercentageFee(a) \in Nat
  BY RoundedQuotient
<1>3. PercentageFee(a) + flatFee = PercentageFee(a)
  BY <1>2 DEF flatFee
<1>4. AtLeast(PercentageFee(a), minFee) = PercentageFee(a)
  BY <1>2 DEF AtLeast, minFee
<1>5. QED
  BY <1>3, <1>4 DEF CalculateFee, AtMost, maxFee

\* calculateContributionFee: the nearest kobo to 1 %, under the cap, whatever
\* the contribution.
THEOREM FeeOfEveryAmount == \A a \in Nat : NearestPercent(a)
<1>1. TAKE a \in Nat
<1>2. /\ PercentageFee(a) \in Nat
      /\ 100 * PercentageFee(a) <= a + 50
      /\ a + 50 < 100 * PercentageFee(a) + 100
  BY RoundedQuotient
<1>3. CalculateFee(a) = IF PercentageFee(a) > 2000 THEN 2000 ELSE PercentageFee(a)
  BY CappedFee
<1>4. CASE PercentageFee(a) > 2000
  <2>1. CalculateFee(a) = 2000
    BY <1>3, <1>4
  <2>2. 100 * 2000 <= a + 50
    BY <1>2, <1>4
  <2>3. QED
    BY <2>1, <2>2 DEF NearestPercent, maxFee
<1>5. CASE PercentageFee(a) <= 2000
  <2>1. CalculateFee(a) = PercentageFee(a)
    BY <1>2, <1>3, <1>5
  <2>2. 2 * (100 * PercentageFee(a) - a) \in -99..100
    BY <1>2
  <2>3. QED
    BY <1>5, <2>1, <2>2 DEF NearestPercent, maxFee
<1>6. QED
  BY <1>2, <1>4, <1>5

\* processContributionPayment: what reaches the group wallet never shrinks when
\* a member pays one kobo more, so it grows with the amount.
THEOREM NetNeverShrinks == \A a \in Nat : NetAmount(a + 1) >= NetAmount(a)
<1>1. TAKE a \in Nat
<1>2. /\ PercentageFee(a) \in Nat
      /\ a + 50 < 100 * PercentageFee(a) + 100
  BY RoundedQuotient
<1>3. /\ PercentageFee(a + 1) \in Nat
      /\ 100 * PercentageFee(a + 1) <= a + 1 + 50
  <2>1. a + 1 \in Nat
    OBVIOUS
  <2>2. QED
    BY <2>1, RoundedQuotient
<1>4. PercentageFee(a + 1) <= PercentageFee(a) + 1
  BY <1>2, <1>3
<1>5. /\ CalculateFee(a) = IF PercentageFee(a) > 2000 THEN 2000 ELSE PercentageFee(a)
      /\ CalculateFee(a + 1) = IF PercentageFee(a + 1) > 2000 THEN 2000 ELSE PercentageFee(a + 1)
  <2>1. a + 1 \in Nat
    OBVIOUS
  <2>2. QED
    BY <2>1, CappedFee
<1>6. QED
  BY <1>2, <1>3, <1>4, <1>5 DEF NetAmount

-----------------------------------------------------------------------------
(* The operations and their legs                                           *)

\* The fee never exceeds the amount nor the cap, so neither leg of a
\* contribution is negative.
LEMMA FeeBounds ==
    ASSUME NEW a \in Nat
    PROVE  /\ CalculateFee(a) \in Int
           /\ 0 <= CalculateFee(a)
           /\ CalculateFee(a) <= a
           /\ CalculateFee(a) <= maxFee
BY DEF CalculateFee, PercentageFee, AtMost, AtLeast, contributionFeePercent,
       flatFee, minFee, maxFee

\* The legs of an operation: one or two, on different wallets.
WellFormed(o) ==
    /\ o.kind \in AllKinds
    /\ o.legs \in Seq(Leg)
    /\ Len(o.legs) \in {1, 2}
    /\ Len(o.legs) = 2 => o.legs[1].wallet # o.legs[2].wallet

\* What callers ask for: one of the four operations on wallets they may name.
LEMMA OperationKinds ==
    ASSUME NEW o \in Operations
    PROVE  \/ \E w \in Wallets, a \in Amounts : o = CreditOp(w, a)
           \/ \E w \in Wallets, a \in Amounts : o = DebitOp(w, a)
           \/ \E s \in Wallets : \E d \in Wallets \ {s}, a \in Amounts : o = TransferOp(s, d, a)
           \/ \E w \in Wallets \ {Platform}, a \in Amounts : o = ContributionOp(w, a)
<1>1. ASSUME o \in TransferOps
      PROVE  \E s \in Wallets : \E d \in Wallets \ {s}, a \in Amounts : o = TransferOp(s, d, a)
  <2>1. PICK s \in Wallets : o \in {TransferOp(s, d, a) : d \in Wallets \ {s}, a \in Amounts}
    BY <1>1 DEF TransferOps
  <2> QED BY <2>1
<1> QED BY <1>1 DEF Operations

LEMMA OperationShape ==
    ASSUME NEW o \in Operations
    PROVE  WellFormed(o)
<1> USE WalletOpsAssumption DEF WellFormed, Leg, AllKinds, Operation
<1>1. CASE \E w \in Wallets, a \in Amounts : o = CreditOp(w, a)
  BY <1>1 DEF CreditOp
<1>2. CASE \E w \in Wallets, a \in Amounts : o = DebitOp(w, a)
  BY <1>2 DEF DebitOp
<1>3. CASE \E s \in Wallets : \E d \in Wallets \ {s}, a \in Amounts : o = TransferOp(s, d, a)
  BY <1>3 DEF TransferOp
<1>4. CASE \E w \in Wallets \ {Platform}, a \in Amounts : o = ContributionOp(w, a)
  <2>1. PICK w \in Wallets \ {Platform}, a \in Amounts : o = ContributionOp(w, a)
    BY <1>4
  <2>2. CalculateFee(a) \in Int /\ NetAmount(a) \in Int
    BY FeeBounds DEF NetAmount
  <2>3. CASE CalculateFee(a) > 0
    BY <2>1, <2>2, <2>3 DEF ContributionOp, ContributionLegs
  <2>4. CASE ~ (CalculateFee(a) > 0)
    BY <2>1, <2>2, <2>4 DEF ContributionOp, ContributionLegs
  <2> QED BY <2>3, <2>4
<1> QED BY <1>1, <1>2, <1>3, <1>4, OperationKinds

-----------------------------------------------------------------------------
\* The inductive invariant: a balance stays in range because the update that
\* will change it was checked on the committed row, and that row cannot change
\* under the lock; hence the locking discipline is part of the induction.
IInv ==
    /\ TypeOK
    /\ NoOverdraft
    /\ ProgramOrder
    /\ LockDiscipline
    /\ LedgerExplainsBalance

LEMMA InitIInv == Init => IInv
<1> SUFFICES ASSUME Init PROVE IInv
  OBVIOUS
<1> USE WalletOpsAssumption, WalletLedgerAssumption DEF Init
<1>1. TypeOK
  BY DEF TypeOK, Stages
<1>2. NoOverdraft
  BY DEF NoOverdraft
<1>3. ProgramOrder
  BY DEF ProgramOrder
<1>4. LockDiscipline
  BY DEF LockDiscipline, Running
<1>5. LedgerExplainsBalance
  BY DEF LedgerExplainsBalance, LedgerBalance
<1> QED BY <1>1, <1>2, <1>3, <1>4, <1>5 DEF IInv

\* What the invariant says of a request that has been made.
LEMMA LegFacts ==
    ASSUME IInv, NEW r \in Requests, pc[r] # "new"
    PROVE  /\ op[r] \in Operations
           /\ WellFormed(op[r])
           /\ leg[r] \in 1..Len(op[r].legs)
           /\ leg[r] \in DOMAIN op[r].legs
           /\ Current(r) \in Leg
           /\ Current(r).wallet \in Wallets
           /\ Current(r).delta \in Int
           /\ \A i \in DOMAIN op[r].legs :
                 /\ op[r].legs[i] \in Leg
                 /\ op[r].legs[i].wallet \in Wallets
                 /\ op[r].legs[i].delta \in Int
                 /\ i \in Int
                 /\ i # leg[r] => op[r].legs[i].wallet # Current(r).wallet
<1>1. op[r] \in Operations /\ leg[r] \in 1..Len(op[r].legs)
  BY DEF IInv, TypeOK, ProgramOrder
<1>2. WellFormed(op[r])
  BY <1>1, OperationShape
<1>3. \A i \in DOMAIN op[r].legs : op[r].legs[i] \in Leg /\ i \in Int
  BY <1>2 DEF WellFormed
<1>4. \A i \in DOMAIN op[r].legs : op[r].legs[i].wallet \in Wallets /\ op[r].legs[i].delta \in Int
  BY <1>3 DEF Leg
<1>5. leg[r] \in DOMAIN op[r].legs
  BY <1>1, <1>2 DEF WellFormed
<1>6. \A i \in DOMAIN op[r].legs : i # leg[r] => op[r].legs[i].wallet # Current(r).wallet
  BY <1>1, <1>2 DEF WellFormed, Current
<1> QED BY <1>1, <1>2, <1>3, <1>4, <1>5, <1>6 DEF Current

LEMMA BeginIInv ==
    ASSUME IInv, NEW r \in Requests, Begin(r)
    PROVE  IInv'
<1> USE DEF IInv, Begin
<1>0. PICK o \in Operations : op' = [op EXCEPT ![r] = o]
  OBVIOUS
<1>a. WellFormed(o) /\ 1 \in 1..Len(o.legs) /\ o # NoOp
  BY OperationShape, WalletLedgerAssumption DEF WellFormed
<1>1. TypeOK'
  BY <1>0 DEF TypeOK, Stages
<1>2. NoOverdraft'
  BY DEF NoOverdraft
<1>3. ProgramOrder'
  BY <1>0, <1>a DEF ProgramOrder, TypeOK
<1>4. LockDiscipline'
  <2>1. \A w \in Wallets : lock[w] # r
    BY DEF LockDiscipline, Running
  <2>2. leg[r] = 1
    BY DEF ProgramOrder
  <2>3. \A q \in Requests : Running(q)' =>
          \A i \in DOMAIN op'[q].legs : Updated(q, i)' => lock'[op'[q].legs[i].wallet] = q
    <3> SUFFICES ASSUME NEW q \in Requests, Running(q)', NEW i \in DOMAIN op'[q].legs, Updated(q, i)'
                 PROVE  lock'[op'[q].legs[i].wallet] = q
      OBVIOUS
    <3>1. CASE q = r
      BY <3>1, <2>2, <1>0, <1>a DEF Updated, TypeOK, WellFormed
    <3>2. CASE q # r
      BY <3>2, <1>0 DEF Updated, Running, LockDiscipline, TypeOK
    <3> QED BY <3>1, <3>2
  <2>4. \A q \in Requests, w \in Wallets : lock'[w] = q =>
          /\ q # r /\ lock[w] = q
          /\ op'[q] = op[q] /\ pc'[q] = pc[q] /\ leg'[q] = leg[q]
    BY <2>1, <1>0 DEF TypeOK
  <2> QED BY <2>3, <2>4 DEF LockDiscipline, Running, Holds, Updated, Current
<1>5. LedgerExplainsBalance'
  BY DEF LedgerExplainsBalance, LedgerBalance
<1> QED BY <1>1, <1>2, <1>3, <1>4, <1>5

LEMMA RollbackIInv ==
    ASSUME IInv, NEW r \in Requests, Running(r), Rollback(r)
    PROVE  IInv'
<1> USE DEF IInv, Rollback, Release
<1>1. TypeOK'
  BY DEF TypeOK, Stages
<1>2. NoOverdraft'
  BY DEF NoOverdraft
<1>3. ProgramOrder'
  BY DEF ProgramOrder, TypeOK, Running
<1>4. LockDiscipline'
  <2>1. \A q \in Requests : q # r => pc'[q] = pc[q]
    BY DEF TypeOK
  <2>2. pc'[r] = "failed"
    BY DEF TypeOK
  <2>3. ASSUME NEW q \in Requests, Running(q)', NEW i \in DOMAIN op'[q].legs, Updated(q, i)'
        PROVE  lock'[op'[q].legs[i].wallet] = q
    <3>1. q # r /\ pc[q] = pc'[q]
      BY <2>1, <2>2, <2>3 DEF Running
    <3>2. lock[op[q].legs[i].wallet] = q
      BY <3>1, <2>3 DEF Running, Updated, LockDiscipline
    <3>3. op[q].legs[i].wallet \in Wallets
      BY <3>1, <2>3, LegFacts DEF Running
    <3> QED BY <3>1, <3>2, <3>3
  <2>4. ASSUME NEW q \in Requests, NEW w \in Wallets, lock'[w] = q
        PROVE  q # r /\ lock[w] = q /\ pending'[w] = pending[w] /\ pc'[q] = pc[q]
    BY <2>1, <2>4, WalletLedgerAssumption DEF TypeOK
  <2>5. ASSUME NEW q \in Requests, NEW w \in Wallets, lock'[w] = q
        PROVE  Running(q)' /\ Holds(q, w)'
    BY <2>4, <2>5 DEF LockDiscipline, Running, Holds, Updated, Current
  <2> QED BY <2>3, <2>5 DEF LockDiscipline
<1>5. LedgerExplainsBalance'
  BY DEF LedgerExplainsBalance, LedgerBalance
<1> QED BY <1>1, <1>2, <1>3, <1>4, <1>5

\* What a transaction holds does not change with the step it is about to take.
LEMMA HoldsKept ==
    ASSUME NEW q \in Requests, NEW w \in Wallets,
           UNCHANGED <<balance, pending, op, leg>>,
           pc'[q] = "commit" <=> pc[q] = "commit",
           pc[q] = "update" => pc'[q] = "update",
           Holds(q, w)
    PROVE  Holds(q, w)'
<1>1. \A i : Updated(q, i)' <=> Updated(q, i)
  BY DEF Updated
<1>2. Current(q)' = Current(q)
  BY DEF Current
<1> QED BY <1>1, <1>2 DEF Holds

\* A step of r that moves no lock, balance or leg keeps the invariant.
LEMMA SelectIInv ==
    ASSUME IInv, NEW r \in Requests, ReadWallet(r) \/ MissWallet(r)
    PROVE  IInv'
<1> USE DEF IInv, ReadWallet, MissWallet
<1>0. Current(r).wallet \in Wallets /\ balance[Current(r).wallet] \in Int
  BY LegFacts DEF TypeOK
<1>1. TypeOK'
  <2>1. pc' \in [Requests -> Stages]
    BY DEF TypeOK, Stages
  <2>2. before' \in [Requests -> Int]
    BY <1>0 DEF TypeOK
  <2> QED BY <2>1, <2>2 DEF TypeOK
<1>2. NoOverdraft'
  BY DEF NoOverdraft
<1>3. ProgramOrder'
  BY DEF ProgramOrder, TypeOK
<1>4. LockDiscipline'
  <2>1. \A q \in Requests : /\ Running(q)' <=> Running(q)
                            /\ pc'[q] = "commit" <=> pc[q] = "commit"
                            /\ pc[q] = "update" => pc'[q] = "update"
    BY DEF TypeOK, Running
  <2>u. UNCHANGED <<balance, pending, lock, op, leg>>
    OBVIOUS
  <2>2. \A q \in Requests, w \in Wallets : Holds(q, w) => Holds(q, w)'
    BY <2>1, <2>u, HoldsKept
  <2>3. \A q \in Requests : \A i : Updated(q, i)' <=> Updated(q, i)
    BY <2>1, <2>u DEF Updated
  <2>4. LockDiscipline
    OBVIOUS
  <2> HIDE DEF IInv, ReadWallet, MissWallet
  <2> QED BY <2>1, <2>2, <2>3, <2>4, <2>u DEF LockDiscipline
<1>5. LedgerExplainsBalance'
  BY DEF LedgerExplainsBalance, LedgerBalance
<1> QED BY <1>1, <1>2, <1>3, <1>4, <1>5

LEMMA CreateIInv ==
    ASSUME IInv, NEW r \in Requests, CreateWallet(r)
    PROVE  IInv'
<1> USE DEF IInv, CreateWallet
<1>0. Current(r).wallet \in Wallets
  BY LegFacts
<1>1. TypeOK'
  BY DEF TypeOK, Stages
<1>2. NoOverdraft'
  BY DEF NoOverdraft
<1>3. ProgramOrder'
  BY DEF ProgramOrder, TypeOK
<1>4. LockDiscipline'
  <2>1. \A q \in Requests : /\ Running(q)' <=> Running(q)
                            /\ pc'[q] = "commit" <=> pc[q] = "commit"
                            /\ pc[q] = "update" => pc'[q] = "update"
    BY DEF TypeOK, Running
  <2>2. \A q \in Requests, w \in Wallets : Holds(q, w) => Holds(q, w)'
    BY <2>1, HoldsKept
  <2>3. pc'[r] = "update" /\ Current(r)' = Current(r)
    BY DEF Current, TypeOK
  <2>4. \A q \in Requests, w \in Wallets : lock'[w] = q => Running(q)' /\ Holds(q, w)'
    <3> SUFFICES ASSUME NEW q \in Requests, NEW w \in Wallets, lock'[w] = q
                 PROVE  Running(q)' /\ Holds(q, w)'
      OBVIOUS
    <3>1. CASE lock[w] = q
      BY <3>1, <2>1, <2>2 DEF LockDiscipline
    <3>2. CASE lock[w] # q
      <4>1. q = r /\ w = Current(r).wallet
        BY <3>2, <1>0 DEF TypeOK
      <4> QED BY <4>1, <2>3 DEF Running, Holds
    <3> QED BY <3>1, <3>2
  <2>5. ASSUME NEW q \in Requests, Running(q)', NEW i \in DOMAIN op'[q].legs, Updated(q, i)'
        PROVE  lock'[op'[q].legs[i].wallet] = q
    <3>1. lock[op[q].legs[i].wallet] = q
      BY <2>1, <2>5 DEF LockDiscipline, Updated
    <3>2. lock[Current(r).wallet] # q
      BY WalletLedgerAssumption
    <3> QED BY <3>1, <3>2 DEF TypeOK
  <2> QED BY <2>4, <2>5 DEF LockDiscipline
<1>5. LedgerExplainsBalance'
  BY DEF LedgerExplainsBalance, LedgerBalance
<1> QED BY <1>1, <1>2, <1>3, <1>4, <1>5

LEMMA UpdateIInv ==
    ASSUME IInv, NEW r \in Requests, UpdateBalance(r)
    PROVE  IInv'
<1>w. PICK cw : cw = Current(r).wallet
  OBVIOUS
<1>i. TypeOK /\ NoOverdraft /\ ProgramOrder /\ LockDiscipline /\ LedgerExplainsBalance
  BY DEF IInv
<1>s. pc[r] = "update" /\ lock[cw] \in {NoRequest, r} /\ Covered(r) /\ Fits(r)
  BY <1>w DEF UpdateBalance, CanLock
<1>u. UNCHANGED <<balance, exists, ledger, op, before>>
  BY DEF UpdateBalance
<1>0. /\ cw \in Wallets /\ Current(r).delta \in Int
      /\ leg[r] \in DOMAIN op[r].legs /\ leg[r] \in 1..Len(op[r].legs)
      /\ Len(op[r].legs) \in {1, 2}
      /\ \A i \in DOMAIN op[r].legs : i \in 1..Len(op[r].legs)
  BY <1>s, <1>w, LegFacts DEF WellFormed
<1>a. NewBalance(r) \in 0..MaxBalance
  <2>1. balance[cw] \in 0..MaxBalance /\ MaxBalance \in Int
    BY <1>0, <1>i, WalletOpsAssumption DEF NoOverdraft
  <2>2. NewBalance(r) = balance[cw] + Current(r).delta
    BY <1>w DEF NewBalance
  <2>3. NewBalance(r) <= MaxBalance /\ (Current(r).delta >= 0 \/ NewBalance(r) >= 0)
    BY <1>s DEF Covered, Fits
  <2>4. Current(r).delta \in Int
    BY <1>0
  <2> QED BY <2>1, <2>2, <2>3, <2>4
<1>b. LedgerEntry(r) \in Entry
  <2>1. before[r] \in Int
    BY <1>i DEF TypeOK
  <2>2. NewBalance(r) \in Int
    BY <1>a, WalletOpsAssumption
  <2> QED BY <1>0, <2>1, <2>2 DEF LedgerEntry, Entry
<1>l. /\ lock' \in [Wallets -> Requests \cup {NoRequest}]
      /\ lock'[cw] = r
      /\ \A w \in Wallets : w # cw => lock'[w] = lock[w]
  BY <1>w, <1>0, <1>i DEF UpdateBalance, TypeOK
<1>p. /\ pending' \in [Wallets -> Entry \cup {NoEntry}]
      /\ pending'[cw] = LedgerEntry(r)
      /\ \A w \in Wallets : w # cw => pending'[w] = pending[w]
  BY <1>w, <1>0, <1>b, <1>i DEF UpdateBalance, TypeOK
<1>c. /\ pc' \in [Requests -> Stages] /\ leg' \in [Requests -> {1, 2}]
      /\ \A q \in Requests : q # r => pc'[q] = pc[q] /\ leg'[q] = leg[q]
      /\ \/ leg[r] < Len(op[r].legs) /\ leg'[r] = leg[r] + 1 /\ pc'[r] = "read"
         \/ leg[r] = Len(op[r].legs) /\ leg'[r] = leg[r] /\ pc'[r] = "commit"
  <2>t. pc \in [Requests -> Stages] /\ leg \in [Requests -> {1, 2}]
    BY <1>i DEF TypeOK
  <2>1. CASE leg[r] < Len(op[r].legs)
    <3>1. leg' = [leg EXCEPT ![r] = leg[r] + 1] /\ pc' = [pc EXCEPT ![r] = "read"]
      BY <2>1 DEF UpdateBalance
    <3>2. leg[r] + 1 \in {1, 2}
      <4>1. Len(op[r].legs) \in {1, 2} /\ leg[r] \in {1, 2}
        BY <1>0, <2>t
      <4>2. ASSUME NEW n \in {1, 2}, NEW k \in {1, 2}, k < n
            PROVE  k + 1 \in {1, 2}
        BY <4>2
      <4> QED BY <4>1, <4>2, <2>1
    <3> QED BY <2>1, <2>t, <3>1, <3>2 DEF Stages
  <2>2. CASE ~ (leg[r] < Len(op[r].legs))
    <3>1. leg' = leg /\ pc' = [pc EXCEPT ![r] = "commit"]
      BY <2>2 DEF UpdateBalance
    <3> QED BY <2>2, <2>t, <3>1, <1>0 DEF Stages
  <2> QED BY <2>1, <2>2
<1>1. TypeOK'
  BY <1>i, <1>u, <1>l, <1>p, <1>c DEF TypeOK
<1>2. NoOverdraft'
  BY <1>i, <1>u DEF NoOverdraft
<1>3. ProgramOrder'
  BY <1>i, <1>u, <1>c, <1>s, <1>0 DEF ProgramOrder
<1>4. LockDiscipline'
  <2>1. \A q \in Requests : Running(q)' <=> Running(q)
    BY <1>c, <1>s DEF Running
  <2>2. \A i \in DOMAIN op[r].legs : Updated(r, i)' <=> (Updated(r, i) \/ i = leg[r])
    BY <1>0, <1>c, <1>s DEF Updated
  <2>3. \A q \in Requests : q # r => \A i : Updated(q, i)' <=> Updated(q, i)
    BY <1>c DEF Updated
  <2>4. Holds(r, cw)'
    <3>2. /\ pending'[cw] \in Entry
          /\ pending'[cw].request = r
          /\ pending'[cw].delta = op[r].legs[leg[r]].delta
          /\ pending'[cw].after = balance[cw] + op[r].legs[leg[r]].delta
          /\ pending'[cw].after \in 0..MaxBalance
      <4>1. pending'[cw] = LedgerEntry(r)
        BY <1>p
      <4>2. LedgerEntry(r).request = r /\ LedgerEntry(r).delta = Current(r).delta
            /\ LedgerEntry(r).after = NewBalance(r)
        BY DEF LedgerEntry
      <4>3. NewBalance(r) = balance[cw] + Current(r).delta
        BY <1>w DEF NewBalance
      <4>4. Current(r).delta = op[r].legs[leg[r]].delta
        BY DEF Current
      <4> QED BY <4>1, <4>2, <4>3, <4>4, <1>a, <1>b
    <3>3. op[r].legs[leg[r]].wallet = cw
      BY <1>w DEF Current
    <3>k. PICK k \in DOMAIN op[r].legs : k = leg[r]
      BY <1>0
    <3>4. Updated(r, k)' /\ k \in DOMAIN op'[r].legs
      BY <3>k, <2>2, <1>0, <1>u
    <3>5. op' = op /\ balance' = balance
      BY <1>u
    <3>6. \E i \in DOMAIN op'[r].legs :
              /\ Updated(r, i)'
              /\ op'[r].legs[i].wallet = cw
              /\ pending'[cw] \in Entry
              /\ pending'[cw].request = r
              /\ pending'[cw].delta = op'[r].legs[i].delta
              /\ pending'[cw].after = balance'[cw] + op'[r].legs[i].delta
              /\ pending'[cw].after \in 0..MaxBalance
      BY <3>k, <3>2, <3>3, <3>4, <3>5
    <3> QED BY <3>6 DEF Holds
  <2>5. ASSUME NEW w \in Wallets, w # cw, lock[w] = r
        PROVE  Holds(r, w)'
    <3>1. PICK i \in DOMAIN op[r].legs :
              /\ Updated(r, i)
              /\ op[r].legs[i].wallet = w
              /\ pending[w] \in Entry
              /\ pending[w].request = r
              /\ pending[w].delta = op[r].legs[i].delta
              /\ pending[w].after = balance[w] + op[r].legs[i].delta
              /\ pending[w].after \in 0..MaxBalance
      BY <1>w, <2>5, <1>i DEF LockDiscipline, Holds
    <3>2. pending'[w] = pending[w] /\ Updated(r, i)'
      BY <2>5, <1>p, <3>1, <2>2
    <3> QED BY <1>u, <3>1, <3>2 DEF Holds
  <2>6. ASSUME NEW q \in Requests, NEW w \in Wallets, q # r, lock'[w] = q
        PROVE  lock[w] = q /\ Holds(q, w)'
    <3>1. w # cw /\ lock[w] = q
      BY <2>6, <1>0, <1>l
    <3>2. Holds(q, w) /\ pending'[w] = pending[w]
      BY <3>1, <1>i, <1>p DEF LockDiscipline
    <3>3. pc'[q] = pc[q] /\ leg'[q] = leg[q] /\ Current(q)' = Current(q)
      BY <2>6, <1>c, <1>u DEF Current
    <3> QED BY <1>u, <3>1, <3>2, <3>3 DEF Holds, Updated
  <2>7. ASSUME NEW q \in Requests, NEW w \in Wallets, lock'[w] = q
        PROVE  Running(q)' /\ Holds(q, w)'
    <3>1. Running(r)
      BY <1>s DEF Running
    <3>2. CASE q # r
      BY <3>2, <2>1, <2>6, <2>7, <1>i DEF LockDiscipline
    <3>3. CASE q = r /\ w = cw
      BY <3>1, <3>3, <2>1, <2>4 DEF Holds, Running, Updated, Current
    <3>4. CASE q = r /\ w # cw
      BY <3>1, <3>4, <2>1, <2>5, <2>7, <1>l
    <3> QED BY <3>2, <3>3, <3>4
  <2>8. ASSUME NEW q \in Requests, Running(q)', NEW i \in DOMAIN op'[q].legs, Updated(q, i)'
        PROVE  lock'[op'[q].legs[i].wallet] = q
    <3>0. pc[q] # "new" /\ Running(q) /\ i \in DOMAIN op[q].legs
      BY <2>1, <2>8, <1>u DEF Running
    <3>f. op[q].legs[i].wallet \in Wallets
      BY <3>0, <2>8, LegFacts
    <3>1. CASE q # r
      <4>1. lock[op[q].legs[i].wallet] = q
        BY <3>0, <3>1, <2>3, <2>8, <1>i DEF LockDiscipline
      <4>2. op[q].legs[i].wallet # cw
        BY <4>1, <3>1, <1>s, WalletLedgerAssumption
      <4> QED BY <4>1, <4>2, <3>f, <1>l, <1>u
    <3>2. CASE q = r /\ i = leg[r]
      BY <1>w, <3>2, <1>l, <1>u DEF Current
    <3>3. CASE q = r /\ i # leg[r]
      <4>1. lock[op[r].legs[i].wallet] = r
        BY <3>0, <3>3, <2>2, <2>8, <1>i DEF LockDiscipline
      <4> QED BY <4>1, <3>3, <3>f, <1>l, <1>u
    <3> QED BY <3>1, <3>2, <3>3
  <2> QED BY <2>7, <2>8 DEF LockDiscipline
<1>5. LedgerExplainsBalance'
  BY <1>i, <1>u DEF LedgerExplainsBalance, LedgerBalance
<1> QED BY <1>1, <1>2, <1>3, <1>4, <1>5 DEF IInv

\* At COMMIT every row r still holds carries its finished update.
LEMMA CommitFacts ==
    ASSUME IInv, NEW r \in Requests, pc[r] = "commit", NEW w \in Wallets, lock[w] = r
    PROVE  \E i \in DOMAIN op[r].legs :
              /\ op[r].legs[i].wallet = w
              /\ pending[w] \in Entry
              /\ pending[w].delta = op[r].legs[i].delta
              /\ pending[w].after = balance[w] + op[r].legs[i].delta
              /\ pending[w].after \in 0..MaxBalance
<1>1. Holds(r, w)
  BY DEF IInv, LockDiscipline
<1> QED BY <1>1 DEF Holds

LEMMA AppendLedger ==
    ASSUME NEW s \in Seq(Entry), NEW e \in Entry
    PROVE  /\ Append(s, e) \in Seq(Entry)
           /\ Len(Append(s, e)) = Len(s) + 1
           /\ Append(s, e)[Len(s) + 1] = e
           /\ \A n \in 1..Len(s) : Append(s, e)[n] = s[n]
OBVIOUS

LEMMA CommitIInv ==
    ASSUME IInv, NEW r \in Requests, Commit(r)
    PROVE  IInv'
<1>i. TypeOK /\ NoOverdraft /\ ProgramOrder /\ LockDiscipline /\ LedgerExplainsBalance
  BY DEF IInv
<1>s. pc[r] = "commit"
  BY DEF Commit
<1>u. op' = op /\ leg' = leg /\ before' = before
  BY DEF Commit
<1>f. ASSUME NEW w \in Wallets, lock[w] = r
      PROVE  /\ pending[w] \in Entry
             /\ pending[w].after = balance[w] + pending[w].delta
             /\ pending[w].after \in 0..MaxBalance
             /\ balance'[w] = pending[w].after
             /\ ledger'[w] = Append(ledger[w], pending[w])
  BY <1>s, <1>f, CommitFacts DEF Commit
<1>g. ASSUME NEW w \in Wallets, lock[w] # r
      PROVE  /\ balance'[w] = balance[w] /\ ledger'[w] = ledger[w]
             /\ lock'[w] = lock[w] /\ pending'[w] = pending[w]
  BY <1>g DEF Commit, Release
<1>p. pc' = [pc EXCEPT ![r] = "audit"]
  BY DEF Commit
<1>1. TypeOK'
  <2>1. balance' \in [Wallets -> Int]
    <3>1. balance' = [w \in Wallets |-> IF lock[w] = r THEN pending[w].after ELSE balance[w]]
      BY DEF Commit
    <3>2. \A w \in Wallets : lock[w] = r => pending[w].after \in Int
      BY <1>f
    <3> QED BY <3>1, <3>2, <1>i DEF TypeOK
  <2>2. ledger' \in [Wallets -> Seq(Entry)]
    <3>1. ledger' = [w \in Wallets |-> IF lock[w] = r THEN Append(ledger[w], pending[w])
                                                       ELSE ledger[w]]
      BY DEF Commit
    <3>2. \A w \in Wallets : lock[w] = r => Append(ledger[w], pending[w]) \in Seq(Entry)
      BY <1>f, <1>i, AppendLedger DEF TypeOK
    <3> QED BY <3>1, <3>2, <1>i DEF TypeOK
  <2>3. /\ exists' \subseteq Wallets
        /\ lock' \in [Wallets -> Requests \cup {NoRequest}]
        /\ pending' \in [Wallets -> Entry \cup {NoEntry}]
    BY <1>i DEF Commit, Release, Locked, TypeOK
  <2>4. pc' \in [Requests -> Stages]
    BY <1>i, <1>p DEF TypeOK, Stages
  <2> QED BY <1>i, <1>u, <2>1, <2>2, <2>3, <2>4 DEF TypeOK
<1>2. NoOverdraft'
  BY <1>i, <1>f, <1>g DEF NoOverdraft
<1>3. ProgramOrder'
  BY <1>i, <1>s, <1>u, <1>p DEF ProgramOrder, TypeOK
<1>4. LockDiscipline'
  <2>1. pc'[r] = "audit" /\ \A q \in Requests : q # r => pc'[q] = pc[q]
    BY <1>p, <1>i DEF TypeOK
  <2>2. ASSUME NEW q \in Requests, Running(q)', NEW i \in DOMAIN op'[q].legs, Updated(q, i)'
        PROVE  lock'[op'[q].legs[i].wallet] = q
    <3>1. q # r /\ pc[q] = pc'[q]
      BY <2>1, <2>2 DEF Running
    <3>2. Running(q) /\ Updated(q, i) /\ i \in DOMAIN op[q].legs
      BY <3>1, <2>2, <1>u DEF Running, Updated
    <3>3. lock[op[q].legs[i].wallet] = q
      BY <3>2, <1>i DEF LockDiscipline
    <3>4. op[q].legs[i].wallet \in Wallets
      BY <3>2, LegFacts DEF Running
    <3> QED BY <3>1, <3>3, <3>4, <1>g, <1>u
  <2>3. ASSUME NEW q \in Requests, NEW w \in Wallets, lock'[w] = q
        PROVE  Running(q)' /\ Holds(q, w)'
    <3>1. lock[w] # r
      BY <2>3, WalletLedgerAssumption DEF Commit, Release
    <3>2. lock[w] = q /\ q # r /\ balance'[w] = balance[w] /\ pending'[w] = pending[w]
      BY <3>1, <2>3, <1>g
    <3>3. Running(q) /\ Holds(q, w)
      BY <3>2, <1>i DEF LockDiscipline
    <3>4. pc'[q] = pc[q]
      BY <3>2, <2>1
    <3> QED BY <3>2, <3>3, <3>4, <1>u DEF Running, Holds, Updated, Current
  <2> QED BY <2>2, <2>3 DEF LockDiscipline
<1>5. LedgerExplainsBalance'
  <2> SUFFICES ASSUME NEW w \in Wallets
               PROVE  /\ \A n \in 1..Len(ledger'[w]) :
                            ledger'[w][n].after = LedgerBalance(w, n - 1)' + ledger'[w][n].delta
                      /\ balance'[w] = LedgerBalance(w, Len(ledger[w]))'
    BY DEF LedgerExplainsBalance
  <2>0. /\ \A n \in 1..Len(ledger[w]) :
              ledger[w][n].after = LedgerBalance(w, n - 1) + ledger[w][n].delta
        /\ balance[w] = LedgerBalance(w, Len(ledger[w]))
    BY <1>i DEF LedgerExplainsBalance
  <2>1. CASE lock[w] # r
    BY <2>0, <2>1, <1>g DEF LedgerBalance
  <2>2. CASE lock[w] = r
    <3>0. ledger[w] \in Seq(Entry) /\ pending[w] \in Entry
      BY <2>2, <1>f, <1>i DEF TypeOK
    <3>a. ledger'[w] = Append(ledger[w], pending[w])
      BY <2>2, <1>f
    <3>k. PICK k \in Nat : k = Len(ledger[w])
      BY <3>0
    <3>1. /\ Len(ledger'[w]) = k + 1
          /\ ledger'[w][k + 1] = pending[w]
          /\ \A n \in 1..k : ledger'[w][n] = ledger[w][n]
      BY <3>0, <3>a, <3>k, AppendLedger
    <3>3. \A n \in 0..k : LedgerBalance(w, n)' = LedgerBalance(w, n)
      BY <3>1, <3>k DEF LedgerBalance
    <3>4. LedgerBalance(w, k + 1)' = pending[w].after
      BY <3>1, <3>k DEF LedgerBalance
    <3>5. ASSUME NEW n \in 1..(k + 1)
          PROVE  ledger'[w][n].after = LedgerBalance(w, n - 1)' + ledger'[w][n].delta
      <4>1. CASE n = k + 1
        <5>1. LedgerBalance(w, n - 1)' = balance[w]
          BY <4>1, <3>3, <3>k, <2>0
        <5> QED BY <4>1, <5>1, <3>1, <3>k, <2>2, <1>f
      <4>2. CASE n # k + 1
        <5>1. n \in 1..k /\ n - 1 \in 0..k
          BY <4>2
        <5> QED BY <5>1, <3>1, <3>3, <3>k, <2>0
      <4> QED BY <4>1, <4>2
    <3>6. balance'[w] = LedgerBalance(w, k + 1)'
      BY <3>4, <2>2, <1>f
    <3>7. Len(ledger'[w]) = k + 1
      BY <3>1, <3>k
    <3>8. LedgerBalance(w, Len(ledger[w]))' = LedgerBalance(w, k + 1)'
      BY <3>7 DEF LedgerBalance
    <3> QED BY <3>5, <3>6, <3>7, <3>8
  <2> QED BY <2>1, <2>2
<1> QED BY <1>1, <1>2, <1>3, <1>4, <1>5 DEF IInv

\* The audit log changes no row.
LEMMA AuditIInv ==
    ASSUME IInv, NEW r \in Requests, AuditLogged(r) \/ AuditThrows(r)
    PROVE  IInv'
<1>i. TypeOK /\ NoOverdraft /\ ProgramOrder /\ LockDiscipline /\ LedgerExplainsBalance
  BY DEF IInv
<1>u. UNCHANGED <<balance, exists, ledger, lock, pending, op, leg, before>>
  BY DEF AuditLogged, AuditThrows
<1>p. /\ pc' \in [Requests -> Stages]
      /\ pc[r] = "audit" /\ pc'[r] \in {"done", "unaudited"}
      /\ \A q \in Requests : q # r => pc'[q] = pc[q]
  BY <1>i DEF AuditLogged, AuditThrows, TypeOK, Stages
<1>1. TypeOK'
  BY <1>i, <1>u, <1>p DEF TypeOK
<1>2. NoOverdraft'
  BY <1>i, <1>u DEF NoOverdraft
<1>3. ProgramOrder'
  BY <1>i, <1>u, <1>p DEF ProgramOrder
<1>4. LockDiscipline'
  <2>1. \A q \in Requests : /\ Running(q)' <=> Running(q)
                            /\ pc'[q] = "commit" <=> pc[q] = "commit"
                            /\ pc[q] = "update" => pc'[q] = "update"
    BY <1>p DEF Running
  <2>2. \A q \in Requests, w \in Wallets : Holds(q, w) => Holds(q, w)'
    BY <2>1, <1>u, HoldsKept
  <2>3. \A q \in Requests : \A i : Updated(q, i)' <=> Updated(q, i)
    BY <2>1, <1>u DEF Updated
  <2> QED BY <2>1, <2>2, <2>3, <1>i, <1>u DEF LockDiscipline
<1>5. LedgerExplainsBalance'
  BY <1>i, <1>u DEF LedgerExplainsBalance, LedgerBalance
<1> QED BY <1>1, <1>2, <1>3, <1>4, <1>5 DEF IInv

LEMMA NextIInv == IInv /\ [Next]_vars => IInv'
<1> SUFFICES ASSUME IInv, [Next]_vars PROVE IInv'
  OBVIOUS
<1>1. ASSUME NEW r \in Requests, Begin(r)
      PROVE  IInv'
  BY <1>1, BeginIInv
<1>2. ASSUME NEW r \in Requests, Step(r)
      PROVE  IInv'
  <2>1. CASE ReadWallet(r) \/ MissWallet(r)
    BY <2>1, SelectIInv
  <2>2. CASE CreateWallet(r)
    BY <2>2, CreateIInv
  <2>3. CASE UpdateBalance(r)
    BY <2>3, UpdateIInv
  <2>4. CASE Commit(r)
    BY <2>4, CommitIInv
  <2>5. CASE RefuseWallet(r) \/ DuplicateWallet(r) \/ RefuseUpdate(r)
    BY <2>5, RollbackIInv DEF RefuseWallet, DuplicateWallet, RefuseUpdate, Running
  <2>6. CASE AuditLogged(r)
    BY <2>6, AuditIInv
  <2> QED BY <1>2, <2>1, <2>2, <2>3, <2>4, <2>5, <2>6 DEF Step
<1>3. ASSUME NEW r \in Requests, Abort(r)
      PROVE  IInv'
  BY <1>3, RollbackIInv DEF Abort
<1>4. ASSUME NEW r \in Requests, DeadlockVictim(r)
      PROVE  IInv'
  <2>1. Waiting(r)
    BY <1>4 DEF DeadlockVictim, Deadlocked
  <2>2. Running(r)
    BY <2>1 DEF Waiting, Running
  <2> QED BY <1>4, <2>2, RollbackIInv DEF DeadlockVictim
<1>5. CASE UNCHANGED vars
  <2>1. /\ balance' = balance /\ exists' = exists /\ ledger' = ledger /\ lock' = lock
        /\ pending' = pending /\ op' = op /\ pc' = pc /\ leg' = leg /\ before' = before
    BY <1>5 DEF vars
  <2> QED BY <2>1 DEF IInv, TypeOK, NoOverdraft, ProgramOrder, LockDiscipline,
                      LedgerExplainsBalance, LedgerBalance, Running, Updated, Holds, Current
<1>6. ASSUME NEW r \in Requests, AuditThrows(r)
      PROVE  IInv'
  BY <1>6, AuditIInv
<1> QED BY <1>1, <1>2, <1>3, <1>4, <1>5, <1>6 DEF Next
-----------------------------------------------------------------------------
(***************************************************************************)
(* What an operation leaves in the ledger.                                 *)
(***************************************************************************)

\* The wallets of an operation differ, so what it does to a wallet is the
\* delta of its leg there.
LEMMA DeltaOfLeg ==
    ASSUME NEW o, WellFormed(o), NEW i \in DOMAIN o.legs
    PROVE  Delta(o, o.legs[i].wallet) = o.legs[i].delta
<1>1. \A j, k \in DOMAIN o.legs : o.legs[j].wallet = o.legs[k].wallet => j = k
  BY DEF WellFormed
<1> DEFINE P(j) == j \in DOMAIN o.legs /\ o.legs[j].wallet = o.legs[i].wallet
           c == CHOOSE j \in DOMAIN o.legs : o.legs[j].wallet = o.legs[i].wallet
<1>2. c \in DOMAIN o.legs /\ o.legs[c].wallet = o.legs[i].wallet
  OBVIOUS
<1>3. c = i
  BY <1>1, <1>2
<1> QED BY <1>3 DEF Delta

\* The entries of r on w once the entry e has been appended.
LEMMA EntriesAppended ==
    ASSUME NEW q \in Requests, NEW w \in Wallets, NEW e \in Entry,
           ledger[w] \in Seq(Entry), ledger'[w] = Append(ledger[w], e)
    PROVE  EntriesOf(q, w)' = IF e.request = q THEN EntriesOf(q, w) \cup {Len(ledger[w]) + 1}
                                               ELSE EntriesOf(q, w)
<1>k. PICK k \in Nat : k = Len(ledger[w])
  OBVIOUS
<1>1. /\ DOMAIN ledger'[w] = 1..(k + 1) /\ DOMAIN ledger[w] = 1..k
      /\ ledger'[w][k + 1] = e
      /\ \A n \in 1..k : ledger'[w][n] = ledger[w][n]
  BY <1>k, AppendLedger
<1>2. \A n : n \in 1..(k + 1) <=> n \in 1..k \/ n = k + 1
  OBVIOUS
<1> QED BY <1>k, <1>1, <1>2 DEF EntriesOf

\* AllOrNothing of one request on one wallet.
Traced(r, w) ==
    IF Committed(r) /\ \E i \in DOMAIN op[r].legs : op[r].legs[i].wallet = w
    THEN /\ Cardinality(EntriesOf(r, w)) = 1
         /\ \A n \in EntriesOf(r, w) : ledger[w][n].delta = Delta(op[r], w)
    ELSE EntriesOf(r, w) = {}

\* A commit leaves one entry of r on each wallet of its legs.
LEMMA CommitTraces ==
    ASSUME IInv, NEW r \in Requests, Commit(r), NEW w \in Wallets, Traced(r, w)
    PROVE  Traced(r, w)'
<1>i. TypeOK /\ LockDiscipline
  BY DEF IInv
<1>1. pc[r] = "commit" /\ ~ Committed(r) /\ Committed(r)' /\ op' = op
  BY <1>i DEF Commit, TypeOK, Committed
<1>2. EntriesOf(r, w) = {}
  BY <1>1 DEF Traced
<1>3. CASE lock[w] = r
  <2>1. PICK i \in DOMAIN op[r].legs :
            /\ op[r].legs[i].wallet = w
            /\ pending[w] \in Entry
            /\ pending[w].request = r
            /\ pending[w].delta = op[r].legs[i].delta
    BY <1>1, <1>3, <1>i DEF LockDiscipline, Holds
  <2>2. ledger'[w] = Append(ledger[w], pending[w]) /\ ledger[w] \in Seq(Entry)
    BY <1>3, <1>i DEF Commit, TypeOK
  <2>3. EntriesOf(r, w)' = {Len(ledger[w]) + 1}
    BY <1>2, <2>1, <2>2, EntriesAppended
  <2>4. Cardinality(EntriesOf(r, w)') = 1
    BY <2>3, FS_Singleton
  <2>5. ledger'[w][Len(ledger[w]) + 1] = pending[w]
    BY <2>1, <2>2, AppendLedger
  <2>6. Delta(op[r], w) = op[r].legs[i].delta
    BY <1>1, <2>1, LegFacts, DeltaOfLeg
  <2> QED BY <1>1, <2>1, <2>3, <2>4, <2>5, <2>6 DEF Traced
<1>4. CASE lock[w] # r
  <2>1. ledger'[w] = ledger[w]
    BY <1>4 DEF Commit
  <2>2. EntriesOf(r, w)' = {}
    BY <1>2, <2>1 DEF EntriesOf
  <2>3. ~ \E i \in DOMAIN op[r].legs : op[r].legs[i].wallet = w
    BY <1>1, <1>4, <1>i DEF LockDiscipline, Running, Updated
  <2> QED BY <1>1, <2>2, <2>3 DEF Traced
<1> QED BY <1>3, <1>4

\* It leaves nothing on behalf of anybody else.
LEMMA CommitTracesOthers ==
    ASSUME IInv, NEW r \in Requests, Commit(r), NEW q \in Requests, q # r,
           NEW w \in Wallets, Traced(q, w)
    PROVE  Traced(q, w)'
<1>i. TypeOK /\ LockDiscipline
  BY DEF IInv
<1>1. pc[r] = "commit" /\ (Committed(q)' <=> Committed(q)) /\ op' = op
  BY <1>i DEF Commit, TypeOK, Committed
<1>2. EntriesOf(q, w)' = EntriesOf(q, w) /\ \A n \in EntriesOf(q, w) : ledger'[w][n] = ledger[w][n]
  <2>1. CASE lock[w] = r
    <3>1. pending[w] \in Entry /\ pending[w].request = r
      BY <1>1, <2>1, <1>i DEF LockDiscipline, Holds
    <3>2. ledger'[w] = Append(ledger[w], pending[w]) /\ ledger[w] \in Seq(Entry)
      BY <2>1, <1>i DEF Commit, TypeOK
    <3>3. EntriesOf(q, w)' = EntriesOf(q, w)
      BY <3>1, <3>2, EntriesAppended
    <3>4. \A n \in DOMAIN ledger[w] : ledger'[w][n] = ledger[w][n]
      BY <3>1, <3>2, AppendLedger
    <3> QED BY <3>3, <3>4 DEF EntriesOf
  <2>2. CASE lock[w] # r
    <3>1. ledger'[w] = ledger[w]
      BY <2>2 DEF Commit
    <3> QED BY <3>1 DEF EntriesOf
  <2> QED BY <2>1, <2>2
<1> QED BY <1>1, <1>2 DEF Traced

\* Whatever does not append to the ledger keeps the traces, provided that it
\* neither commits a request nor changes the operation of one made.
LEMMA TracesKept ==
    ASSUME NEW q \in Requests, NEW w \in Wallets, ledger' = ledger,
           Committed(q)' <=> Committed(q),
           Committed(q) => op'[q] = op[q],
           Traced(q, w)
    PROVE  Traced(q, w)'
<1>1. EntriesOf(q, w)' = EntriesOf(q, w)
  BY DEF EntriesOf
<1> QED BY <1>1 DEF Traced

\* A transaction selects, writes, commits or rolls back, and logs.
LEMMA StepKinds ==
    ASSUME NEW r \in Requests, Step(r) \/ Abort(r) \/ DeadlockVictim(r)
    PROVE  \/ ReadWallet(r) \/ MissWallet(r) \/ CreateWallet(r) \/ UpdateBalance(r)
           \/ Commit(r) \/ AuditLogged(r)
           \/ Running(r) /\ Rollback(r)
BY DEF Step, Abort, DeadlockVictim, Deadlocked, Waiting, Running,
       RefuseWallet, DuplicateWallet, RefuseUpdate

\* No statement breaks AllOrNothing; only a commit touches a ledger.
LEMMA NextTraces == IInv /\ AllOrNothing /\ [Next]_vars => AllOrNothing'
<1> SUFFICES ASSUME IInv, AllOrNothing, [Next]_vars, NEW q \in Requests, NEW w \in Wallets
             PROVE  Traced(q, w)'
  BY DEF AllOrNothing, Traced
<1>a. Traced(q, w)
  BY DEF AllOrNothing, Traced
<1>t. TypeOK
  BY DEF IInv
<1>1. ASSUME NEW r \in Requests, Commit(r)
      PROVE  Traced(q, w)'
  BY <1>1, <1>a, CommitTraces, CommitTracesOthers
<1>2. ASSUME NEW r \in Requests, Running(r), Rollback(r)
      PROVE  Traced(q, w)'
  <2>1. ledger' = ledger /\ op' = op /\ (Committed(q)' <=> Committed(q))
    BY <1>2, <1>t DEF Rollback, Running, TypeOK, Committed
  <2> QED BY <2>1, <1>a, TracesKept
<1>3. ASSUME NEW r \in Requests, Begin(r)
      PROVE  Traced(q, w)'
  <2>1. ledger' = ledger /\ (Committed(q)' <=> Committed(q))
    BY <1>3, <1>t DEF Begin, TypeOK, Committed
  <2>2. Committed(q) => op'[q] = op[q]
    BY <1>3, <1>t DEF Begin, TypeOK, Committed
  <2> QED BY <2>1, <2>2, <1>a, TracesKept
<1>4. ASSUME NEW r \in Requests,
             \/ ReadWallet(r) \/ MissWallet(r) \/ CreateWallet(r) \/ UpdateBalance(r)
             \/ AuditLogged(r) \/ AuditThrows(r)
      PROVE  Traced(q, w)'
  <2>1. ledger' = ledger /\ op' = op
    BY <1>4 DEF ReadWallet, MissWallet, CreateWallet, UpdateBalance, AuditLogged, AuditThrows
  <2>2. Committed(q)' <=> Committed(q)
    BY <1>4, <1>t DEF ReadWallet, MissWallet, CreateWallet, UpdateBalance, AuditLogged,
                      AuditThrows, TypeOK, Committed
  <2> QED BY <2>1, <2>2, <1>a, TracesKept
<1>5. CASE UNCHANGED vars
  <2>1. ledger' = ledger /\ op' = op /\ (Committed(q)' <=> Committed(q))
    BY <1>5 DEF vars, Committed
  <2> QED BY <2>1, <1>a, TracesKept
<1>6. ASSUME NEW r \in Requests, Step(r) \/ Abort(r) \/ DeadlockVictim(r)
      PROVE  \/ ReadWallet(r) \/ MissWallet(r) \/ CreateWallet(r) \/ UpdateBalance(r)
             \/ Commit(r) \/ AuditLogged(r)
             \/ Running(r) /\ Rollback(r)
  BY <1>6, StepKinds
<1> QED BY <1>1, <1>2, <1>3, <1>4, <1>5, <1>6 DEF Next

-----------------------------------------------------------------------------
(***************************************************************************)
(* Who can deadlock.                                                       *)
(***************************************************************************)

\* One leg for a credit or a debit; a contribution pays its group wallet
\* first and the platform wallet last.
LEMMA LockOrder ==
    ASSUME NEW o \in Operations, o.kind # "transfer"
    PROVE  /\ Len(o.legs) = 2 => /\ o.legs[1].wallet # Platform
                                 /\ o.legs[2].wallet = Platform
           /\ Len(o.legs) \in {1, 2}
<1>1. CASE \E w \in Wallets, a \in Amounts : o = CreditOp(w, a)
  BY <1>1 DEF CreditOp, Operation
<1>2. CASE \E w \in Wallets, a \in Amounts : o = DebitOp(w, a)
  BY <1>2 DEF DebitOp, Operation
<1>3. CASE \E w \in Wallets \ {Platform}, a \in Amounts : o = ContributionOp(w, a)
  <2>1. PICK w \in Wallets \ {Platform}, a \in Amounts : o = ContributionOp(w, a)
    BY <1>3
  <2>2. o.legs = ContributionLegs(w, a)
    BY <2>1 DEF ContributionOp, Operation
  <2> QED BY <2>2 DEF ContributionLegs
<1>4. ~ \E w \in Wallets : \E d \in Wallets \ {w}, a \in Amounts : o = TransferOp(w, d, a)
  BY DEF TransferOp, Operation
<1> QED BY <1>1, <1>2, <1>3, <1>4, OperationKinds

\* A waiting transaction that holds a row and is no transfer is a
\* contribution: it has updated its group wallet and waits for the platform's,
\* which is not the row it holds.
LEMMA WaitsForPlatform ==
    ASSUME IInv, NEW r \in Requests, Waiting(r), op[r].kind # "transfer",
           NEW w \in Wallets, lock[w] = r
    PROVE  w # Platform /\ Current(r).wallet = Platform
<1>1. Running(r) /\ Holds(r, w)
  BY DEF IInv, LockDiscipline
<1>2. pc[r] # "new" /\ pc[r] # "commit"
  BY DEF Waiting
<1>3. /\ op[r] \in Operations /\ leg[r] \in 1..Len(op[r].legs)
      /\ op[r].legs \in Seq(Leg)
  BY <1>2, LegFacts DEF WellFormed
<1>4. ~ (pc[r] = "update" /\ Current(r).wallet = w)
  BY DEF Waiting, CanLock
<1>5. PICK i \in DOMAIN op[r].legs : i < leg[r] /\ op[r].legs[i].wallet = w
  BY <1>1, <1>2, <1>4 DEF Holds, Updated
<1>6. i = 1 /\ leg[r] = 2 /\ Len(op[r].legs) = 2
  <2>1. PICK n \in {1, 2} : n = Len(op[r].legs)
    BY <1>3, LockOrder
  <2>2. i \in 1..n /\ leg[r] \in 1..n /\ i < leg[r]
    BY <2>1, <1>3, <1>5
  <2>3. ASSUME NEW m \in {1, 2}, NEW j \in 1..m, NEW k \in 1..m, j < k
        PROVE  j = 1 /\ k = 2 /\ m = 2
    BY <2>3
  <2>4. i = 1 /\ leg[r] = 2 /\ n = 2
    BY <2>2, <2>3
  <2> QED BY <2>1, <2>4
<1>7. op[r].legs[1].wallet # Platform /\ op[r].legs[2].wallet = Platform
  BY <1>3, <1>6, LockOrder
<1> QED BY <1>5, <1>6, <1>7 DEF Current

\* Rows are locked in one order but by transfers, so only they can wait in a circle.
LEMMA NoCycleWithoutTransfer == IInv => DeadlockNeedsTransfer
<1> SUFFICES ASSUME IInv, NEW S \in SUBSET Requests, S # {}, Deadlocked(S),
                    \A r \in S : op[r].kind # "transfer"
             PROVE  FALSE
  BY DEF DeadlockNeedsTransfer
<1>1. \A r \in S : Waiting(r) /\ Current(r).wallet \in Wallets /\ lock[Current(r).wallet] \in S
  <2> TAKE r \in S
  <2>1. Waiting(r) /\ lock[Current(r).wallet] \in S
    BY DEF Deadlocked
  <2>2. pc[r] # "new"
    BY <2>1 DEF Waiting
  <2> QED BY <2>1, <2>2, LegFacts
<1>2. \A r \in S : \E w \in Wallets : lock[w] = r
  BY <1>1 DEF Deadlocked
<1>3. \A r \in S : Current(r).wallet = Platform
  BY <1>1, <1>2, WaitsForPlatform
<1>4. PICK q \in S : lock[Platform] = q
  BY <1>1, <1>3
<1> QED BY <1>1, <1>4, WalletOpsAssumption, WaitsForPlatform
-----------------------------------------------------------------------------
\* IInv holds in every reachable state of every instance.
THEOREM Inductive == Spec => []IInv
BY InitIInv, NextIInv, PTL DEF Spec

\* The rows and the transactions' local state keep their shape.
THEOREM TypeCorrect == Spec => []TypeOK
<1>1. IInv => TypeOK
  BY DEF IInv
<1> QED BY <1>1, Inductive, PTL

\* However credits, debits, transfers and contributions interleave, whoever
\* rolls back and whichever deadlock victim is chosen, no committed balance is
\* negative or past the column's range.
THEOREM BalanceInRange == Spec => []NoOverdraft
<1>1. IInv => NoOverdraft
  BY DEF IInv
<1> QED BY <1>1, Inductive, PTL

\* Every wallet's committed ledger reproduces its balance entry by entry: no
\* update is lost and none is recorded twice.
THEOREM StatementOfAccount == Spec => []LedgerExplainsBalance
<1>1. IInv => LedgerExplainsBalance
  BY DEF IInv
<1> QED BY <1>1, Inductive, PTL

\* Every wallet a running transaction updated stays locked by it, and what it
\* holds uncommitted is the committed balance plus its leg.
THEOREM TwoPhaseLocking == Spec => []LockDiscipline
<1>1. IInv => LockDiscipline
  BY DEF IInv
<1> QED BY <1>1, Inductive, PTL

\* A request whose transaction committed left one entry on each wallet of its
\* legs, with the amount of the leg, whether it then returned or threw; one
\* under way or rolled back left no trace, whatever it had already updated.
THEOREM AllOrNothingHolds == Spec => []AllOrNothing
<1>1. Init => AllOrNothing
  BY DEF Init, AllOrNothing, EntriesOf, Committed
<1> QED BY <1>1, NextTraces, Inductive, PTL DEF Spec

\* Only transfers can close a cycle of waiting transactions: credits, debits
\* and contributions take their rows in one order, group wallet first and
\* platform wallet last, however many of them run.
THEOREM DeadlocksAreTransfers == Spec => []DeadlockNeedsTransfer
BY NoCycleWithoutTransfer, Inductive, PTL
-----------------------------------------------------------------------------
(* WalletLedger implements AtomicWallets: a service call takes effect in   *)
(* the single step that commits its transaction.                           *)

\* The abstract specification's copy of the operations is the same set.
LEMMA SameOperations == Atomic!Operations = Operations
BY DEF Atomic!Operations, Operations, Atomic!CreditOp, CreditOp, Atomic!DebitOp, DebitOp,
       Atomic!TransferOps, TransferOps, Atomic!TransferOp, TransferOp,
       Atomic!ContributionOp, ContributionOp, Atomic!ContributionLegs, ContributionLegs,
       Atomic!Operation, Operation, Atomic!CalculateFee, CalculateFee,
       Atomic!NetAmount, NetAmount, Atomic!PercentageFee, PercentageFee,
       Atomic!AtMost, AtMost, Atomic!AtLeast, AtLeast,
       Atomic!contributionFeePercent, contributionFeePercent,
       Atomic!flatFee, flatFee, Atomic!minFee, minFee, Atomic!maxFee, maxFee

LEMMA SameDelta == \A o, w : Atomic!Delta(o, w) = Delta(o, w)
BY DEF Atomic!Delta, Delta

LEMMA DeltaElsewhere ==
    ASSUME NEW o, NEW w, \A i \in DOMAIN o.legs : o.legs[i].wallet # w
    PROVE  Delta(o, w) = 0
BY DEF Delta

\* COMMIT adds the operation's legs to the committed balances, all at once.
LEMMA CommitApplies ==
    ASSUME IInv, NEW r \in Requests, Commit(r)
    PROVE  /\ balance' = [w \in Wallets |-> balance[w] + Delta(op[r], w)]
           /\ \A w \in Wallets : balance'[w] \in 0..MaxBalance
<1>s. pc[r] = "commit" /\ Running(r)
  BY DEF Commit, Running
<1>w. WellFormed(op[r])
  BY <1>s, LegFacts
<1>b. balance' = [w \in Wallets |-> IF lock[w] = r THEN pending[w].after ELSE balance[w]]
  BY DEF Commit
<1>1. ASSUME NEW w \in Wallets, lock[w] = r
      PROVE  pending[w].after = balance[w] + Delta(op[r], w)
  <2>1. PICK i \in DOMAIN op[r].legs :
            /\ op[r].legs[i].wallet = w
            /\ pending[w].after = balance[w] + op[r].legs[i].delta
    BY <1>s, <1>1, CommitFacts
  <2>2. Delta(op[r], w) = op[r].legs[i].delta
    BY <2>1, <1>w, DeltaOfLeg
  <2> QED BY <2>1, <2>2
<1>2. ASSUME NEW w \in Wallets, lock[w] # r
      PROVE  balance[w] = balance[w] + Delta(op[r], w)
  <2>1. \A i \in DOMAIN op[r].legs : lock[op[r].legs[i].wallet] = r
    BY <1>s DEF IInv, LockDiscipline, Updated
  <2>2. Delta(op[r], w) = 0
    BY <2>1, <1>2, DeltaElsewhere
  <2>3. balance[w] \in Int
    BY DEF IInv, TypeOK
  <2> QED BY <2>2, <2>3
<1>3. balance' = [w \in Wallets |-> balance[w] + Delta(op[r], w)]
  BY <1>b, <1>1, <1>2
<1>4. NoOverdraft'
  BY CommitIInv DEF IInv
<1> QED BY <1>3, <1>4 DEF NoOverdraft
-----------------------------------------------------------------------------
answer == [r \in Requests |-> Outcome(r)]

LEMMA InitRefines == Init => Atomic!Init
BY DEF Init, Atomic!Init, Outcome

\* A transaction that rolls back is an operation rejected.
LEMMA RollbackRefines ==
    ASSUME IInv, NEW r \in Requests, Running(r), Rollback(r)
    PROVE  Atomic!Reject(r)
<1>1. pc' = [pc EXCEPT ![r] = "failed"] /\ op' = op /\ balance' = balance
  BY DEF Rollback
<1>2. op[r] # NoOp /\ answer[r] = "pending"
  BY DEF IInv, ProgramOrder, Running, answer, Outcome
<1>3. answer' = [answer EXCEPT ![r] = "rejected"]
  BY <1>1 DEF answer, Outcome, IInv, TypeOK
<1> QED BY <1>1, <1>2, <1>3 DEF Atomic!Reject, answer

\* A statement inside an open transaction changes nothing anyone can see.
LEMMA StatementStutters ==
    ASSUME IInv, NEW r \in Requests,
           ReadWallet(r) \/ MissWallet(r) \/ CreateWallet(r) \/ UpdateBalance(r)
    PROVE  UNCHANGED Atomic!avars
<1>1. balance' = balance /\ op' = op
  BY DEF ReadWallet, MissWallet, CreateWallet, UpdateBalance
<1>2. \A q \in Requests : Outcome(q)' = Outcome(q)
  <2>1. ASSUME NEW q \in Requests, q # r
        PROVE  pc'[q] = pc[q]
    BY <2>1 DEF IInv, TypeOK, ReadWallet, MissWallet, CreateWallet, UpdateBalance
  <2>2. /\ pc[r] \notin {"audit", "done", "unaudited", "failed"}
        /\ pc'[r] \notin {"audit", "done", "unaudited", "failed"}
    BY DEF IInv, TypeOK, ReadWallet, MissWallet, CreateWallet, UpdateBalance
  <2> QED BY <2>1, <2>2 DEF Outcome
<1> QED BY <1>1, <1>2 DEF Atomic!avars

\* The audit log decides how an applied operation is answered.
LEMMA AuditAnswers ==
    ASSUME IInv, NEW r \in Requests, AuditLogged(r) \/ AuditThrows(r)
    PROVE  Atomic!Answer(r)
<1>t. pc \in [Requests -> Stages]
  BY DEF IInv, TypeOK
<1>1. answer[r] = "applied" /\ balance' = balance /\ op' = op
  BY DEF AuditLogged, AuditThrows, answer, Outcome
<1>2. CASE AuditLogged(r)
  <2>1. answer' = [answer EXCEPT ![r] = "returned"]
    BY <1>2, <1>t DEF AuditLogged, answer, Outcome
  <2> QED BY <2>1, <1>1 DEF Atomic!Answer, answer
<1>3. CASE AuditThrows(r)
  <2>1. answer' = [answer EXCEPT ![r] = "threw"]
    BY <1>3, <1>t DEF AuditThrows, answer, Outcome
  <2> QED BY <2>1, <1>1 DEF Atomic!Answer, answer
<1> QED BY <1>2, <1>3

\* Every statement is an abstract step or a stutter.
LEMMA StepRefines == IInv /\ [Next]_vars => [Atomic!Next]_(Atomic!avars)
<1> SUFFICES ASSUME IInv, [Next]_vars PROVE [Atomic!Next]_(Atomic!avars)
  OBVIOUS
<1>1. ASSUME NEW r \in Requests, Begin(r)
      PROVE  Atomic!Submit(r)
  <2>1. op[r] = NoOp /\ balance' = balance
    BY <1>1 DEF Begin, IInv, ProgramOrder
  <2>2. \E o \in Atomic!Operations : op' = [op EXCEPT ![r] = o]
    BY <1>1, SameOperations DEF Begin
  <2>3. answer' = answer
    BY <1>1 DEF Begin, answer, Outcome, IInv, TypeOK
  <2> QED BY <2>1, <2>2, <2>3 DEF Atomic!Submit, answer
<1>2. ASSUME NEW r \in Requests, Commit(r)
      PROVE  Atomic!Apply(r)
  <2>1. pc[r] = "commit" /\ pc' = [pc EXCEPT ![r] = "audit"] /\ op' = op
    BY <1>2 DEF Commit
  <2>2. op[r] # NoOp /\ answer[r] = "pending"
    BY <2>1 DEF IInv, ProgramOrder, answer, Outcome
  <2>3. answer' = [answer EXCEPT ![r] = "applied"]
    BY <2>1 DEF answer, Outcome, IInv, TypeOK
  <2>4. /\ balance' = [w \in Wallets |-> balance[w] + Atomic!Delta(op[r], w)]
        /\ \A w \in Wallets : balance'[w] \in 0..MaxBalance
    BY <1>2, CommitApplies, SameDelta
  <2> QED BY <2>1, <2>2, <2>3, <2>4 DEF Atomic!Apply, answer
<1>3. ASSUME NEW r \in Requests,
             RefuseWallet(r) \/ DuplicateWallet(r) \/ RefuseUpdate(r) \/ Abort(r) \/ DeadlockVictim(r)
      PROVE  Atomic!Reject(r)
  <2>1. Rollback(r)
    BY <1>3 DEF RefuseWallet, DuplicateWallet, RefuseUpdate, Abort, DeadlockVictim
  <2>2. Running(r)
    BY <1>3 DEF RefuseWallet, DuplicateWallet, RefuseUpdate, Abort, DeadlockVictim,
                Deadlocked, Waiting, Running
  <2> QED BY <2>1, <2>2, RollbackRefines
<1>4. ASSUME NEW r \in Requests,
             ReadWallet(r) \/ MissWallet(r) \/ CreateWallet(r) \/ UpdateBalance(r)
      PROVE  UNCHANGED Atomic!avars
  BY <1>4, StatementStutters
<1>5. ASSUME UNCHANGED vars
      PROVE  UNCHANGED Atomic!avars
  BY <1>5 DEF vars, Atomic!avars, Outcome
<1>6. ASSUME NEW r \in Requests, AuditLogged(r) \/ AuditThrows(r)
      PROVE  Atomic!Answer(r)
  BY <1>6, AuditAnswers
<1> QED BY <1>1, <1>2, <1>3, <1>4, <1>5, <1>6 DEF Next, Step, Atomic!Next

\* Every behaviour of the statement-level service, whatever its interleaving
\* and its failures, is a behaviour of the atomic one.
THEOREM Refinement == Spec => ImplementsAtomicWallets
<1> QED BY InitRefines, StepRefines, Inductive, PTL DEF Spec, ImplementsAtomicWallets, Atomic!Spec
=============================================================================
