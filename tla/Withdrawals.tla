----------------------------- MODULE Withdrawals -----------------------------
(***************************************************************************)
(* Withdrawal requests on the wallet of one group (WithdrawalService): a   *)
(* member asks, an administrator approves or rejects, and an approval      *)
(* debits the wallet, asks the provider to transfer, and credits the money *)
(* back when that failed.  Every step is a statement or call of its own;   *)
(* a debit or credit of WalletService is one step (AtomicWallets).  Every  *)
(* withdrawal is of one unit of money.                                     *)
(***************************************************************************)
EXTENDS Integers, FiniteSets

CONSTANTS
    Withdrawals,     \* WithdrawalRequest rows that may be created
    Calls,           \* requests running at once
    Faults,          \* which of FaultKinds may happen
    OpeningBalance   \* of the group's wallet

FaultKinds == {"accepted",   \* the provider answers PROCESSING and pays
               "timeout",    \* the provider pays, its answer is lost
               "audit",      \* the audit row fails after a debit or credit
               "statement",  \* a statement on the withdrawal or wallet throws
               "crash"}      \* the server dies

ASSUME WithdrawalsAssumption ==
    Faults \subseteq FaultKinds /\ OpeningBalance \in Nat /\ IsFiniteSet(Calls)

VARIABLES
    status,   \* of each row, "none" before it is created
    balance,  \* of the wallet
    books,    \* debits and credits made per withdrawal
    paid,     \* withdrawals the provider executed
    call,     \* where each request stands, and its withdrawal
    marred,   \* withdrawals met by one of the faults, a refused debit, or a
              \* second approval
    dropped   \* withdrawals whose approval ended before it was through

vars == <<status, balance, books, paid, call, marred, dropped>>

Final  == {"COMPLETED", "FAILED", "CANCELLED"}
Busy   == {"insert", "claim", "debit", "transfer", "complete", "fail", "credit", "creditBack", "failed", "cancel"}
Idle   == [pc |-> "idle"]

TypeOK ==
    /\ status \in [Withdrawals -> {"none", "PENDING", "PROCESSING"} \cup Final]
    /\ balance \in Nat
    /\ books \in [Withdrawals -> [debits : Nat, credits : Nat]]
    /\ paid \subseteq Withdrawals /\ marred \subseteq Withdrawals /\ dropped \subseteq Withdrawals
    /\ call \in [Calls -> {Idle} \cup [pc : Busy, w : Withdrawals]]

Init ==
    /\ status = [w \in Withdrawals |-> "none"]
    /\ balance = OpeningBalance
    /\ books = [w \in Withdrawals |-> [debits |-> 0, credits |-> 0]]
    /\ call = [c \in Calls |-> Idle]
    /\ paid = {} /\ marred = {} /\ dropped = {}

At(c, step, w) == call[c].pc = step /\ call[c].w = w
Go(c, w, step) == call' = [call EXCEPT ![c] = [pc |-> step, w |-> w]]
Start(c, w, step) == call[c].pc = "idle" /\ Go(c, w, step)
End(c)         == call' = [call EXCEPT ![c] = Idle]
Mar(w)         == marred' = marred \cup {w}
Drop(w)        == dropped' = dropped \cup {w}
-----------------------------------------------------------------------------
\* The balance is looked at, nothing is reserved.
CheckBalance(c, w) ==
    /\ status[w] = "none"
    /\ balance >= 1
    /\ Start(c, w, "insert")
    /\ UNCHANGED <<status, balance, books, paid, marred, dropped>>

CreateWithdrawal(c, w) ==
    /\ At(c, "insert", w)
    /\ status[w] = "none"
    /\ status' = [status EXCEPT ![w] = "PENDING"]
    /\ End(c)
    /\ UNCHANGED <<balance, books, paid, marred, dropped>>

\* approveWithdrawal and rejectWithdrawal read the row, then write it by id.
ReadPending(c, w) ==
    /\ status[w] = "PENDING"
    /\ Start(c, w, "claim") \/ Start(c, w, "cancel")
    /\ UNCHANGED <<status, balance, books, paid, marred, dropped>>

Reject(c, w) ==
    /\ At(c, "cancel", w)
    /\ status' = [status EXCEPT ![w] = "CANCELLED"]
    /\ End(c)
    /\ UNCHANGED <<balance, books, paid, marred, dropped>>

Claim(c, w) ==
    /\ At(c, "claim", w)
    /\ status' = [status EXCEPT ![w] = "PROCESSING"]
    /\ IF status[w] = "PENDING" THEN UNCHANGED marred ELSE Mar(w)
    /\ Go(c, w, "debit")
    /\ UNCHANGED <<balance, books, paid, dropped>>

\* updateWithdrawalStatus of the administration: the status alone.
OverrideStatus(w, s) ==
    /\ status[w] # "none"
    /\ status' = [status EXCEPT ![w] = s]
    /\ UNCHANGED <<balance, books, paid, call, marred, dropped>>
-----------------------------------------------------------------------------
TakeMoney(w) ==
    /\ balance >= 1
    /\ balance' = balance - 1
    /\ books' = [books EXCEPT ![w].debits = @ + 1]

ReturnMoney(w) ==
    /\ balance' = balance + 1
    /\ books' = [books EXCEPT ![w].credits = @ + 1]

Debit(c, w) ==
    /\ At(c, "debit", w)
    /\ TakeMoney(w)
    /\ \/ Go(c, w, "transfer") /\ UNCHANGED marred
       \/ "audit" \in Faults /\ Go(c, w, "creditBack") /\ Mar(w)
    /\ UNCHANGED <<status, paid, dropped>>

\* "Insufficient balance" lands in the catch block as well.
RefuseDebit(c, w) ==
    /\ At(c, "debit", w)
    /\ balance < 1
    /\ Go(c, w, "creditBack")
    /\ Mar(w)
    /\ UNCHANGED <<status, balance, books, paid, dropped>>

\* The provider executes a reference once.  It pays and says so, answers
\* anything but SUCCESSFUL and never pays (FAILED, or a PROCESSING that comes to
\* nothing), accepts and pays later, pays and its answer is lost, or refuses;
\* not paying now, it may have paid this reference before.
Transfer(c, w) ==
    /\ At(c, "transfer", w)
    /\ \/ paid' = paid \cup {w} /\ Go(c, w, "complete") /\ UNCHANGED marred
       \/ Go(c, w, "fail") /\ UNCHANGED <<paid, marred>>
       \/ "accepted" \in Faults /\ paid' = paid \cup {w} /\ Go(c, w, "fail") /\ Mar(w)
       \/ "timeout" \in Faults /\ paid' = paid \cup {w} /\ Go(c, w, "creditBack") /\ Mar(w)
       \/ Go(c, w, "creditBack") /\ UNCHANGED <<paid, marred>>
    /\ UNCHANGED <<status, balance, books, dropped>>

\* SUCCESSFUL is recorded as COMPLETED and ends the call; anything else as
\* FAILED, and the wallet is credited.
Record(c, w) ==
    /\ \/ At(c, "complete", w) /\ status' = [status EXCEPT ![w] = "COMPLETED"] /\ End(c)
       \/ At(c, "fail", w) /\ status' = [status EXCEPT ![w] = "FAILED"] /\ Go(c, w, "credit")
    /\ UNCHANGED <<balance, books, paid, marred, dropped>>

\* Mutant: the money stays where it is.
KeptBack(w) == UNCHANGED <<balance, books>>

CreditedInTry(w) == ReturnMoney(w)

\* The credit inside the try block: when its audit row fails after the commit,
\* the catch block credits again.
Credit(c, w) ==
    /\ At(c, "credit", w)
    /\ CreditedInTry(w)
    /\ \/ End(c) /\ UNCHANGED marred
       \/ "audit" \in Faults /\ Go(c, w, "creditBack") /\ Mar(w)
    /\ UNCHANGED <<status, paid, dropped>>

CreditedBack(w) == ReturnMoney(w)

\* The catch block credits whatever the cause was; its own failure ends the call.
CreditBack(c, w) ==
    /\ At(c, "creditBack", w)
    /\ CreditedBack(w)
    /\ \/ Go(c, w, "failed") /\ UNCHANGED <<marred, dropped>>
       \/ "audit" \in Faults /\ End(c) /\ Mar(w) /\ Drop(w)
    /\ UNCHANGED <<status, paid>>

\* Mutant: the catch block does not write the status.
StatusKept(w) == status

StatusAfterCatch(w) == [status EXCEPT ![w] = "FAILED"]

MarkFailed(c, w) ==
    /\ At(c, "failed", w)
    /\ status' = StatusAfterCatch(w)
    /\ End(c)
    /\ UNCHANGED <<balance, books, paid, marred, dropped>>

\* A statement that throws inside the try block leads to the catch block, one
\* outside of it ends the call.
StatementThrows(c, w) ==
    /\ "statement" \in Faults
    /\ call[c].pc # "idle" /\ call[c].w = w
    /\ IF call[c].pc \in {"debit", "complete", "fail", "credit"}
       THEN Go(c, w, "creditBack") /\ UNCHANGED dropped
       ELSE /\ call[c].pc # "transfer"
            /\ End(c) /\ Drop(w)
    /\ Mar(w)
    /\ UNCHANGED <<status, balance, books, paid>>

Crash ==
    /\ "crash" \in Faults
    /\ LET struck == {call[c].w : c \in {d \in Calls : call[d].pc # "idle"}}
       IN  marred' = marred \cup struck /\ dropped' = dropped \cup struck
    /\ call' = [c \in Calls |-> Idle]
    /\ UNCHANGED <<status, balance, books, paid>>

CallStep(c, w) ==
    \/ CreateWithdrawal(c, w) \/ Reject(c, w) \/ Claim(c, w) \/ Debit(c, w) \/ RefuseDebit(c, w)
    \/ Transfer(c, w) \/ Record(c, w) \/ Credit(c, w) \/ CreditBack(c, w) \/ MarkFailed(c, w)

Next ==
    \/ \E c \in Calls, w \in Withdrawals :
        CheckBalance(c, w) \/ ReadPending(c, w) \/ CallStep(c, w) \/ StatementThrows(c, w)
    \/ \E w \in Withdrawals, s \in Final : OverrideStatus(w, s)
    \/ Crash

Spec == Init /\ [][Next]_vars
-----------------------------------------------------------------------------
InFlight(w) == \E c \in Calls : call[c].pc # "idle" /\ call[c].w = w

\* Money taken for a withdrawal that was not paid comes back, through the try or
\* the catch block, whatever failed, as long as the approval was not cut off.
UnpaidGetsMoneyBack ==
    \A w \in Withdrawals \ (paid \cup dropped) :
        ~InFlight(w) => books[w].credits >= books[w].debits

\* The wallet is out exactly the withdrawals that were paid, unless a refused
\* debit, a second approval or one of the faults met the withdrawal.
UnmarredBooksBalance ==
    \A w \in Withdrawals \ marred :
        ~InFlight(w) => books[w].debits - books[w].credits = (IF w \in paid THEN 1 ELSE 0)

\* A withdrawal is left in PROCESSING only when its approval was cut off: every
\* other way through the try and catch blocks writes a final status.
ProcessingIsAttended ==
    \A w \in Withdrawals : status[w] = "PROCESSING" => InFlight(w) \/ w \in dropped

\* The following are not true of the code; the README names the configuration
\* that shows each of them violated.

\* The wallet and the money paid out of it never exceed what was there.
NothingMinted == balance + Cardinality(paid) <= OpeningBalance

\* A withdrawal that was rejected is not paid.
RejectedIsNotPaid == \A w \in Withdrawals : status[w] = "CANCELLED" /\ ~InFlight(w) => w \notin paid

\* A paid withdrawal is not reported as FAILED.
PaidIsNotFailed == \A w \in Withdrawals : status[w] = "FAILED" /\ ~InFlight(w) => w \notin paid
=============================================================================
