---------------------------- MODULE WalletLedger ----------------------------
(***************************************************************************)
(* WalletService (services/wallet.service.ts) one SQL statement at a time. *)
(*                                                                         *)
(* credit, debit, transfer and processContributionPayment each run in an   *)
(* interactive Prisma transaction under PostgreSQL's default isolation,    *)
(* READ COMMITTED: a SELECT returns the last committed row and takes no    *)
(* lock, an UPDATE waits for the row lock, is evaluated on the last        *)
(* committed row, and keeps the lock until the transaction ends.           *)
(*                                                                         *)
(* For every leg of its operation a transaction reads the wallet (the      *)
(* value that becomes the entry's balanceBefore), creates the row if it    *)
(* may and must, updates the balance, re-reads it (balanceAfter) and       *)
(* inserts a LedgerEntry.  The re-read and the insert touch only what the  *)
(* transaction has locked or created, so they are one step with the        *)
(* update.  After COMMIT the call still awaits its audit log, and throws   *)
(* where that throws although everything it did stands.                    *)
(***************************************************************************)
EXTENDS WalletOps, FiniteSets, Functions

CONSTANTS
    Inactive,    \* wallets whose status is not ACTIVE
    Created,     \* wallets whose row exists at the start
    NoRequest,   \* nobody holds the row lock
    NoOp,        \* the request has not been made yet
    NoEntry      \* no uncommitted version of the row

ASSUME WalletLedgerAssumption ==
    /\ Inactive \subseteq Wallets
    /\ Created \subseteq Wallets
    /\ \A w \in Wallets \ Created : OpeningBalance[w] = 0
    /\ NoRequest \notin Requests
    /\ NoOp \notin Operations
    /\ NoEntry \notin [request : Requests, delta : Int, before : Int, after : Int]

VARIABLES
    balance,   \* committed "balance" of each wallet, 0 while it has no row
    exists,    \* wallets with a committed row
    ledger,    \* committed LedgerEntry rows of each wallet, oldest first
    lock,      \* the transaction holding the wallet's row lock
    pending,   \* the entry of the lock holder's uncommitted update
    op,        \* the operation of each request
    pc,        \* where its transaction is
    leg,       \* the leg it is on
    before     \* the balance its last SELECT returned

vars == <<balance, exists, ledger, lock, pending, op, pc, leg, before>>

Entry == [request : Requests, delta : Int, before : Int, after : Int]

Stages == {"new", "read", "create", "update", "commit",
           "audit", "done", "unaudited", "failed"}
Running(r) == pc[r] \in {"read", "create", "update", "commit"}
Committed(r) == pc[r] \in {"audit", "done", "unaudited"}

Current(r) == op[r].legs[leg[r]]       \* the leg request r is on
Locked(r)  == {w \in Wallets : lock[w] = r}

Init ==
    /\ balance = OpeningBalance
    /\ exists = Created
    /\ ledger = [w \in Wallets |-> <<>>]
    /\ lock = [w \in Wallets |-> NoRequest]
    /\ pending = [w \in Wallets |-> NoEntry]
    /\ op = [r \in Requests |-> NoOp]
    /\ pc = [r \in Requests |-> "new"]
    /\ leg = [r \in Requests |-> 1]
    /\ before = [r \in Requests |-> 0]
-----------------------------------------------------------------------------
\* Mutant: a transaction that ends keeps its locks.
ReleaseNothing(r) == UNCHANGED lock /\ pending' = pending

\* ROLLBACK: whatever r locked, updated or inserted is undone.
Release(r) ==
    /\ lock' = [w \in Wallets |-> IF lock[w] = r THEN NoRequest ELSE lock[w]]
    /\ pending' = [w \in Wallets |-> IF lock[w] = r THEN NoEntry ELSE pending[w]]

\* Mutant: the statements run outside $transaction, so what was updated stays.
RollbackKeepsUpdates(r) ==
    LET kept == {w \in Wallets : lock[w] = r /\ pending[w] # NoEntry} IN
    /\ balance' = [w \in Wallets |-> IF w \in kept THEN pending[w].after ELSE balance[w]]
    /\ ledger' = [w \in Wallets |-> IF w \in kept THEN Append(ledger[w], pending[w])
                                                    ELSE ledger[w]]
    /\ Release(r)
    /\ pc' = [pc EXCEPT ![r] = "failed"]
    /\ UNCHANGED <<exists, op, leg, before>>

Rollback(r) ==
    /\ Release(r)
    /\ pc' = [pc EXCEPT ![r] = "failed"]
    /\ UNCHANGED <<balance, exists, ledger, op, leg, before>>

\* BEGIN: the service method is called and opens its transaction.
Begin(r) ==
    /\ pc[r] = "new"
    /\ \E o \in Operations : op' = [op EXCEPT ![r] = o]
    /\ pc' = [pc EXCEPT ![r] = "read"]
    /\ UNCHANGED <<balance, exists, ledger, lock, pending, leg, before>>

\* Only credit and debit look at wallet.status; nobody but
\* processContributionPayment (and its caller) creates a missing wallet.
Usable(r, w) == op[r].kind \in {"credit", "debit"} => w \notin Inactive

ReadWallet(r) ==
    /\ pc[r] = "read"
    /\ Current(r).wallet \in exists
    /\ Usable(r, Current(r).wallet)
    /\ before' = [before EXCEPT ![r] = balance[Current(r).wallet]]
    /\ pc' = [pc EXCEPT ![r] = "update"]
    /\ UNCHANGED <<balance, exists, ledger, lock, pending, op, leg>>

\* findByOwner returned nothing: getOrCreateWallet and the platform branch
\* of processContributionPayment go on to INSERT.
MissWallet(r) ==
    /\ pc[r] = "read"
    /\ op[r].kind = "contribution"
    /\ Current(r).wallet \notin exists
    /\ before' = [before EXCEPT ![r] = 0]
    /\ pc' = [pc EXCEPT ![r] = "create"]
    /\ UNCHANGED <<balance, exists, ledger, lock, pending, op, leg>>

\* "Wallet not found" and "Wallet is not active".
RefuseWallet(r) ==
    /\ pc[r] = "read"
    /\ IF Current(r).wallet \in exists
       THEN ~ Usable(r, Current(r).wallet)
       ELSE op[r].kind # "contribution"
    /\ Rollback(r)

\* INSERT INTO wallets: unique on (ownerType, ownerId), so it waits for a
\* concurrent insert of the same owner to end and fails if that committed.
CreateWallet(r) ==
    /\ pc[r] = "create"
    /\ lock[Current(r).wallet] = NoRequest
    /\ Current(r).wallet \notin exists
    /\ lock' = [lock EXCEPT ![Current(r).wallet] = r]
    /\ pc' = [pc EXCEPT ![r] = "update"]
    /\ UNCHANGED <<balance, exists, ledger, pending, op, leg, before>>

DuplicateWallet(r) ==
    /\ pc[r] = "create"
    /\ Current(r).wallet \in exists
    /\ Rollback(r)

\* Mutant: updates do not wait for each other.
CanLockAlways(r, w) == TRUE

\* The row lock is free or already ours.
CanLock(r, w) == lock[w] \in {NoRequest, r}

\* Mutant: read-modify-write from the balance the SELECT returned.
NewBalanceFromRead(r) == before[r] + Current(r).delta

\* incrementBalance and decrementBalance: balance = balance + delta, evaluated
\* on the committed row.
NewBalance(r) == balance[Current(r).wallet] + Current(r).delta

\* Mutant: the balance is checked on the value read earlier, not in the WHERE.
CoveredByRead(r) == Current(r).delta >= 0 \/ before[r] + Current(r).delta >= 0

\* A debit is guarded by WHERE balance >= amount, on the row as it is once
\* locked; the Int column bounds a credit.
Covered(r) == Current(r).delta >= 0 \/ NewBalance(r) >= 0
Fits(r) == NewBalance(r) <= MaxBalance

\* Mutant: balanceAfter is re-read on another connection, which does not see
\* the row this transaction has just inserted.
LedgerEntryOutside(r) ==
    [request |-> r, delta |-> Current(r).delta, before |-> before[r],
     after |-> IF Current(r).wallet \in exists THEN balance[Current(r).wallet] ELSE NoEntry]

LedgerEntry(r) ==
    [request |-> r, delta |-> Current(r).delta,
     before |-> before[r], after |-> NewBalance(r)]

UpdateBalance(r) ==
    /\ pc[r] = "update"
    /\ CanLock(r, Current(r).wallet)
    /\ Covered(r)
    /\ Fits(r)
    /\ lock' = [lock EXCEPT ![Current(r).wallet] = r]
    /\ pending' = [pending EXCEPT ![Current(r).wallet] = LedgerEntry(r)]
    /\ IF leg[r] < Len(op[r].legs)
       THEN /\ leg' = [leg EXCEPT ![r] = leg[r] + 1]
            /\ pc' = [pc EXCEPT ![r] = "read"]
       ELSE /\ pc' = [pc EXCEPT ![r] = "commit"]
            /\ UNCHANGED leg
    /\ UNCHANGED <<balance, exists, ledger, op, before>>

\* "Insufficient balance" (count = 0; a row that fails the WHERE as committed
\* is not waited for), or PostgreSQL's "integer out of range".
RefuseUpdate(r) ==
    /\ pc[r] = "update"
    /\ ~ Covered(r) \/ (CanLock(r, Current(r).wallet) /\ ~ Fits(r))
    /\ Rollback(r)

\* COMMIT: the updates, the entries and the new rows become visible at once.
Commit(r) ==
    /\ pc[r] = "commit"
    /\ balance' = [w \in Wallets |-> IF lock[w] = r THEN pending[w].after ELSE balance[w]]
    /\ ledger' = [w \in Wallets |-> IF lock[w] = r THEN Append(ledger[w], pending[w])
                                                   ELSE ledger[w]]
    /\ exists' = exists \cup Locked(r)
    /\ Release(r)
    /\ pc' = [pc EXCEPT ![r] = "audit"]
    /\ UNCHANGED <<op, leg, before>>

\* auditService.log is awaited after the transaction; then the call returns.
AuditLogged(r) ==
    /\ pc[r] = "audit"
    /\ pc' = [pc EXCEPT ![r] = "done"]
    /\ UNCHANGED <<balance, exists, ledger, lock, pending, op, leg, before>>

\* Its insert throws, or the process dies: the call fails, what it committed
\* stays.
AuditThrows(r) ==
    /\ pc[r] = "audit"
    /\ pc' = [pc EXCEPT ![r] = "unaudited"]
    /\ UNCHANGED <<balance, exists, ledger, lock, pending, op, leg, before>>

\* The process dies, the connection is lost, or Prisma's transaction timeout
\* expires: the database rolls the transaction back.
Abort(r) == Running(r) /\ Rollback(r)

\* r waits for a row some other transaction holds.
Waiting(r) ==
    \/ /\ pc[r] = "create"
       /\ Current(r).wallet \notin exists
       /\ lock[Current(r).wallet] # NoRequest
    \/ pc[r] = "update" /\ Covered(r) /\ ~ CanLock(r, Current(r).wallet)

\* A set of transactions each waiting for a member of the set, each waited
\* for by one: what PostgreSQL's deadlock detector looks for.
Deadlocked(S) ==
    /\ \A r \in S : Waiting(r) /\ lock[Current(r).wallet] \in S
    /\ \A r \in S : \E q \in S : lock[Current(q).wallet] = r

DeadlockVictim(r) ==
    /\ \E S \in SUBSET Requests : r \in S /\ Deadlocked(S)
    /\ Rollback(r)

Step(r) ==
    \/ ReadWallet(r) \/ MissWallet(r) \/ RefuseWallet(r)
    \/ CreateWallet(r) \/ DuplicateWallet(r)
    \/ UpdateBalance(r) \/ RefuseUpdate(r)
    \/ Commit(r) \/ AuditLogged(r)

Next ==
    \E r \in Requests :
        Begin(r) \/ Step(r) \/ AuditThrows(r) \/ Abort(r) \/ DeadlockVictim(r)

Spec == Init /\ [][Next]_vars

\* An open transaction issues its next statement unless it is waiting, and
\* PostgreSQL always breaks a deadlock.  Callers and failures are not fair.
Fairness == \A r \in Requests : WF_vars(Step(r)) /\ WF_vars(DeadlockVictim(r))

FairSpec == Spec /\ Fairness
-----------------------------------------------------------------------------
\* Type invariant: the shape of the rows and of the transactions' local state.
TypeOK ==
    /\ balance \in [Wallets -> Int]
    /\ exists \subseteq Wallets
    /\ ledger \in [Wallets -> Seq(Entry)]
    /\ lock \in [Wallets -> Requests \cup {NoRequest}]
    /\ pending \in [Wallets -> Entry \cup {NoEntry}]
    /\ op \in [Requests -> Operations \cup {NoOp}]
    /\ pc \in [Requests -> Stages]
    /\ leg \in [Requests -> {1, 2}]
    /\ before \in [Requests -> Int]

\* No interleaving of debits, transfers and credits takes a committed balance
\* below zero or past the Int column: the WHERE clause of decrementBalance is
\* what prevents it, the balance checks callers make beforehand are stale.
NoOverdraft == \A w \in Wallets : balance[w] \in 0..MaxBalance

\* Request r has updated the wallet of its leg i, and not ended yet.
Updated(r, i) == pc[r] = "commit" \/ i < leg[r]

\* Where a transaction can be in its operation.
ProgramOrder ==
    \A r \in Requests :
        /\ pc[r] = "new" <=> op[r] = NoOp
        /\ pc[r] = "new" => leg[r] = 1
        /\ op[r] # NoOp => leg[r] \in 1..Len(op[r].legs)
        /\ pc[r] = "commit" => leg[r] = Len(op[r].legs)

\* Wallet w carries request r's uncommitted update, or its fresh row.
Holds(r, w) ==
    \/ \E i \in DOMAIN op[r].legs :
          /\ Updated(r, i)
          /\ op[r].legs[i].wallet = w
          /\ pending[w] \in Entry
          /\ pending[w].request = r
          /\ pending[w].delta = op[r].legs[i].delta
          /\ pending[w].after = balance[w] + op[r].legs[i].delta
          /\ pending[w].after \in 0..MaxBalance
    \/ /\ pc[r] = "update"
       /\ Current(r).wallet = w

\* Two-phase locking: every wallet a running transaction has updated stays
\* locked by it, its uncommitted entry is the committed balance plus the leg's
\* amount, and nothing is locked that is not updated or freshly inserted.
LockDiscipline ==
    /\ \A r \in Requests : Running(r) =>
          \A i \in DOMAIN op[r].legs : Updated(r, i) => lock[op[r].legs[i].wallet] = r
    /\ \A r \in Requests, w \in Wallets : lock[w] = r => Running(r) /\ Holds(r, w)

\* The balance the ledger arrives at after its first n entries.
LedgerBalance(w, n) == IF n = 0 THEN OpeningBalance[w] ELSE ledger[w][n].after

\* Statement of account: every committed entry's balanceAfter is the previous
\* one's plus its own signed amount, and the last one is the wallet's balance,
\* so no update was lost and no entry is missing, doubled or out of order.
LedgerExplainsBalance ==
    \A w \in Wallets :
        /\ \A n \in 1..Len(ledger[w]) :
              ledger[w][n].after = LedgerBalance(w, n - 1) + ledger[w][n].delta
        /\ balance[w] = LedgerBalance(w, Len(ledger[w]))

\* The committed entries of request r on wallet w.
EntriesOf(r, w) == {n \in DOMAIN ledger[w] : ledger[w][n].request = r}

\* A request left exactly one entry on each wallet of its legs, with the leg's
\* amount, once its transaction has committed, and none before or if it was
\* rolled back: one that returned left all of them, one that threw left all
\* (its audit log failed) or none, and never a part.
AllOrNothing ==
    \A r \in Requests, w \in Wallets :
        IF Committed(r) /\ \E i \in DOMAIN op[r].legs : op[r].legs[i].wallet = w
        THEN /\ Cardinality(EntriesOf(r, w)) = 1
             /\ \A n \in EntriesOf(r, w) : ledger[w][n].delta = Delta(op[r], w)
        ELSE EntriesOf(r, w) = {}

\* A call that threw left nothing: what a caller's catch block may be tempted
\* to assume.  The audit log awaited after COMMIT refutes it.
ThrownLeftNothing ==
    \A r \in Requests, w \in Wallets :
        pc[r] \in {"failed", "unaudited"} => EntriesOf(r, w) = {}

\* What request r moved in or out of the platform's books once it committed:
\* nothing for a transfer, the whole amount the member paid for a contribution.
External(r) ==
    IF ~ Committed(r) \/ op[r].kind = "transfer" THEN 0
    ELSE IF op[r].kind = "debit" THEN -op[r].amount
    ELSE op[r].amount

\* Money is conserved: at every committed state the wallets together hold the
\* opening balances plus what the committed requests brought in; the fee and
\* the net amount of a contribution add up to what the member paid.
MoneyConserved ==
    SumFunction([w \in Wallets |-> balance[w] - OpeningBalance[w]])
        = SumFunction([r \in Requests |-> External(r)])

\* What the entry shows its reader adds up: balanceAfter is balanceBefore plus
\* or minus the amount.
EntryArithmetic ==
    \A w \in Wallets : \A n \in DOMAIN ledger[w] :
        ledger[w][n].after = ledger[w][n].before + ledger[w][n].delta

\* Lock order: a waits-for cycle needs a transfer between wallets the users
\* choose; credits, debits and contributions (group first, platform last)
\* never deadlock among themselves, however many run.
DeadlockNeedsTransfer ==
    \A S \in SUBSET Requests :
        S # {} /\ Deadlocked(S) => \E r \in S : op[r].kind = "transfer"

\* Every call ends: whatever it waits for is released or the cycle it is in
\* is broken.
EveryRequestEnds ==
    \A r \in Requests : pc[r] = "read" ~> pc[r] \in {"done", "unaudited", "failed"}

\* The statement-level service implements the atomic one.
Outcome(r) ==
    CASE pc[r] = "audit"     -> "applied"
      [] pc[r] = "done"      -> "returned"
      [] pc[r] = "unaudited" -> "threw"
      [] pc[r] = "failed"    -> "rejected"
      [] OTHER               -> "pending"

Atomic == INSTANCE AtomicWallets WITH outcome <- [r \in Requests |-> Outcome(r)]

\* Refinement: seen through its committed balances and answers, every
\* interleaving of the statements is a sequence of atomic operations.
ImplementsAtomicWallets == Atomic!Spec
=============================================================================
