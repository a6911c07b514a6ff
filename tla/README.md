# Kolo: a TLA+ model of the savings platform

Kolo is a savings-group platform: members of a group pay contributions through
a payment provider (Nomba), the money accumulates in the group's wallet, and
payouts and withdrawals move it out again. The backend is a Fastify server in
TypeScript over PostgreSQL (Prisma, READ COMMITTED) with BullMQ workers over
Redis in the same process; the frontend is a React application. This directory
holds TLA+ specifications of the parts that move money, decide who may act, or
keep two parties in step, the TLC configurations that check them, and TLAPS
proofs of their safety properties. Paths below are relative to `src/kolo-backend/src/`
unless they start with `docs/` (`src/docs/`) or `frontend/`
(`src/kolo-frontend/src/`).

## 1. The system

### Components

| Component | State it keeps | Operations | Correct when |
|---|---|---|---|
| **Wallets and ledger** (`services/wallet.service.ts`, `repositories/wallet.repository.ts`, `ledger-entry.repository.ts`) | `wallets.balance` (Int), `ledger_entries` | `credit`, `debit`, `transfer`, `processContributionPayment`, `getOrCreateWallet` | balances never negative or past the column; every operation all or nothing; the ledger explains every balance; no call hangs |
| **Fee engine** (`services/fee-engine.service.ts`) | none | `calculateContributionFee` | nearest kobo to 1 %, under its cap; fee and net add up |
| **Payments** (`services/payment.service.ts`) | `payments`, `transactions`, contribution status | `initiatePayment`, `verifyAndCompletePayment`, `processSuccessfulPayment` | one open payment per contribution, credited once, settled atomically, every charge credited |
| **Webhook intake** (`services/webhook.service.ts`) | `webhook_events` | `processNombaWebhook`, `processStoredNombaWebhook` | no event lost, duplicates harmless, "processed" only after the effect |
| **Job queues** (`jobs/`) | BullMQ jobs in Redis, `background_jobs` | `addJob`, workers with concurrency 5, `JOB_ATTEMPTS` attempts, repeatable jobs | every job ends; a job run again after a crash or a stall does no harm |
| **Payouts** (`services/payout.service.ts`, `jobs/processors/payout.processor.ts`) | `payouts`, `payout_recipients`, `payout_approvals` | create, approve, reject, cancel, process, transfer, retry | only approved payouts are paid; each recipient paid once and for exactly one debit; closed payouts stay closed |
| **Withdrawals** (`services/withdrawal.service.ts`) | `withdrawal_requests` | request, approve, reject, the administrator's override | every withdrawal that was not paid gets its money back; none stays PROCESSING by itself; the wallet is out what was paid |
| **Contribution plans and cycles** (`services/contribution-plan.service.ts`) | plans, cycles, `member_contributions` | create, update, pause, complete and delete a plan, generate its cycles and bill the members | cycles tile the plan's period; a month is billed once; a member once billed is billed until removed |
| **Groups, members, invitations** (`services/group.service.ts`, `group-invitation.service.ts`) | groups, memberships, invitations | create, invite, accept, expire, remove, delete | one membership per user; removal is final; a group keeps its owner |
| **Authentication, sessions, one-time codes** (`services/auth.service.ts`, `otp.service.ts`, `user.service.ts`) | users, sessions, codes, failed logins | register, verify, log in with a device challenge, refresh, log out, change and reset the password, clean up | a code works once and within its attempts; a refresh token is replaced once; a password change ends the sessions; only challenged devices are trusted |
| **Idempotency middleware** (`middleware/idempotency.middleware.ts`) | replies cached in Redis for a day | replay a POST with a known key | the handler of a key runs once, or as often as requests overlapped |
| **Reconciliation** (`services/reconciliation.service.ts`, its processor) | reconciliation records | sync, match, resolve | reports every mismatch |
| **Virtual accounts** (`services/virtual-account.service.ts`) | virtual accounts | create, deactivate | one account per owner |
| **Notifications, email, live events** (`services/notification.service.ts`, `email.service.ts`) | notifications, deliveries with status and attempts | create, deliver, retry, mark as read | a delivery is retried a bounded number of times, and recorded as what became of it |
| **Administration, analytics, audit, settings** (`services/admin.service.ts`, ...) | settings, audit log, the statuses it overrides | override a user's or a withdrawal's status, clean-up, queries | an override does not collide with the flow it cuts into |
| **Provider client** (`integrations/nomba/`) | access token in Redis | payment, transfer, verification calls, refresh of the token | a token is forgotten before the provider forgets it; a refused request is sent once more |
| **HTTP surface** (`app.ts`, `routes/`) | none | routing, validation, headers | (pure I/O) |
| **Web frontend** (`frontend/api/client.ts`, `app/store.ts`, pages) | access token per tab, refresh token in a cookie shared by tabs | requests, refresh on 401, queue of waiting requests, reload | no request waits for ever; tabs do not lose each other's session |

### How they interact

*Paying in.* `POST /payments` → `PaymentService.initiatePayment` locks the
contribution row, checks it, inserts a `Payment`, asks the provider for a
checkout and answers with its URL. Much later the provider calls the webhook;
`WebhookService` stores the event and calls `addJob`. A worker runs
`verifyAndCompletePayment`, which asks the provider whether the money came and
then, in one database transaction, calls `WalletService.processContributionPayment`
(group wallet, platform wallet, ledger) and `processSuccessfulPayment`
(`Transaction` row, `SUCCESSFUL`, `PAID`).

*Paying out.* An admin creates, approves and processes a payout; `processPayout`
queues a job per recipient. The worker debits the wallet through `WalletService`,
asks the provider for a transfer, records the answer, and credits the wallet
back when anything throws. `retryFailedTransfer` queues a recipient again.

*Withdrawing.* A member requests, an administrator approves: the approval debits
the wallet, asks `TransferService` for a transfer, and in its catch block credits
the wallet back. Payments, payouts and withdrawals reach the provider through
`NombaClient`, which shares one access token through Redis.

*Who may.* `AuthService` opens a session per login and rotates its refresh token;
`OtpService` keeps the codes that registration, login from an unknown device and
password reset ask for. In the browser every tab runs the same API client over
the one cookie.

*Members and bills.* An accepted invitation makes a member; creating a plan
generates its cycles and, cycle by cycle, a contribution for each active member,
which is what payments pay.

Everything shares PostgreSQL rows; nothing but row locks, one `WHERE balance >=
amount`, a few unique columns and BullMQ's job locks keeps concurrent requests
and workers apart.

### What is hard

* **Concurrency.** Requests interleave at every `await`; each queue has five
  worker slots per process; services read a status, await, and write it later.
* **Waiting.** Transfers lock two wallets in the order the caller names them.
* **Failure.** The process can die between two statements; `debitDone` of the
  payout worker lives in memory; a catch block cannot tell *which* step threw.
* **Retries and duplicates.** The provider redelivers events; BullMQ runs a job
  again after a throw, a crash or a stall, possibly beside the first execution.
* **Late or lost answers.** A transfer may be accepted although the call timed
  out; a charge may succeed after it was reported failed.
* **Numbers.** Rounding of fees, `Int` columns, months of unequal length, time
  windows and the lifetimes of tokens.
* **Staleness.** A token, a list, a membership count or an idempotency key is read
  once and used after others changed it.

`PROJECT.json` lists each of these hazards at its line with the properties that
watch it.

## 2. Modules

| Module | Models | Kind |
|---|---|---|
| `FeeEngine` | `fee-engine.service.ts` | operators |
| `WalletOps` | the operations of `WalletService` as lists of legs (wallet, signed amount) | operators |
| `AtomicWallets` | what `WalletService` promises: atomic operations | abstract specification |
| `WalletLedger` | `WalletService` one SQL statement at a time | detailed specification |
| `PaymentSettlement` | `initiatePayment`, webhook job, `verifyAndCompletePayment` | composes payments, webhook jobs and the wallet's transaction |
| `PayoutTransfers` | `PayoutService`, its queue and worker | composes payouts, jobs and the atomic wallet |
| `Withdrawals` | `WithdrawalService`, the administrator's override | withdrawals on the atomic wallet |
| `ProviderClient` | `NombaClient`, `NombaAuthService` | the shared token and its users |
| `WebhookIntake` | `processNombaWebhook` | deliveries, duplicate look-ups, the stored event |
| `Idempotency` | the idempotency middleware | overlapping posts with one key |
| `Accounts` | `AuthService`, `changePassword`, the clean-up of pending users | one account and its sessions |
| `OneTimeCodes` | `OtpService` | the codes `Accounts` takes for granted |
| `Cooperative` | `GroupService`, `GroupInvitationService`, `ContributionPlanService` | a group, its members and what its plans bill |
| `CycleSchedule` | the date arithmetic of `generateCycles` | the periods `Cooperative` numbers |
| `ApiClient` | `frontend/api/client.ts`, session store, the routes it calls | tabs of a browser against rotating tokens |
| `Deliveries` | `NotificationService`, `EmailService` | notifications and their emails |
| `WalletLedgerProofs` (with the refinement), `ConservationProofs`, `PaymentSettlementProofs`, `PayoutTransfersProofs`, `WithdrawalsProofs` (`Withdrawals`, `ProviderClient`), `IdentityProofs` (`Accounts`, `OneTimeCodes`), `CooperativeProofs` (`Cooperative`, `CycleSchedule`), `EdgeProofs` (`WebhookIntake`, `Idempotency`, `ApiClient`, `Deliveries`) | what is proved of them, section 4 | theorems, checked by TLAPS |
| `MCFeeEngine`, `MCWalletLedger`, `MCPaymentSettlement`, `MCPayoutTransfers`, `MCWithdrawals`, `MCIdentity`, `MCCooperative`, `MCEdge` | | TLC instances |

`MCWithdrawals` (`Withdrawals`, `ProviderClient`), `MCIdentity` (`Accounts`,
`OneTimeCodes`), `MCCooperative` (`Cooperative`, `CycleSchedule`) and `MCEdge`
(`WebhookIntake`, `Idempotency`, `ApiClient`, `Deliveries`) each hold modules
that share no variable. A behaviour runs one of them, chosen initially (`part`),
so the states explored are the sum of the parts, not their product.

### WalletLedger

A request is one call and one interactive transaction. `op` is the operation,
`leg` the wallet it is on and `pc` the next statement: `read` (the `findById` or
`findByOwner` whose value becomes `balanceBefore`), `create` (the INSERT of a
missing wallet), `update` (the increment or the guarded decrement), `commit`.
`lock` is PostgreSQL's row lock, `pending` the uncommitted ledger entry; only
`Commit` makes `balance`, `exists` and `ledger` change. Every operation then awaits
the audit log (stage `audit`), outside the transaction: the call returns (`done`)
or throws although its entries are committed (`unaudited`), which is why
`AllOrNothing` speaks of commits and not of what the caller was told
(`ThrownLeftNothing`, section 3). A SELECT takes no lock
and sees committed rows; an UPDATE waits, is evaluated on the committed row and
holds the lock to the end of the transaction. `Abort` is a dead process or
connection, or Prisma's timeout, at any statement; `DeadlockVictim` is
PostgreSQL's detector. Re-reading the balance and inserting the entry touch only
rows the transaction has locked, so they are one step with the update.
`FinancialTransaction` rows, which nothing reads back, are left out. No code
sets a wallet `FROZEN` or `CLOSED`, so the instances have `Inactive = {}`; the
constant is there because `credit` and `debit` test it.

### PaymentSettlement

An initiator is one request: `lock` → `locked` → `provider` or `account` →
`record` → `answer`. A worker slot runs a job: `read` → `verify` → `credit` →
`check` → `settle` → `mark`. The settlement transaction credits the group wallet
first, so it keeps that row locked (`walletLock`) until it ends; how the credit
itself works is `WalletLedger`'s business. `charge` is the provider's truth, and
`VerifyConfirms` needs it, while `VerifyDenies` does not: the order may not be
settled yet, or the response reads as FAILED.

A webhook body names a payment (`event`) and, in a field of its own, the reference
to verify (`about`, the order it belongs to). The code logs a reference that is
not the payment's and compares no amount, so with `ForeignReferences` an event may
pair any payment that has an order with any charge. The provider may answer with a
reference of its own (`Namings`); what the settlement goes on with is `wref`. A
Transaction's reference and a payment's are unique columns (`ReferenceTaken`, a
ROLLBACK). `processSuccessfulPayment` returns in two cases, and in both the
transaction that credited the wallet commits: `DuplicateReturn`, when the payment is
SUCCESSFUL, and `SupersededReturn`, when another payment that holds the verified
reference is; the latter's credits are counted in `strays`. `backing` is history:
which order each credit was made on; so is `overtaken`, the workers that had read a
payment before another worker settled it.

`Stall` is BullMQ's stalled check (the job runs again while its worker may go on),
`Crash` the death of the server: transactions roll back, committed rows and Redis
stay.

Statements that only read, or write rows nothing in the model reads, have no
step of their own; every place where one can throw is in `RequestThrows`,
`JobThrows`, `VerifyThrows` or `SettlementThrows`.

### PayoutTransfers

A request reads a payout, and writes its status in a later step. `rtodo` is the
loop of `processPayout`. A worker execution is `read` → `start` → `debit` →
`transfer` → `record`, or `fail` → `failed` through the catch block; `debitDone`
is the local flag of that name. Every recipient is owed one unit of money, so a
wallet balance is a number of recipients. The provider executes a transfer
reference at most once (the reference depends on payout and recipient only; it is
made of the first eight characters of their ids, which are taken to tell them
apart, as in `Withdrawals`) and `sent` is the set it pays.

Two variables are history. `overtaken` is as in `PaymentSettlement`: the executions
that had looked at a recipient's row before another recorded it as paid. `marred`
has the recipients met by one of the mishaps that unbalance the books of a single
job: the server died while money was at stake (`AtStake`: debited, and neither
recorded nor credited back), a living execution lost its job's lock, the transfer was
made but not answered or recorded, the audit log threw after the debit, or the credit
back threw. Any other fault leaves a recipient unmarred: refused debits and transfers,
a transfer that is accepted and never made, throws before the debit or after the
books are even, crashes and stalls without money at stake, retries of all these.
`Faults` is the set of things the environment does in
an instance, so that a run can tell which of them a property depends on:

| Fault | Effect |
|---|---|
| `accepted` | the provider answers that the transfer is under way |
| `timeout` | the call throws although the transfer was accepted |
| `audit` | the audit log written after the committed debit throws |
| `credit` | the credit back throws, and is only logged |
| `accounts` | a recipient account fails validation after the `Payout` row exists |
| `database` | any other statement throws |
| `crash`, `stall` | the server dies; a job's lock expires under its worker |

A refused transfer and an uncovered debit can always happen.

### Withdrawals

A call is one request; between two of its statements other calls run. An
approval is `claim` → `debit` → `transfer` → `complete`, or `fail` → `credit`
when the provider answers anything but SUCCESSFUL, or through the catch block,
`creditBack` → `failed`. The catch block is entered with no knowledge of what
was done before, so a refused debit credits money that was never taken
(`NothingMinted`). `books` counts the debits and credits of a withdrawal; `paid`
is what the provider executed. `marred` and `dropped` are history: which
withdrawals met a fault, a refused debit or a second approval, and whose approval
was cut off; the properties use them to say exactly when the books are right. That
the provider answers something other than SUCCESSFUL for a transfer it never makes
is no fault: it leads to `fail` and the credit inside the try block
(`CreditedInTry`). The fault `accepted` is such an answer to a transfer it does
make. `Faults` is otherwise as in `PayoutTransfers`. Every withdrawal is of one unit
of money.

### ProviderClient

`request` takes the cached token or authenticates and caches the new one with a
TTL one minute short of its lifetime (and at least one minute); a 401 deletes
whatever token is cached and the request is sent once more. `since` is when a
request got hold of its token, `waited` how old the token was when cached: they
are what the margin must cover. Without Redis each request authenticates for
itself; that branch is left out. That the provider keeps honouring older tokens
until they expire is an assumption.

### WebhookIntake, Idempotency

A delivery passes the age check (`Fresh`), then three look-ups (by event id, by
signature within the window, by the payload's reference), the INSERT and
`addJob`, each a step of its own. A message is an event with a stamp. An id need not
be the event's: `extractEventId` falls back to the reference of what the event is
about, and `findByEventId` ignores the type, so events may share an id (`Ids`);
`isDuplicate` compares events of one type (`Alike`). A copy
found by any look-up is acknowledged without anything else being done, which is
how an event stored by a call that died before `addJob` is never processed
(`ReceivedIsQueued`). Rows carry what the properties need: which rows of the
message there were when their call began, and how long it then took.

`Idempotency` is one key: look up, run the handler, store the reply. `faults`
and `lapses` count what lets the handler run again.

### Accounts and OneTimeCodes

`Accounts` is one user. A call's record holds what it read (`device`, `row`,
`password`) and where it stands; every `await` of `AuthService` separates two
steps. A session is a row of `sessions`, `open` until deleted; `from` is the row
it replaced. `password` is how often the password was set, `revoked` the last
one whose change deleted the sessions. Of the codes only whether a type has a
usable one is kept; after one is consumed or lost an older one may still be
usable (`CodeGone`), which is what `OneTimeCodes` says of them in detail: rows
with attempts and lock, the cooldown and the invalidation of older codes in
separate statements. A code's ten minutes end before a lock of fifteen does, so
a locked code never comes back. An expired session is deleted only when it is
presented; the clean-up of expired sessions is never run (see section 5).

### Cooperative and CycleSchedule

One group with its owner. Accepting an invitation reads it, inserts the member,
and closes the invitation; creating a plan counts the members, creates the
cycles, and for each cycle reads the members and bills those it read. Removing a
member keeps the row, and no invitation takes a removed member in again. Updates
of a plan touch its row only. `CycleSchedule` is the loop of `generateCycles` on
instants counted from the start of a year, two a day: `AddMonth` is JavaScript's
`setMonth(+1)`, which adds the length of the current month, so January 31 is
followed by March 3.

### ApiClient

A tab's request is `sent`, answered (`granted`, `refused`), or `queued` behind
the refresh that another request of the tab began; `for` is the request a
refresh will repeat. The server's part is the rotation of tokens as `Accounts`
has it: a refresh replaces the session of its cookie, once. All tabs share
`cookie`, and each load of the page begins with `initAuth`. `blame` collects what
legitimately ends a session: `fault` (a lost request or reply, a 429), `ended` (a
logout, a password change, an administrator), `hasty` (a login sent while
`initAuth` was under way). The page's own queries are `api` requests; when an
access token expires is left open, so an `api` request may be refused any time.

### Deliveries

A worker is an event handler creating a notification, or a request that retries
failed deliveries over the list it read once. `handed` counts how often the mail
server was given the message, `accepted` whether it ever took it. Every write of a
status counts an attempt, which is what ends the retries.

### Assumptions about the environment

* PostgreSQL READ COMMITTED as described above; a unique column refuses a second
  row; a transaction that ends releases its locks.
* BullMQ gives a waiting job to one slot; a slot that lost its job's lock cannot
  finish it; a job is failed after `JobAttempts` throws or more than
  `MaxStalledCount` stalls.
* The raw `FOR UPDATE` statement of `initiatePayment` names a relation,
  `"MemberContribution"`, that the Prisma schema maps to `member_contributions`.
  `LockRelationResolves` says whether the name resolves. Where it does not, no
  payment row is ever created and the rest of the module is unreachable
  (`PaymentSettlement_lock_relation.cfg` shows it); the runs take it as TRUE, so
  that they say something about the settlement code.
* The provider signs what it sends, delivers a message any number of times, and
  its clock may differ from the server's. Redis executes the commands of one
  connection in order.

## 3. Model checking

| Run | Instance | What it asks | Result |
|---|---|---|---|
| `wallet_safety` | 3 requests of any kind, a funded group wallet, one group and the platform without a row, amounts 100 and 250, `MaxBalance` 250; 382 k states | type, `NoOverdraft`, `LedgerExplainsBalance`, `AllOrNothing`, `MoneyConserved`, `LockDiscipline`, `DeadlockNeedsTransfer`, and the refinement `ImplementsAtomicWallets` | hold |
| `wallet_live` | 2 requests, two funded groups, no symmetry, `FairSpec`; 44 k states | `EveryRequestEnds`, deadlocks included | holds |
| `payment_safety` | 2 requests, 2 payments of one contribution, 2 events, 2 slots, `JobAttempts` 2, card only, events even for open charges and with the order of the other payment, references of the provider's own; 1.7 M states | `SettlementAtomic`, `CreditNeedsCharge`, `CreditsBoundedByWorkers`, `OpensAlone`, `OnlyOvertakenDisturb` | hold |
| `payment_live` | both methods, 1 event, 2 slots, `JobAttempts` 2, no symmetry, `FairSpec`; 111 k states | `EveryJobEnds`, `EveryInitiationEnds` | hold |
| `payment_double_credit` | two slots | `CreditedOnce` | violated |
| `payout_safety` | 1 recipient, 2 requests, 2 jobs, 2 slots, every fault of a transfer, `JobAttempts` 1; 2.0 M states | `ReversalNeedsDebit`, `SingleJobBalances`, `OnlyOvertakenDisturb` | hold |
| `payout_books` | 2 payouts competing for a balance of 1, 1 request, 2 jobs, 2 slots, `JobAttempts` 2, every fault but a stall and a credit back that throws; 1.8 M states | `SingleJobBalances` | holds |
| `payout_live` | 1 recipient, 2 jobs, 2 slots, `JobAttempts` 2, crashes and stalls, no symmetry, `FairSpec`; 161 k states | `EveryTransferEnds` | holds |
| `withdrawals_safety` | 2 withdrawals competing for a balance of 1, 2 calls, every fault; a token of 4 units with a margin of 1 watched for 6; 1.1 M states | `UnpaidGetsMoneyBack`, `UnmarredBooksBalance`, `ProcessingIsAttended`, `RefusedOnlyWhenDelayed` | hold |
| `identity_safety` | 2 calls, 1 device, 2 sessions, 2 passwords; 2 calls, 3 codes, 2 attempts; 2.1 M states | `ReplacedOnce`, `StaleSessionsBounded`, `KnownDeviceWasChallenged`, `OneTimeUse`, `GuessesBounded` | hold |
| `cooperative_safety` | 3 calls, the owner and one member with 2 invitations, a plan of 3 cycles; every plan that begins in the first 32 days and ends a number of weeks into half a year; 531 k states | `BillingStopsOnlyByRemoval`, `PeriodsTile`, `MonthBilledOnce` | hold |
| `edge_safety` | 2 deliveries at once of 3 events, two with one id, one without and like another by reference; 3 posts with one key; 2 tabs with 2 requests, 3 tokens; 2 workers, 2 deliveries, 3 attempts; 3.0 M states | `ReceivedIsKnown`, `StoredAgainOnlyAhead`, `RunsBounded`, `NobodyLeftWaiting`, `AloneNeverRefused`, `SessionKept`, `HandedOncePerWorker` | hold |

The type invariants of the modules that no run lists (`TypeOK` of
`PaymentSettlement` and `PayoutTransfers`, `TypesOK` of the other MC modules)
hold in the `_safety` configurations and can be added to them.

**Bounds of the wallet, payments and payouts.** Conflicts over a row need two
actors, a queue behind a lock three; a waits-for cycle with opposite transfers
needs two wallets, and one through the fee leg the platform as a third. Amounts
100 and 250 against a column of 250 give one debit that empties a wallet, one
that is refused, one credit that overflows, and a contribution with and one
without room for the platform's leg; 100 has a fee of 1 and 250 of 3 kobo. Two
payments of one contribution let a payment fail and the member start again; two
events and two slots are what a double settlement needs, and
`CreditsBoundedByWorkers` is stated in the number of slots so that the bound is
not mistaken for the code's. One retry (`JobAttempts` 2) and one stall
(`MaxStalledCount` 1, BullMQ's default) let a job run again for either reason and
for both. Only `payout_safety`, where two requests already queue two jobs and every
fault may happen, has one attempt; there a job runs again after a stall or a crash,
and `payout_books` and `payout_live` have the retries. The methods meet in
`payment_live` alone, because an event about a bank transfer touches no row of the
settlement. `Jobs` bounds how many transfers are ever queued: two is a payout
processed twice, or processed and retried. `MaxRetries` of `PayoutTransfers` is 1
in place of 3, the count at which a retry is refused.

**Bounds of the other parts.** Two calls are two requests of the same user,
admin or sender that overlap; `StaleSessionsBounded`, `OneTimeUse`,
`GuessesBounded`, `RunsBounded` and `HandedOncePerWorker` are stated in the number
of calls, so that they do not hide the overlap behind the bound. `MaxSessions` 2
lets a session be replaced, `MaxPasswords` 2 a password be changed (the first is
set by the registration, so that fewer than one makes no sense);
`MaxAttempts` 2 in place of 3 still separates a guess that counts from one that
locks. With two requests that is three `Spreads`, so `GuessesBounded` allows four
wrong guesses where the documented limit (`GuessLimit`) would be two. A third call
in `Cooperative` lets an acceptance, a second invitation and the billing of a plan
meet; three cycles let a member be billed, missing and billed again if the code
allowed it. The half year has months of 31, 28 and 30
days and the plans begin on each day of the longest of them, at noon and at
midnight. `Window` 1 and `MaxClock` 2 let a message be stored, age, and be late;
two rows are a message stored twice. The three events are a failure and a success of
one payment, whose reference is the id of both, and a success without an id that has
the reference of the other. `Redis` is FALSE in `edge_safety`, because none of its
properties looks at what is queued; `Edge_refuted` has it TRUE. Three tokens are a login and two refreshes,
one of which can be wasted; two tabs race for one cookie, two slots in a tab are
the request that refreshes and the one that waits. Three posts are one that
stores a reply, one that overlaps it and one that comes later.

**Two slots.** The server starts five worker slots per queue, and no run has fewer
than two. With two, a SUCCESSFUL payment can be credited again or overwritten, and a
SUCCESSFUL recipient overwritten (`payment_double_credit` and the refuted
configurations below). `OnlyOvertakenDisturb`, of either module, is what does hold:
only a worker that read the row before another recorded the success can do it. No
redelivery, retry, stall or restart that begins afterwards disturbs a success, and
`CreditsBoundedByWorkers` is how often it can happen.

**Fairness.** In `WalletLedger` an open transaction issues its next statement
unless it is waiting, and PostgreSQL's deadlock detector runs. In
`PaymentSettlement` and `PayoutTransfers` a request that was let in and a worker
that has or can take a job keep running (the event loop and BullMQ do that), and
the stalled check looks at jobs whose worker died (BullMQ runs it every 30 s).
Callers, members, the provider's willingness to send events, and every failure
(`Abort`, `RequestThrows`, `SettlementThrows`, `Crash`, `Stall` of a live worker)
are not fair: nothing may depend on them happening. All is weak fairness. The
other modules state safety only: nothing in their code retries what was dropped,
so what eventually happens there rests with the callers. `NobodyLeftWaiting` is
the safety half of a liveness question: whoever waits, waits for something under
way.

**Deadlock** checking is off everywhere because an instance really stops: its
requests, events, rows or tokens are used up. `EveryRequestEnds`, `EveryJobEnds`,
`EveryInitiationEnds` and `EveryTransferEnds` are what rules out waiting forever.

**Symmetry** is used in safety instances only, over sets whose members no action
or property tells apart. `MCEdge` exchanges the pairs of its parts in one group of
four permutations.

### Findings

`payment_double_credit`: two workers verify one payment; the second finds it
SUCCESSFUL in `services/payment.service.ts:262-265`, where the duplicate check
*returns* instead of throwing, so the transaction that has already credited the
wallet commits. `docs/payment-flow.md:254` promises the opposite.

Further configurations end with a counterexample to something the documentation
or the code's evident intention says. They are no regular runs and can be run by
hand with the MC module of their name's prefix. A `_refuted` configuration lists
several properties, all but one commented out: TLC stops at the first.

| Configuration | Property | Code | Against |
|---|---|---|---|
| `WalletLedger_entries` | `EntryArithmetic` | `wallet.service.ts:81`: `balanceBefore` is read without a lock, so `balanceBefore ± amount` need not be `balanceAfter` | `docs/features.md:143` |
| | `ThrownLeftNothing` | `wallet.service.ts:100,139,215,300`: the audit log is awaited after COMMIT, a call that throws there has moved the money | |
| `FeeEngine_documented` | `FeeAsDocumented` | `fee-engine.service.ts`: the cap is 2000 *kobo* | `docs/payment-flow.md:203` |
| `PaymentSettlement_refuted` | `ProcessedMeansCredited` | `payment.service.ts:359`: errors of the settlement are swallowed and the event is marked processed | `docs/webhook-flow.md:195` |
| | `SuccessIsFinal` | `payment.service.ts:335`: FAILED is written over SUCCESSFUL | `docs/payment-flow.md:230` |
| | `OneSettlementEach` | `payment.service.ts:91-96`: a FAILED payment whose charge succeeds later settles beside a new one | |
| | `CreditedOnItsCharge` | `webhook.service.ts:158-166`, `payment.service.ts:328-333`: the reference to verify comes from the webhook, that it is another payment's is logged only | |
| | `EveryCreditHasTransaction` | `payment.service.ts:267-275`: the second duplicate check returns too, after the wallet was credited | |
| `PaymentSettlement_bank_transfer` | `ProcessedMeansCredited` | `webhook.service.ts:185`: virtual account transactions are logged only | `docs/webhook-flow.md:31` |
| `PaymentSettlement_lock_relation` | `InitiationReachesRow` | `payment.service.ts:76`: `"MemberContribution"` is not a table | `docs/payment-flow.md:45` |
| `PayoutTransfers_refuted` | `PaidIsDebited` | `payout.processor.ts:83`: `addJob` throws for a queue nobody creates, after the transfer was accepted | `docs/payout-flow.md:295` |
| | `PaidIsDebited`, `Faults = {}` | `payout.service.ts:237`: a retried job has no `groupId` and debits nothing | `docs/payout-flow.md:295` |
| | `DebitedOnce` | `payout.service.ts:196`: two process requests queue a recipient twice | `docs/payout-flow.md:296` |
| | `ClosedIsFinal` | `payout.service.ts:140`: an approval overwrites a rejection made meanwhile | `docs/payout-flow.md:22` |
| | `NoSimilarPending` | `payout.service.ts:396-402`: check and insert are not one transaction | |
| | `PaidRowIsFinal` | `payout.processor.ts:37-45,114`: a row read before another job recorded SUCCESSFUL is written to PROCESSING or FAILED after it | |
| | `EveryPayoutEnds` | `payout.service.ts:205`: nothing moves a payout out of PROCESSING | `docs/payout-flow.md:16` |
| `Withdrawals_refuted` | `NothingMinted` | `withdrawal.service.ts:106-107`: the catch block credits a debit that was refused | |
| | `RejectedIsNotPaid` | `withdrawal.service.ts:82-87`: an approval and a rejection both read PENDING | |
| | `PaidIsNotFailed` | `withdrawal.service.ts:103-105`: PROCESSING is recorded as FAILED and credited back | |
| | `RefreshHelps` | `nomba.client.ts:34-37`: the one retry may take a token another request cached | `docs/nomba-integration.md:310` |
| `Withdrawals_short` | `RefusedOnlyWhenDelayed` | `nomba.auth.ts:76-77`: a token of less than two minutes is cached for one | |
| `Identity_refuted` | `GuessLimit` | `otp.service.ts:77-83`: overlapping guesses read one counter | `docs/authentication.md:231` |
| | `CooldownKept` | `otp.service.ts:21-35`: older codes are invalidated before the cooldown is looked at, and only unused ones count | `docs/authentication.md:232` |
| | `CleanupKeepsVerified` | `security.processor.ts:60`: users found PENDING are deleted by id | |
| | `RegistrationKeepsActive` | `auth.service.ts:89`: a repeated registration writes the password of an account verified meanwhile | |
| `Cooperative_refuted` | `EveryCycleBilled` | `contribution-plan.service.ts:206`: plan, cycles and bills are separate statements | |
| | `ExpectsWhatItBills` | `contribution-plan.service.ts:161`: members are counted before they are billed | |
| | `GroupHasOwner` | `group.service.ts:21-42`: the group is committed before its owner | |
| | `AcceptedIsFinal` | `group-invitation.service.ts:103-106`: an acceptance is overwritten by EXPIRED | |
| | `DeletedGroupIsClosed` | `group.service.ts:113`: no other operation looks at the group's status | |
| | `NoMonthSkipped` | `contribution-plan.service.ts:182`: `setMonth` runs over a short month | |
| `Edge_refuted` | `ReceivedIsStored` | `webhook.service.ts:197-200`, `webhook.repository.ts:52-54`: a success that follows a failure of one reference is taken for its duplicate | |
| | `ReceivedIsQueued` | `webhook.service.ts:80-99`: stored, never queued, and a duplicate from then on | `docs/webhook-flow.md:195` |
| | `MessageStoredOnce` | `webhook.service.ts:54-80`: overlapping copies of a message without an id | |
| | `RunsOnce`, `SameReply` | `idempotency.middleware.ts:11`: nothing marks the key as taken | |
| | `SentWasAccepted` | `email.service.ts:48-67`: the failure is swallowed and `notification.service.ts:94` then records SENT, so it is never retried | `docs/features.md:37`, `docs/monitoring.md:322` |
| | `ReadStaysRead` | `notification.service.ts:50`: SENT is written over READ | |
| | `StaysOnPage`, `LoadsOnce` | `frontend/api/client.ts:102-109`: a tab whose token another tab spent is sent to `/login`; a dead cookie reloads the page again and again, until the rate limit | |
| | `LogoutIsFinal` | `frontend/api/client.ts:90-99`: the reply to a refresh sent before the logout sets the cookie again | |

## 4. Proofs

A run shows a property on a small instance; the theorems below show it for every
value of the constants that satisfies the named assumptions: any number of
wallets, requests, workers, jobs, events, users and plans, any amounts, windows,
limits and calendars, and any choice of faults. The
assumptions are those of the modules (`WalletOpsAssumption`, ...): types of the
constants, and that the sets a proof counts over are finite, which rows and
requests of a running server are. TLC evaluates them in the runs of the module.

| Module | Theorem | States |
|---|---|---|
| `WalletLedgerProofs` | `TypeCorrect`, `BalanceInRange`, `StatementOfAccount`, `TwoPhaseLocking` | `TypeOK`, `NoOverdraft`, `LedgerExplainsBalance`, `LockDiscipline` |
| | `AllOrNothingHolds` | `AllOrNothing` |
| | `DeadlocksAreTransfers` | `DeadlockNeedsTransfer` |
| | `FeeOfEveryAmount`, `NetNeverShrinks` | the fee of every natural amount |
| | `Refinement` | `ImplementsAtomicWallets` |
| `ConservationProofs` | `Conservation` | `MoneyConserved`, for finite sets of wallets and requests |
| `PaymentSettlementProofs` | `AllOfASettlement`, `MoneyComesFromAPayer`, `SurplusCreditsBounded`, `PaymentsOpenAlone` | `SettlementAtomic`, `CreditNeedsCharge`, `CreditsBoundedByWorkers`, `OpensAlone` |
| | `SuccessDisturbedOnlyFromBefore` | `OnlyOvertakenDisturb` |
| `PayoutTransfersProofs` | `NothingCreditedUndebited` | `ReversalNeedsDebit` |
| | `PaidDisturbedOnlyFromBefore` | `OnlyOvertakenDisturb` |
| | `OnlyJobBalances` | `SingleJobBalances` |
| `WithdrawalsProofs` | `NoneLeftProcessing`, `FailureReturnsMoney`, `BooksBalance` | `ProcessingIsAttended`, `UnpaidGetsMoneyBack`, `UnmarredBooksBalance` |
| | `TokenOutlivesCache` | `RefusedOnlyWhenDelayed`, where `Lifetime - Margin >= MinTtl` |
| `IdentityProofs` | `EachReplacedOnce`, `StaleSessionsAreFew`, `DevicesWereChallenged` | `ReplacedOnce`, `StaleSessionsBounded`, `KnownDeviceWasChallenged` |
| | `CodesAreUsedOnce`, `GuessesAreBounded` | `OneTimeUse`, `GuessesBounded` |
| `CooperativeProofs` | `BilledUntilRemoved`, `AcceptedMakesMember` | `BillingStopsOnlyByRemoval`, `AcceptedHasMember` |
| | `PeriodsCoverThePlan`, `NoMonthBilledTwice` | `PeriodsTile`, `MonthBilledOnce` |
| `EdgeProofs` | `ReceivedOrTakenForAnother`, `WindowsMeet` | `ReceivedIsKnown`, `StoredAgainOnlyAhead` |
| | `ExecutionsBounded` | `RunsBounded` |
| | `QueueIsAttended`, `AloneIsNeverRefused`, `SessionIsKept` | `NobodyLeftWaiting`, `AloneNeverRefused`, `SessionKept` |
| | `HandedOncePerWorkerHolds` | `HandedOncePerWorker`, where `MaxRetries <= 3` |

The type invariants of the other specifications are theorems too (`Typing`,
`IntakeTyping`, `AccountsTypeCorrect`, `CodesTypeCorrect`, `BrowserTypeCorrect`;
those of `Idempotency`, `ProviderClient` and `Deliveries` are part of `PostsInv`,
`TokenInv` and `DeliveriesInv`). `FeeEngine_nearest.cfg` lets TLC look at the two
formulas about the fee on three windows of amounts.

Two theorems have a hypothesis of their own, and it is not there for the proof. A
token that lives for less than the margin and `MinTtl` together is cached beyond its
margin (`Withdrawals_short`). With more
than three retries a worker that recorded its failure may list the row again and
hand it over once more; three is the default of `EMAIL_MAX_RETRIES`
(`config/env.config.ts:136`).

### The inductive invariants

Hardly any of the properties is inductive. What had to be added is where the
argument for the code lies.

* **Wallets.** That a commit keeps a balance in range was decided when its update
  was checked, statements earlier. `IInv` adds `ProgramOrder` (where a transaction
  can be) and `LockDiscipline`: whatever a transaction updated it still has
  locked, and its pending entry is the committed balance plus its leg, in range.
  Only the lock holder's commit changes a balance, so that stays true until it
  commits. There is one lemma per statement, the audit log after COMMIT included.
  `AllOrNothing` is inductive beside
  `IInv`; only a commit writes ledgers, and it appends one entry for each leg.
  `DeadlockNeedsTransfer` follows from `IInv` alone: credits, debits and
  contributions lock the group's row before the platform's and wait for nothing
  while they hold the latter.
* **Refinement.** The mapping keeps `balance` and `op` and reads `outcome` off
  `pc`. `Begin` is `Submit`, `Commit` is `Apply` (`CommitApplies`: the committed
  legs add up to `Delta`), the audit log is `Answer`, every rollback is `Reject` and
  every other statement stutters. This is what entitles `PayoutTransfers` and `Withdrawals` to treat a
  debit or a credit as one step.
* **Conservation.** A commit changes the balances of one or two wallets by legs
  that add up to what the operation brings in (`LegsAddUp`). That the sums then
  agree needs that a sum over a finite set exists and does not depend on the
  order (`FoldExists`, `SumOfAny`, `SumsAgree`).
* **Payments.** `Shape` says what a request or a worker knows at each step: a
  payment being opened cannot have been charged yet, a stored event names a payment
  that has an order, and what a worker settles is a reference of the order it asked
  about. `SettlementAtomic` needs `ReferenceHeld` beside it: a SUCCESSFUL payment
  holds the reference of one of its Transactions, so that whoever yields to it in
  `SupersededReturn` verified the charge that Transaction is of. `Confirmed` says a worker past `verify` settles a paid charge. `Bounded`
  counts: once a payment is SUCCESSFUL, the credits made and the slots still ahead
  of the check (`Ahead`) together do not exceed the slots for each of its
  Transactions; each credit takes its slot out of that set and none joins. That is
  why retries, stalls, redeliveries and crashes add no credit, and why five slots
  allow five. `OvertakenOrFresh`: whoever is between the two reads of a SUCCESSFUL
  payment is in `overtaken`.
* **Payouts.** `Covered` counts in the same way: what was credited back and the
  workers that hold a debit (`Holding`) do not exceed what was debited. The retry
  count of `TypeOK` can pass its limit by the requests that read it together
  (`RetriesShape`). `OvertakenShape` is the like of `OvertakenOrFresh`. For
  `SingleJobBalances`, `Straight` keeps for every step of the only job of an unmarred
  recipient what its books are there (`JobBooks`, `WorkerBooks`): one unit out between
  the debit and its reversal or the transfer, none or one otherwise. A job in BullMQ's
  hands with no living execution (`Abandoned`) has even books, because a crash or a
  stall with money at stake mars.
* **Withdrawals.** `Attended`: a row in PROCESSING has a call at work or was cut
  off. `Owed`: credits, with the calls that still owe one (from the transfer to the
  credit, in the try block or the catch block), cover the debits of every withdrawal
  that was neither paid nor dropped. `Straight`: an
  unmarred withdrawal has at most one approval, and what it is out is told by the
  step of that approval.
* **The provider's token.** `HeldInTime`: between its issue and its use a token
  spends the time to live it was cached for at most, the time it `waited` to be
  cached, and what the request held it. Whoever overwrote or deleted the cache
  entry meanwhile, what is cached was issued before it was cached
  (`CachedAfterIssue`), and the time to live leaves the margin.
* **Accounts.** `ReplacedAlone`: who is to insert a row's successor (the `session`
  step of a refresh) or has inserted it is alone, and the row is deleted. Only the
  call that finds the row open gets there. `StaleSessionsBounded` counts the rows
  of an older password together with the calls that may still open one, and is
  inductive beside `PasswordsKnown`: the call that revokes leaves that count and
  every other can be in it once; a refresh goes on under the password of the row
  it deletes, so it passes a place on and adds none.
* **One-time codes.** Unused codes, with the requests about to insert one
  (`Creating`), do not exceed the requests; nor do the uses of a code with the
  requests that compare with it. `GuessesBounded` is the hard one: the counter is
  written from a value read earlier, so it can fall, and no count of guesses
  grows with it. `Reach` is the counter from which each request's next wrong guess
  would start at the lowest, and `SpreadOf` how the requests are spread over those
  counters: for every counter, how many reach it or a lower one. A wrong guess
  moves the guesser up, and others, if at all, from its level or above to above its
  level (`SpreadFalls`), so that the spread falls in the order of the first counter
  that differs; reading a code and being accepted never raise it. As no spread
  comes twice, the guesses before the lock are fewer than the `Spreads`; from then
  on nobody reads the code and each guess takes a comparing request away.
* **Groups and plans.** `ReadShape`: whoever was left out of a cycle was removed,
  and is not among the members a call has read for the next one either. One call
  generates the cycles of a plan (`PlanShape`).
* **Cycles.** `PeriodsTile` rests on `AddMonth(t) > t`, `MonthBilledOnce` on
  `LaterMonth`: `setMonth(+1)` never stays in the same month, because it adds the
  whole length of the one it starts in. Both need that `MonthOf` finds the month
  of every date.
* **Webhook intake.** `Acknowledged`: each look-up acknowledges an event only when a
  row of its id, or of its type and reference, is there, and rows are never deleted;
  `OneRowEach` is the unique column. `CallKnows`: when a call has looked for the signature, every
  row of its message that was there when it began is so old that its stamp was
  ahead of the clock. This is where the window of the age check and that of the
  look-up must be the same.
* **Idempotency.** `RunsPaidFor`: executions made and about to be made are paid for
  by faults, by one round of all requests for each reply that lapsed, and by the
  requests open now.
* **The browser.** `OneRefresh`: `isRefreshing` is set exactly while one request of
  the tab refreshes, and only then does anything wait. `GrantedOnce` and
  `GrantedIsLive` say that a token whose reply is on its way is known to that reply
  alone, so that nobody can have spent it: it opens a session unless somebody ended
  that. From them `SessionKept` is inductive. `AloneInv` says of the only tab that
  nothing runs beside `initAuth` and that an exchange under way holds a token that
  is live, or none, so that no token is presented twice.
* **Deliveries.** Until a retry is about to send, a row was handed over by its
  creator alone (`HandedByCreator`); from then on so many attempts are counted that
  no list will have it again, and the workers that hold it (`Holders`) pay for what
  is still to be handed over (`HandedByHolders`). `Counted` is why: whoever lists a
  row counts an attempt before sending.

### Induction over data

The library's induction theorems take an operator as a parameter, which the
installed provers cannot instantiate. Where a recursion over numbers or a fold
over a set had to be reasoned about, the proofs use a *set* in place of the
operator: the counterexamples form a set, a nonempty one has a minimal element
because the proper subsets of a finite set are well-founded, and that one is
refuted. `Induction` and `LeastOf` (`CooperativeProofs`) do this for the naturals
and the function `MonthStart`, `MinimalSet` (`ConservationProofs`) for the subsets
of a finite set and the sums, `NewestOf` (`IdentityProofs`) for the newest of the
unused codes. `GuessesAreBounded` needs no induction over the spreads: it counts
those below the present one, and a strictly lower spread has fewer below it
(`LowerFewer`).

### Only model-checked

Every invariant and action property of the passing runs is a theorem, and so is the
refinement. What stays with TLC:

* `EveryRequestEnds`, `EveryJobEnds`, `EveryInitiationEnds`, `EveryTransferEnds`:
  liveness under fairness, and `ENABLED`, are beyond what the provers handle.
* The counterexamples of section 3: a proof shows what is true.
* That the parts of `MCWithdrawals`, `MCIdentity`, `MCCooperative` and `MCEdge` do
  not disturb each other: the theorems are about each module's own specification,
  and the compositions share no variable by construction.

## 5. What is not modelled

* *Wired to nothing.* `jobs/index.ts` registers one processor per queue: expired
  sessions are never cleaned, contributions are never marked overdue (the job
  that runs selects no group), and the payout status and retry processors, the
  payment retry, the reconciliation and the notification job are bound to queues
  nobody creates or enqueued by nobody. The reminder engine is a placeholder.
  `lockForPayment`, `updateReceivedAmount`, `updateRole` and `expireOverdue` have
  no caller. The models have what runs.
* *Virtual accounts* appear as the bank transfer branch of a payment; the account
  itself is created once, provider first, and carries no state changed later.
* *Payouts*: schedules and recipient accounts (CRUD).
* *Redis being unavailable*: `addJob` returns without queueing when there is no
  connection at all (`Redis` of `WebhookIntake`); with one configured, commands
  wait. Job delays, backoff and `background_jobs` rows are left out.
* `isDuplicate` compares a JSON path that PostgreSQL does not read as the code
  means it; whether it finds anything is left open.
* *Notifications*: which events notify whom, preferences, templates, live events
  over SSE. They have no state another part depends on.
* *Groups*: edits of the description and settings, roles. No code changes a role.
* *Analytics, reports, receipts, audit, settings*: queries and CRUD; the audit log
  appears as a call that can throw.
* *HTTP surface*: routing, validation and headers. Inputs are those the validators
  let through.
* *Frontend* pages, components and the demo mode, which are most of the
  repository's lines: presentation, with state no other part relies on.
* The arithmetic of doubles: amounts are whole kobo within the validators' range,
  where `Math.round(amount * 0.01)` and rounding half up agree. Hashes and
  signatures are taken to be what they should be.

## 6. Where to go on

* The bounds of `StaleSessionsBounded`, `RunsBounded` and `HandedOncePerWorker` are
  proved to hold, not to be reached. `GuessesBounded` may be improved: reading a
  code puts a request on the counter it finds, so not every spread can be had.
* The liveness properties rest on small instances. A prover for leads-to over
  fairness would take `WalletLedger` first: its measure is the number of
  statements left, and `DeadlocksAreTransfers` says where it may stand still.
* Payout schedules, reminders and reconciliation deserve a model when the code
  runs them (section 5).
