# Global Wakili: TLA+ specifications

Global Wakili is a practice-management system for Kenyan law firms: a
multi-tenant Express/Prisma API over one Postgres database
(`src/apps/api`, `src/packages/database`), a Next.js client (`src/apps/web`)
and a few workers.  This directory holds TLA+ specifications of the parts of
the API whose correctness depends on the order in which concurrent requests
reach the database, TLC configurations that check them on small instances, and
proofs, checked by TLAPS, of the properties that matter most.

Every definition is translated from the TypeScript source and the Prisma
schema; `PROJECT.json` ("map") names the lines each one stands for.

## 1. The system and its components

All state is in Postgres.  The API server keeps nothing between requests: a
request reads, may open a `prisma.$transaction` (READ COMMITTED, a time limit
of a few seconds to 30 s) and answers.  Several Node processes serve requests
concurrently, so components interact through shared rows, unique constraints,
row locks and, in one place, an advisory lock.  Hard behaviour therefore has
one shape nearly everywhere: *a value is read, often outside the transaction,
and used after somebody else may have changed it.*

| Component (under `apps/api/src` unless noted) | State it keeps | Operations | Interacts with | What makes it correct | Where it stands |
|---|---|---|---|---|---|
| Trust transactions `modules/trust` | TrustAccount, TrustTransaction, ClientTrustLedger | deposit, withdraw, transfer to office, reverse, adjust, archive account | invoices, notes, general ledger, periods, audit | no ledger or account overdrawn; control = sum of ledgers; a reference acts once; office and trust side move together | modelled: `TrustLedger` |
| Trust interest `modules/trust/TrustInterestService` | same rows, Matter.trustBalance | post interest | as above | as above, and the ledgers' sum equals what the bank paid | MANUAL posting in `TrustLedger` |
| Trust reconciliation `modules/trust/*Reconciliation*`, `reconciliation-match` | TrustReconciliation, BankTransaction | snapshot, complete, match, unmatch | trust rows, bank statements | the three balances come from one point in time; a bank line matches once | not modelled: its reads see the rows `TrustLedger` moves |
| General ledger and periods `modules/finance`, `utils/period-lock` | JournalEntry, JournalLine, AccountBalance, AccountingPeriod | post, reverse, close, reopen, rebuild balances | every posting module | debits = credits; nothing enters a closed period; AccountBalance = sum of lines | posting, the policy read and closing as `TrustLedger`, `Receipts`, `Billing` and `AuditChain` meet them; the rest not modelled |
| Receipts, allocations, refunds `modules/payments` | PaymentReceipt, PaymentReceiptAllocation, PaymentRefund | create, allocate, reverse, request/approve/pay/reject refund | invoices, general ledger | allocated + refunded <= received; invoice paid = its allocations; deposits in the ledger = unallocated money | modelled: `Receipts` |
| Billing `modules/billing` | Invoice, CreditNote, Retainer, Proforma, NumberSequence | invoice from approved time, cancel, credit, apply retainer, debit payment, remind | time entries, payments, trust, eTIMS | a time entry is billed once; a number is used once; balanceDue = total - paid - credited | invoices, approvals of them, credit notes, retainers: `Billing`; the rest not modelled |
| Matters `modules/matter` | Matter, TimeEntry, timers, write-offs, commissions, conflict checks, KYC | open, onboard, time tracking and approval, write-off, close | billing, trust, client | billed time is not voided; approved time immutable | raising, voiding, submitting, cancelling in `Billing`; the rest not modelled |
| Approvals `modules/approval` | Approval, ApprovalStep | create, decide, escalate, delegate, expire | procurement, payroll, write-offs | one decision per request; decided is final | decisions and handing on in `Billing`; expiry and other kinds not modelled |
| Audit trail `utils/audit-logger`, `audit-chain` | AuditLog hash chain | append, verify | every module | one chain per tenant: every row names its predecessor | `AuditChain`; MatterAuditService and the archive not modelled |
| Notifications `modules/notifications`, `modules/queues`, `workflow` | Notification, attempts, jobs in Redis | queue, send, retry, report of the provider, digest | providers, Redis, passive capture | every recipient of a job is told; no row claims what did not happen; at most one mail per try | queued notifications: `Notifications`; the rest not modelled |
| Payroll `modules/payroll` | PayrollBatch, Payslip, PayrollJournal | compute, approve, post, pay, file | HR, general ledger, approvals | a batch posts once; totals = sum of slips | not modelled |
| Procurement, vendors `modules/procurement`, `modules/vendor` | PurchaseOrder, VendorBill, Expense | request, approve, post, pay | approvals, general ledger | a bill is paid once, within budget | not modelled |
| Documents `modules/document` | Document, DocumentVersion, retention | upload, version, scan, hold, purge | storage | version numbers unique; a held document is never purged | not modelled |
| Calendar, tasks, court `modules/calendar`, `task`, `court` | CalendarEvent, Task, CourtHearing, CourtFiling | create, sync, remind, complete | matters, notifications | one calendar event per hearing | not modelled |
| HR `modules/hr` | Employee, Leave, Attendance, Contract | CRUD, leave accrual, clock in/out | payroll | leave within entitlement; one open attendance row | not modelled |
| Compliance, goAML, sanctions `modules/compliance`, `modules/client` | Client, KYC, reviews, STR | onboard, screen, review, file | matters | no matter for an unscreened client | not modelled |
| Integrations `modules/integrations` | eTIMS queue, M-PESA requests, bank feeds, goAML | submit, retry, callback | tax authority, banks | an invoice is fiscalised once; a callback is applied once | not modelled |
| Platform `modules/platform`, `middleware` | Tenant, Subscription, entitlement, flags, impersonation | provision, meter, guard | all | quota never exceeded; no request crosses tenants | not modelled |
| Authentication `controllers/auth.controller`, `lib/jwt`, `lib/mfa` | User, RefreshToken, lockout counters | log in, refresh, MFA, reset | all | a refresh token is used once; the lockout counter counts every failure | not modelled |
| AI, analytics, reporting, reception, banking, realtime | logs, report runs, reception log | read-mostly | all | reports describe one point in time | not modelled: reads and presentation |
| Web client `apps/web`, generated code, seeds, scripts | none of its own | pages | the API | - | not modelled |

`TrustSettlementService` repeats the checks of `validate` before it calls
`create` and has no HTTP caller; it adds no state change and is not an action
of its own.  `finance/paymentservice.ts` and `payments/payment-status.service.ts`
have no callers either.

## 2. Modules, and the order of the plan

| Module | What it is |
|---|---|
| `LedgerSums` | holders of client ledgers, and the sum over them as a recursive *function* |
| `LedgerSumsTheorems` | lemmas on those sums: type, sign, the effect of one change, a bound |
| `TrustBook` | the abstract specification: whole movements, one at a time |
| `TrustLedger` | the program: requests, statements, locks, commit, abort; its safety properties and its refinement of `TrustBook` |
| `TrustAudit` | what an auditor checks across tables, on top of `TrustLedger` |
| `TrustAuditProofs` | the audit's equations, exact for every kind of transaction, and the properties they give |
| `SetSumsTheorems` | lemmas on sums over finite sets of rows: one element more or less, unions, images |
| `TrustLedgerProofs` | type correctness, the inductive invariant, refinement, action properties, proved |
| `MCTrustLedger` | instances for TLC |
| `Receipts` | receipts, allocations, reversals, refunds: statements, row locks, journals |
| `ReceiptsProofs` | types, refunds and their postings, paid amounts, receivables, deposits, over-allocation, reversals |
| `MCReceipts` | its instances for TLC |
| `Billing` | items billed, voided, released; invoices submitted, decided, posted, paid, credited, settled from retainers, cancelled |
| `BillingProofs` | types and routes, postings, and what holds of locks, decisions, balances and retainers however requests overlap |
| `MCBilling` | its instances for TLC |
| `AuditChain` | the calls of `logSecurityEvent`, on the clients of requests and of their transactions |
| `ChainedLog` | the abstract specification: logs that grow at their end, every entry naming the one before |
| `AuditHistory` | the trail as an auditor reads it, as a refinement of `ChainedLog` |
| `AuditChainProofs` | the inductive invariant of the trail and the properties it gives; that the trail of a firm whose users wait for each other refines `ChainedLog` |
| `MCAuditChain` | its instances for TLC |
| `Notifications` | queued notifications: the jobs, the worker, BullMQ's retries, the provider |
| `NotificationsProofs` | the inductive invariant of the jobs, the rows and the mails, and every safety property it gives |
| `MCNotifications` | its instances for TLC |

`TrustAudit` composes trust money with the invoices it pays, `Billing` composes
the routes of matters, billing, approvals, credit notes and retainers that
write one invoice, `AuditHistory` composes the trails of several firms.  All of
the plan's core is done: trust money, receipts, billing with its approvals, the
audit trail, notifications.  What the plan leaves is in section 11.

## 3. Trust money

### The program

`POST /trust/transactions`, `/trust/transfers/to-office` and
`/trust/deposits` all reach `TrustTransactionService.create`:

1. `validate` reads, outside any transaction: whether the reference was used,
   the account (`isActive`, balance for an outflow), the ledger of the client's
   matter, and the amount due of the invoice or note;
2. one READ COMMITTED transaction inserts the TrustTransaction row
   (`@@unique([tenantId, reference])`), moves `currentBalance` (for an outflow
   with `WHERE currentBalance >= amount`), calls
   `ClientTrustLedgerService.applyDelta` (advisory lock, sum of the ledger,
   refuse a negative result, insert), posts the trust journal and, for a
   transfer, the office journal, then reads and writes the invoice or note;
3. commit.

### State and actions

| In `TrustLedger` | In the code |
|---|---|
| `active`, `currentBalance` | `TrustAccount.isActive`, `.currentBalance` |
| `ledger[a][h]` | sum of `ClientTrustLedger.credit - debit` of account `a` and the (client, matter) pair `h` |
| `booked[a]` | sum of `TrustTransaction.credit - debit` |
| `references`, `interestRefs` | committed references of `create`; reference prefixes of `postInterest` (its rows are named `<reference>-001`) |
| `trustBank[p]`, `officeBank[p]` | net debit of the bank accounts of the general ledger, by accounting period |
| `paidAmount`, `drnStatus`, `trustBalance` | `Invoice.paidAmount`, `DisbursementRequestNote.status`, `Matter.trustBalance` |
| `pc`, `input`, `seenPaid` | where a request is, its body, the `paidAmount` it read |
| `accountLock`, `invoiceLock` | the transaction holding the row after its UPDATE |

`CheckAccount`, `CheckMatter`, `CheckDue` are the three groups of reads of
`validate`; `InsertTransaction` to `WriteInvoice` are the statements of the
transaction; `CheckInterest`, `InsertInterest`, `CreditAccount` those of
`postInterest`.  A statement that must wait for a row or for a unique key is
disabled until the holder commits or aborts.  Uncommitted writes are invisible
to others, so they are not stored: `Commit` publishes them all, `Rollback`
frees the locks and publishes nothing.  `Abort` may happen at any statement: a
thrown error, the transaction's time limit, a deadlock victim, a crash of the
server.  `Archive` and `ClosePeriod` are the other writers of what a movement
reads.  The account row is locked from `MoveAccount` to the end of the
transaction, so the advisory lock of `applyDelta` never decides a race between
two calls of `create`; interest takes only the row lock, as its last statement.

### Abstract specification

`TrustBook` is what the module promises: a movement changes one client's ledger
and the control balance of its account by the same amount, and no movement
leaves a ledger negative.  `TrustLedger` implements it (`BookSpec`): the commit
of a request is the movement, every other step is a stutter.

### Left out of this module

Creation of accounts and period rows (a fixed set exists), the `balance`
column of ledger rows (a cache nothing reads back), the row lock of the note
(two transfers of one note are already ordered by what they read), the
pro-rata branch of interest (no caller), audit rows, permissions, the text of
errors.  Amounts are whole cents.

## 4. Receipts

`POST /payments` creates a receipt (number, row, allocations, journal) in one
transaction; `/:id/allocate` allocates it to invoices, `/:id/reverse` undoes it
as a whole, and the refund endpoints ask for, decide and pay a refund of what
is unallocated.  `Receipts` has one action per statement that another
transaction can come between.

| In `Receipts` | In the code |
|---|---|
| `receiptStatus`, `receiptNumber`, `unallocated` | `PaymentReceipt.status`, `.receiptNumber`, `.unallocatedAmount` |
| `allocations` | `PaymentReceiptAllocation` rows, named by the request and the position in its body |
| `paidAmount` | `Invoice.paidAmount`; the invoice is PAID when it covers `BalanceDue`, which nothing here writes |
| `refundStatus` | `PaymentRefund.status` |
| `journals` | the module's `JournalEntry` rows: type, receipt, the invoice or refund it is about, amounts; equality of the first three is equality of `reference` |
| `receivable`, `deposits` | net credits of accounts 1200 and 2300, by receipt |
| `pc`, `input`, `tx` | where a request is, its body, and what its transaction has read and written so far |
| `SystemAccounts` | the accounts of 1000, 1200, 2300 whose row has `isSystem` |
| `rowLock` | the transaction holding a row of the chart of accounts, a receipt, an invoice or a refund |

`Read` is a statement that only reads (on, or error), `Update` one that waits
for a row and holds it, `Post` the insertion of a journal (waits for an
uncommitted entry of its reference, fails on a committed one).  What a
transaction wrote is in `tx[r]`, seen by itself through `Visible`, `Entries`
and `Unallocated`; `Commit` publishes it.

The row locks matter more than the code shows: `ensureSystemAccount` UPDATEs
the row of a system account, so the allocations of a tenant queue for the row
of account 2300, or else of 1200, before they recompute an invoice, and nothing
else keeps `paidAmount` right (`PaidIsAllocated`).  It leaves a row that is no
system account as it is (`!isSystem`, `payment-posting.service.ts:769`,
`refund.service.ts:395`), and then locks nothing.  Such rows exist: `POST
/finance/accounts` makes them by default (`account.service.ts:154`), and 2300
is not among the seeded accounts, while 1000 and 1200 are, as system accounts.
`MCReceipts_allocate` therefore has 2300 made by hand: allocations order
themselves by the row of 1200, which they update before they post, and the
property still holds.  With both made by hand it fails (section 8).  Reversals
reuse the account ids of the entry they reverse, take no such lock, and lose
updates (`PaidIsAllocated` with `ReverseOtherLoad`).

Left out: the creation of an account that is not there yet, cancelled and
rejected invoices, the bank-reconciled check before a
reversal, WHT certificates, branches, currencies, the posting period (see
`TrustLedger`), rounding to two decimals (amounts are whole), and
`PaymentService.reversePaymentReceipt`, which repeats `PaymentReversalService`
without the reconciled check.  A reversal after a paid refund is possible in
the model, as in the code: nothing reads the refunds.

## 5. Billing

An invoice is written by six services that know little of each other:
`matter.routes` raises, voids, submits and cancels, `billing.routes` bills from
a form and takes payments, `ApprovalService` with its controller's hooks issues
it and posts it to the ledger, `CreditNoteService` credits it and takes a
credit back, `RetainerService` settles it from a retainer.  `Billing` has them
all on the same rows.

| In `Billing` | In the code |
|---|---|
| `billedTo[e]` | `TimeEntry.invoiceId`, with `isInvoiced` |
| `voided` | time entries and expenses with status VOIDED |
| `invoice[i]` | the `Invoice` row: status, number, total, balance, paid, credited |
| `lines[i]` | `InvoiceLine.sourceId` of its lines |
| `approval`, `creditNote`, `retainer`, `applied` | `Approval`, `CreditNote`, `Retainer`, `RetainerApplication` rows |
| `postings` | the journal entries that issue an invoice, and what they debit to 1200 |
| `pc`, `input`, `seen` | where a request is, its body, the rows it has read |

Each read is an action, and so is each write outside a transaction.  A
transaction that only writes, or that writes the row it then reads, is one
action (`CreateInvoice`, `Cancel`, `IssueWaiting`, ...): a second one that waits
for its rows acts after it, as a later action does.  `Abort` ends a request at
any point: an error, a lost connection, a crash.  So the two statements of the
billing form (`InsertInvoice`, `LockBilled`) and the approval and its hook
(`Decide`, `IssueWaiting`) can be cut apart, as in the code.

No handler of these services locks a row before it reads it, so stale rows are
written back, and most properties of the run hold only of requests that wait
for one another (`waits`: users who take turns).  Section 8 names the workload
that breaks each of them without that, and section 10 what holds regardless.

Left out: the posting period and policy (see `TrustLedger`), quotes, discounts
and currencies, the eTIMS queue, expiry of approvals, approvals of anything but
invoices, M-PESA prompts, and invoices raised without lines.  `Price` is what a
set of items comes to with its tax; it is any function.

## 6. The audit trail

`logSecurityEvent` reads the tenant's last row, hashes its payload with that
row's hash, and inserts; nothing orders two calls.  It is called in three ways,
for which `AuditChain` has one route each: awaited after the effect
(`CLOSE_PERIOD`), started and not awaited (`POST_JOURNAL`), and inside the
transaction of a trust movement, where one row is awaited and one more per
journal is not (`DEPOSIT`, `TRANSFER_TO_OFFICE`).  A request that fails with
status 500 has a row written after its answer.

| In `AuditChain` | In the code |
|---|---|
| `rows`, `pending[r]` | committed `AuditLog` rows; those of a request's open transaction |
| `drawn` | the sequence `AuditLog.sequenceNumber` draws from |
| `call[w]` | the local state of one call of `logSecurityEvent`: the previous hash it saw |
| `done` | requests whose effect (period closed, journal posted, money moved) is committed |
| `pc`, `input` | where a request is, what it asks for |

A payload contains the request, the event and the time, so no two rows have one
hash and a call stands for the hash of its row.  The statements of a
transaction that another call has started fail when it is closed
(`Left`, `Lose`); one that fails inside it fails the transaction (`Fail`);
`$transaction` on the client of a transaction does not open a second one.

`ChainedLog` is what the trail promises.  For a tenant whose users wait for each
other, the trail, sorted by sequence number, is that log (`TrailIsChainedLog`),
whatever other tenants do and whatever fails.  For others it is not
(`MCAuditChain_forked`), and what still holds is `LinksAreBackward`.  A firm
with one user is not safe either: the rows of one deposit overlap (section 8).

`DoneIsAudited` says "a closing that was answered": a crash between the closing
and its row, followed by a second attempt, which finds the period closed
(`Closed`), leaves a closed period without a row for good.

Left out: `MatterAuditService`, which appends rows with a hash of another
payload that cannot be recomputed, `QueueAuditService`, whose insert always
fails, the archive, and the payload itself.

## 7. Notifications

`NotificationQueueService.enqueue` adds a job to the queue `integrations`; the
notification worker runs `sendNow`, which tells each recipient in turn on each
channel the job asks for and the recipient wants; a job whose run threw is run
again, up to three attempts, from the first recipient; a job whose worker is
gone is found stalled and run again once.

| In `Notifications` | In the code |
|---|---|
| `queue[j]`, `attempts[j]`, `stalls[j]` | state, `attemptsMade` and stalled count of the BullMQ job |
| `run[j]` | where `sendNow` is: the channels each recipient so far wanted (`wanted`), those left of the current one (`todo`), what the provider answered, and the rows there were when the try began (`from`); `told` when it returned |
| `rows[j]` | `Notification` rows the job created: recipient, channel, status, `providerMessageId` |
| `mails[j]`, `reports` | what the mail provider accepted and what it reported (external) |
| `ledger` | `NotificationDeliveryAttempt` rows |
| `asked[j]` | `channels` of the job: a digest asks for EMAIL, a reminder for one channel, a job that names none for all |
| `active`, `smtp` | users whose `User.status` is ACTIVE; whether the worker has the credentials of a mail server |

A statement can fail after it was carried out (a lost connection), so `Update`
and `Correct` have both outcomes; `Send` may be refused in answer to a mail that
went out, and an error before the mail is sent goes to the catch block.  Without
a mail server `Send` says accepted of a mail that goes nowhere, and the row says
`simulated`.  `Skip` is the worker of passive capture, which consumes the same
queue and completes jobs it does not know.

Which channels a recipient wants depends on his preferences, which may change at
any time, his address, his number and the category of the message: `Resolve`
takes any subset of those the job asks for.  A recipient who wants none gets no
row and the job goes on.  So `CompletedWasHandled` counts exactly: a job that
`sendNow` has returned from has, of its last try, one row for each channel each
recipient wanted and none else.  A row that says FAILED counts as handled,
because the code does not retry a refusal; one that says PENDING does not,
unless the provider said so last: `updateProviderStatus` writes any of the five
statuses over what was there (`Report`).

Left out: a worker that is alive though its lock expired; SMS (the same steps as
EMAIL) and push (no branch of `sendNow` handles it); `markRead`; the hourly
engines, which enqueue the same reminder every hour because `enqueue` drops the
`debounceKey` their comment relies on; templates; the queue without Redis;
provider names of messages.

## 8. Runs

The check gives a run five minutes; the counts below are of distinct states.

| Run | Shows | States |
|---|---|---|
| `MCTrustLedger_spend` | three requests out of nine kinds of body on one account shared by two holders: types, no overdrawn ledger, control = sum of ledgers, checked funds stay available, a reference acts once, and the refinement of `TrustBook` | 436,726 |
| `MCTrustLedger_books` | two requests out of six bodies on two accounts: transactions, bank, general ledger, office and invoice agree, and every accepted request is answered | 37,364 |
| `MCTrustLedger_overpaid` | *violated* `InvoiceNeverOverpaid`: two transfers validated against one amount due | |
| `MCReceipts_allocate` | two receipts that exist and two that are created, allocated to two invoices by three requests out of seven bodies, each submitted once, where account 2300 was made by hand: paid amounts, receivables and deposits agree with the rows, no receipt is over-allocated | 73,778 |
| `MCReceipts_undo` | three requests on one receipt allocated to two invoices (reversals; or refunds requested, approved, paid, some twice), or receipts whose transactions lock account rows in different orders: undone once and completely, PAID means posted, only approved refunds are paid, every request is answered | 31,356 |
| `MCReceipts_respent` | *violated* `SpentWithinReceipt`: an allocation after a refund forgets the refund | |
| `MCBilling_bill` | 59 workloads of four requests: items billed, voided, released; a draft submitted (also twice at once), handed on, decided, submitted again, credited, cancelled; an issued invoice paid, credited, settled from a retainer | 34,358 |
| `MCBilling_doublebilled` | *violated* `BilledOnce`: two forms bill one entry, one after the other | |
| `MCAuditChain_trail` | three users of two firms, one of which takes turns; calls overlap, fail and are cut off | 238,627 |
| `MCAuditChain_forked` | *violated* `ChainVerifies`: two periods are closed at once | |
| `MCNotifications_tell` | one job for two users on any channels, of which each wants any, with or without a mail server, and two events (failing statements, crashes, reports, changed users) | 618,134 |
| `MCNotifications_skipped` | *violated* `JobsAreProcessed`: the worker of passive capture completes the job | |

Bounds.  Trust: amounts of 1 to 3, two holders (one with a matter, one
without), one or two accounts, one invoice of 2, one note of 2, one period; three requests
are what the hazards need, two that race and one that changes what both have
read, and two suffice for the waiting cycles of `books`.  Receipts are of 2 or
3 (5 in `undo`), balances of 2 or 4, refunds of 1 or 2: enough for an
allocation to fit alone and not with another, and for parts left over.  Billing
has four requests because a life of an invoice has that many steps; prices of
2, 3 and 5 and a retainer of 2 let a payment fall short, meet and exceed the
balance.  In the trail two closings of a firm are of one month or of two.  A
notification has the code's three attempts and BullMQ's one stall; `MaxEvents`
is 2: an update that fails after a mail and the correction of it that fails too,
or one of them and a report, a crash or a deactivated user; the theorems of
section 10 have no such bound.  Requests are symmetric in the safety runs of
trust and receipts; runs with a temporal property use no symmetry.

What the passing runs exclude is what the violated ones show.  In
`MCReceipts_allocate` no body is submitted twice, no two bodies allocate one
receipt to different invoices and nothing is reversed; its workloads satisfy
`PartsDiffer` and `RivalsMeet` of section 10.  In `MCBilling_bill` the
requests of most workloads take turns on the rows they touch (`waits`); three
payments of an invoice, two invoices raised of different items, two submissions
of one draft, and the form next to the matter's route, do not.  There is no form
that bills a locked item, no payment of a cancelled or credited invoice, no
credit beyond the balance, and one decision of an approval at a time.  Each of
these breaks a property, see the table below.  In `MCAuditChain_trail` the
refinement is claimed for the firm whose users wait; the other properties for
both.  The entries under "hazards" of `PROJECT.json` say of each hazard how much
of it the passing runs include.

Further statements of the repository that the models refute have a property and
a workload and no run of their own.  To see one, take the configuration in the
last column, give it the workload and check the property alone.

| Property | Workload | What the trace shows | Start from |
|---|---|---|---|
| `PaidIsWhatWasTransferred` | `TwoAccountsInputs` | transfers of two accounts for one invoice lose an update of `paidAmount` | `MCTrustLedger_overpaid`, three requests, `Accounts = {a1, a2}` |
| `NoteNeverOverpaid` | `NoteInputs` | a note already SETTLED is settled by a second transfer | `MCTrustLedger_overpaid` |
| `LedgerBankMatchesControl` | `InterestInputs` | interest posted through its own endpoint has no journal | `MCTrustLedger_overpaid` |
| `TransactionsExplainBalance` | `AdjustInputs` | an adjustment moves the balance, its row records nothing | `MCTrustLedger_overpaid` |
| `MatterBalanceIsItsLedger` | `InterestInputs` | a deposit for a matter leaves `Matter.trustBalance` alone | `MCTrustLedger_overpaid` |
| `ArchivedAccountsAreQuiet` | `InterestInputs` | a movement commits on an account archived after it validated | `MCTrustLedger_overpaid` |
| `ClosedPeriodsAreSealed` | `InterestInputs` | a journal enters a period closed meanwhile | `MCTrustLedger_overpaid` |
| `AllocatedWithinInvoice` | `TwoReceiptsLoad` | two receipts are allocated to one invoice beyond its balance | `MCReceipts_respent`, two requests, `ReceiptIds = Posted = {c1, c2}` |
| `AllocatedWithinReceipt` | `TwoInvoicesLoad` | a receipt is allocated to two invoices beyond its amount | `MCReceipts_respent`, two requests |
| `ReversedIsUnposted` | `AllocateAndReverseLoad` | an allocation that read the receipt before reopens it | `MCReceipts_respent`, two requests |
| `ReversedIsUnposted` | `RefundAndReverseLoad` | a receipt is reversed in full and its refund is paid, in any order: its deposits end below zero | `MCReceipts_respent`, two requests |
| `PaidIsAllocated` | `ReverseOtherLoad` | a reversal overwrites what another receipt paid | as `AllocatedWithinInvoice`, `Opening <- Allocated` |
| `PaidIsAllocated` | `AllocateLoad` | accounts 1200 and 2300 both made by hand: two receipts recompute one invoice, each without the other's row | `MCReceipts_allocate`, `SystemAccounts = {"1000"}` |
| `ReceivableIsAllocated` | `InstalmentsLoad` | the second of two equal allocations is recorded, not posted | `MCReceipts_respent`, two requests |
| `ReceivableIsAllocated` | `CreateAllocatedLoad` | allocations made at creation are credited twice | `MCReceipts_respent`, one request, `Posted = {}` |
| `DecisionsStand` | `DecideLoad` | a rejection read as pending overwrites a paid refund | `MCReceipts_respent`, four requests, `Refunds = {f2}`, `Approved = {}` |
| `BilledOnce` | `RaiseTwiceLoad` | two invoices raised at once from one entry | `MCBilling_doublebilled` |
| `VoidedIsNotBilled` | `RaiseAndVoidLoad` | an entry is voided while an invoice that read it is raised | `MCBilling_doublebilled` |
| `EntryIsOnItsInvoice` | `BillAndCancelLoad` | an invoice is cancelled before the form locks its entries, which it then holds for good | `MCBilling_doublebilled` |
| `CancelledIsTerminal` | `SubmitAndCancelLoad` | a submission that read DRAFT takes the cancellation back | `MCBilling_doublebilled` |
| `CancelledIsTerminal` | `PayCancelledLoad` | a payment makes a cancelled invoice PARTIALLY_PAID | `MCBilling_doublebilled` |
| `BalanceIsWhatIsLeft` | `PayCreditedLoad` | a payment after a credit takes the credit back | `MCBilling_doublebilled` |
| `BalanceIsWhatIsLeft` | `OverCreditLoad` | a credit beyond the balance is stored in full, the balance cut to zero | `MCBilling_doublebilled` |
| `RetainerAccounts` | `ApplyTwiceLoad` | one retainer is applied to two invoices at once | `MCBilling_doublebilled` |
| `IssuedWasApproved` | `RerouteLoad` | a reassignment that read PENDING reopens an approval that was decided | `MCBilling_doublebilled` |
| `ChainVerifies` | `OneDeposit` | the two rows of one deposit name one predecessor | `MCAuditChain_forked`, `Requests = {r1}` |

Hazards seen while reading and covered by no property: a receipt of which a
refund was paid is reversed in full; an invoice paid between the check and the
transaction of its cancellation; two payments of one invoice of which one is
lost; an issued invoice that is cancelled keeps its receivable posted; a voided credit keeps its journal; invoice numbers that are
unique in the database and counted per tenant; a lost race to create a period,
which is read again in a transaction that is aborted already.

`PaidIsWhatWasTransferred` holds in `books` because one trust account pays the
invoice there and its row orders the transfers.  Two *accounts* paying one
invoice are not ordered by it (`TwoAccountsInputs`).

## 9. Fairness

`FairSpec` of `TrustLedger` and `Receipts` is weak fairness of each request's
`Step`: once accepted, a request keeps running, because the Node event loop
runs the next statement when Postgres answers the last and Postgres grants a
row when its holder ends.  `Submit` (clients), `Abort` (failures), `Archive`
and `ClosePeriod` are not fair.  `Receipts` adds that a transaction that waits
is ended in time (`TimedOut`; Prisma's limit is 5 seconds by default):
creations lock the accounts 1000, 1200, 2300 in this order, allocations 2300,
1200, refunds 2300, 1000, so they can wait for each other.  No fairness is
assumed among requests that wait for one row: each ends because the others do.

`FairSpec` of `Notifications` is weak fairness of the worker's steps on each job
(a worker that is gone is started again by its supervisor and takes what waits)
and of BullMQ's check for stalled jobs, which it repeats every 30 seconds.
Providers, users and faults are not fair.  `EveryJobEnds` does not promise that
anybody was told: a job ends as failed after its attempts.

`Billing` and `AuditChain` have no locks a request waits for, so that liveness
says nothing there.

## 10. What is proved

A theorem assumes the named ASSUMEs of its modules (shapes of constants,
finiteness of the sets that are counted) and the hypotheses it states itself,
nothing else.  No listed theorem assumes anything of a behaviour, such as that
requests take turns: a hypothesis is about constants, that is what clients ask
for, which accounts are system accounts and what was there at the start.  Where
the code keeps a property only while requests happen not to overlap, no theorem
assumes that they do not (section 11).

`TrustLedgerProofs`, for any finite number of holders and any sets of accounts,
requests, invoices, periods and inputs:

- `TypeCorrect`: `Spec => []TypeOK`;
- `Invariance`: `Spec => []IInv`, and from it `ClientsNeverSubsidiseEachOther`
  (`LedgersNeverNegative`), `ControlReconciles` (`ControlMatchesLedgers`),
  `AccountsCovered` (`AccountsNeverNegative`), `ChecksDoNotGoStale`
  (`CheckedFundsStayAvailable`), `MoversAreSerialised` (`OneMoverPerAccount`);
- `ImplementsBook`: `Spec => BookSpec`;
- `RowsAreReleasedByTheirHolder`: the action property on row locks;
- `ReferencesAreSpentOnce`: `ReferenceMovesMoneyOnce`.

`LedgersNeverNegative` is not inductive: a commit subtracts an amount that was
tested several statements before.  `IInv` adds what carries the test to the
commit: `HoldsItsRow` (a transaction past its balance update owns the account
row, so there is one of them per account), `PathOK` (which statements a kind of
request can be at) and `CheckedFundsStayAvailable` (the ledger still covers
what was tested).  The last is preserved by another request's commit because
that request, owning a row, owns the row of *another* account.
`AccountsNeverNegative` follows from the ledgers through `ControlMatchesLedgers`
and a lemma that a sum of naturals is natural.  References need their own
invariant, `RefInv`: of the requests with one reference at most one has a row,
written or committed.

`LedgerSumsTheorems` proves the lemmas on sums.  Induction over the number of
holders goes through the well-ordering of Nat, stated for a set of numbers,
since an induction theorem whose parameter is an operator cannot be used.

`SetSumsTheorems` does the same for `SumFunctionOnSet`, which the other modules
sum their rows with.  It is a CHOSEN function that takes elements in an order
CHOOSE picks; the lemmas show that the order does not matter (`SumRemove`), so
that a row more or less is an addend more or less (`SumAdd`, `SumOfChange`,
`SumOfUnion`).  In place of induction each takes a smallest set that breaks the
claim, which exists because the subsets of a finite set are well founded.

`TrustAuditProofs`, for any inputs: `AuditIsExact` is an equation for every
kind of transaction (the balance of an account is what its rows say plus what
adjustments and reversals moved; the bank in the general ledger is the control
account less the interest posted without a journal).  From it follow
`OfficeIsCreditedInFull` (`OfficeReceivesWhatTrustReleases`) without a
hypothesis, `TransactionsExplain` (`TransactionsExplainBalance`) where nobody
reverses or adjusts, and `LedgerBankMatches` (`LedgerBankMatchesControl`) where
interest is not posted through its own endpoint: those kinds are the only
reason the two audits fail.  `NoTransferIsLost` (`PaidIsWhatWasTransferred`)
assumes `OneAccountPerInvoice`: the row of the account orders the transfers.

`ReceiptsProofs`, for any receipts, invoices, refunds and requests, whatever
transactions end in the middle:

| Theorem | Property | Under |
|---|---|---|
| `ReceiptTypes` | `TypeOK` | |
| `PaidRefundsWerePosted` | `PAID` implies posted | |
| `PaidRefundsMatchPostings` | `PaidRefundsArePosted` | `DecidedOnce` |
| `PaidRefundsWereApproved` | `OnlyApprovedRefundsArePaid` | `DecidedOnce` |
| `RefundDecisionsStand` | `DecisionsStand` | `DecidedOnce` |
| `PaidIsWhatIsAllocated` | `PaidIsAllocated` | `NoReversals`, `PartsDiffer`, `AccountIsLocked` |
| `ReceivablesMatchRows` | `ReceivableIsAllocated` | `NoReversals`, `PartsDiffer`, `CreatedUnallocated` |
| `ReceiptIsNotOverspent` | `AllocatedWithinReceipt` | `OpeningFits`, `PartsDiffer`, `RivalsMeet` |
| `DepositsMatchReceipts` | `UnallocatedIsDeposits` | `NoReversals`, `PartsDiffer`, `RivalsMeet`, `CreatedUnallocated`, `SpentOneWay` |
| `ReversedWhenNotAllocated` | `ReversedIsUnposted` | `OpeningDiffers`, `ReversedUnrefunded`, `ReversedUnallocated` |

`DecidedOnce`: a refund is decided by one request (`DecideLoad`).
`NoReversals`: a reversal takes no lock on an account (`ReverseOtherLoad`).
`AccountIsLocked`: of the accounts 1200 and 2300 one is a system account (the
row of `SystemAccounts = {"1000"}` in section 8).  `PartsDiffer`: no two parts
have receipt, invoice and amount in common (`InstalmentsLoad`: the second is
taken for posted).  `CreatedUnallocated`: a
receipt is not allocated by the request that creates it (`CreateAllocatedLoad`).
`RivalsMeet`: two requests that allocate one receipt have an invoice in common
(`TwoInvoicesLoad`).  They may overlap as they like.  `SpentOneWay`: a receipt
is not allocated as well as refunded, and a refund is paid by one request (the
run `MCReceipts_respent`).  `OpeningFits` and `OpeningDiffers` are about initial
states: no receipt is over-allocated, and of the allocations made earlier no two
have receipt, invoice and amount in common either, since the unique reference posts one of such two, and `Init` has the
accounts agree with the journals.  `ReversedUnrefunded`: a
receipt that is reversed is not refunded (`RefundAndReverseLoad`).
`ReversedUnallocated`: a receipt that is reversed is allocated by the request
that creates it (`AllocateAndReverseLoad`).  But for `AccountIsLocked` and the
initial states they are what the clients of the code must do.

`PaidIsAllocated` is where the locks do the work.  `PaidInv` says what a
transaction has recomputed is still right until it commits, because it holds
the row of the account allocations queue for (`Queue`: 2300, or 1200 where 2300
was made by hand) from its first posting on (`HoldsQueue`) and no other
allocation, which needs that row before it can commit a part, comes between; a
part that posts nothing, and so takes no lock, is what `PartsDiffer` excludes.
`ReceivableInv` and `DepositsInv` tie the journals a transaction has drafted to
the rows it has inserted, less the part it is about to post.

Over-allocation is prevented by no lock: two allocations of one receipt read the
same rows and both pass the check.  What the code has is the unique reference of
a part's journal, which names receipt and invoice.  Two that meet in an invoice
draft the same reference, so one commits (`CommitsAlone`, from `AloneInv`: a
posted part has its row, a row of a request its request's whole body posted, and
no reference is in use twice).  Until it does, what it read of earlier rows
stands (`Reserved` in `WithinInv`).  The deposits rest on the same argument.

`ReversedIsUnposted` speaks of amounts, and a reversal computes none: it copies
the lines of what it finds posted and sets the rest of the receipt to zero.  Its
proof goes through the journal.  The accounts are the sums of the committed
entries, whoever commits, because a reference is in use once (`LedgerInv`), and
an entry and its reversal cancel (`SumOfOpposites`).  What is left is to say which
entries there are (`UndoInv`): of a receipt that stands, those of its rows and
no reversal (`Kept`); of one that was reversed, originals whose reversals are
all there, and no row (`Undone`).  Reversals of one receipt may overlap at will:
`UndoesAll` says that the rows one deletes are those it listed and that their
entries are reversed before the receipt's, and the unique reference lets one of
them commit; one that comes later finds `Undone` and posts nothing.

`BillingProofs`, for any items, invoices, approvals, notes, retainers, users
and requests, that overlap, fail and write back stale rows as they like:

- `RoutesAreSound`: a request runs the statements of its route (`PathOK`), and
  the rows it names are there and of one invoice (`Sound`); `TypeCorrect`
  (`TypeOK`) rests on it, because a request writes back what it read;
- `DueIsPosted` (`IssuedIsPosted`): an INVOICED invoice has its journal.  The
  status can also come back from what a request remembers (`Credit`,
  `VoidCredit`), so the invariant says the same of every remembered row;
- `ReceivableIsTotal` (`PostedInFull`): one journal per invoice, of its total;
  totals never change once an invoice exists, and a journal that does not
  balance is not written;
- `LockedIsBilled`: the lock of an entry names an invoice the entry is a line
  of, or one without lines.  That is `EntryIsOnItsInvoice` but for an invoice
  that was cancelled between the two statements of the form
  (`BillAndCancelLoad`);
- `DueWasDecided`: an invoice that became INVOICED was approved by a request on
  an approval of its own that was answered, and whoever is about to decide has
  read the approval open, and open to him.  A later decision may overwrite what
  the approval says (`RerouteLoad`); it cannot make an invoice due that nobody
  approved.  The invariant `ApprovedInv` says so as well of the status that a
  credit is about to write back;
- `BalancesStayPositive`: no balance is negative, since each service bounds what
  it takes off by what it read (`Positive`);
- `RetainersAddUp`: what a retainer says was applied and what is left add up to
  its amount, nothing is left below zero, and the rows of applications are of no
  less than the retainer says, none of more than the retainer.  Two applications
  at once leave more rows than the retainer knows of (`ApplyTwiceLoad`): the race
  loses an application, and the sum stays.

`AuditChainProofs`, for any tenants, requests and workloads: `TypeCorrect`,
`LinksLeadBack` (`LinksAreBackward`), `OrderTotal` (`OrderIsTotal`: no two rows
share a hash or a sequence number), `AuditTruthful` (`AuditedHappened`) and
`DoneAudited` (`DoneIsAudited`).  The inductive invariant `Inv` says what a call
may rely on between its two statements: what it saw is still there, or will be
committed together with its own row, or its own call is lost too (`SawOK`); a
row in an open transaction links to a committed row or to one of that
transaction (`LinksOK`), so that a rollback takes a row and its successors
together; calls of a transaction are under way only while it is open
(`Active`), and a row is unique among the committed and the pending (`Unique`).

The refinement of `ChainedLog` is `ClosingsFormALog`: the trail of a firm whose
users wait for each other and close periods (`OrderlyClose`, a hypothesis on
workloads alone: the single row of a closing is awaited, so an answered request
has no call under way) is the chained log, whatever other firms do.  Waiting
alone is not enough, since one request can start two calls (a deposit writes two
rows in its transaction and awaits one: `OneDeposit`, section 8); the lemma
`TrailIsALog` isolates what is, one call of the firm under way at a time.  The
workloads of the run satisfy `OrderlyClose`.  The invariant `LogInv` adds to
`Inv` that the rows of such a tenant, committed or pending, are a chain (each names
the row next below it in the sequence, `TenantChains`), and that a call about to
insert saw the last of them (`SawLast`).  The mapping sorts: the k-th entry is
the row with k rows at or below it.  The rank of a row is a cardinality, so the
first lemmas are that ranks are a bijection with 1..n and that the row inserted
at the end leaves the others theirs; then a commit or an insertion extends the
log by one entry, or is a stutter.

`NotificationsProofs`, for any jobs, users and lists of recipients, any number
of attempts and stalls, and however many faults there are: `TypeCorrect`,
`RowsTruthful` (`RowsAreTruthful`), `MailsBounded` (`MailsWithinTries`) and
`HandledWhenTold` (`CompletedWasHandled`), so all its safety properties that
hold.  They assume that a list of recipients is not empty (`sendNow` refuses one
that is, and so does the validator of the route) and that a job has an attempt.
The invariant `Inv` (`Invariance`) is one of each job: where its worker is
(`Placed`), what that place says of the row it works on (`Current`), what rows,
mails and reports say of one another (`Traced`, `Recorded`), that the rows of
this try are exactly those of the channels served so far (`Exact`), and two
counts that tie what is left behind to the tries of the job: rows left open
(`OpenCounted`) and mails to one recipient (`MailsCounted`).  The first leaves
out the row, the second adds the mail, of the try that is under way; a failure
or a stall makes of that a counted try.  A step is about one job (`Only`), and
`UntouchedKeeps` carries the others.

## 11. Only model-checked, and not modelled

Only model-checked:

- liveness (`EveryRequestIsAnswered` of trust and of receipts, `EveryJobEnds`),
  which is out of the prover's reach;
- of `Billing`: `BilledOnce`, `EntryIsOnItsInvoice`, `VoidedIsNotBilled`,
  `IssuedWasApproved`, `BalanceIsWhatIsLeft`, `RetainerAccounts` and
  `CancelledIsTerminal`.  The services do not serialise the requests that these
  properties need serialised, so a theorem would have to assume what it is
  about.  The run checks that the guards suffice where users take turns, which
  sequences of requests can still break; section 8 has the overlaps that break
  each of them, and section 10 the weaker facts that no overlap breaks.

Every other property of a passing run has a theorem, under the hypotheses given
with it.

Not modelled, and why:

- services without a caller: `TrustSettlementService` (above),
  `finance/paymentservice.ts`, `payment-status.service.ts`, `invoice.service.ts`
  of billing, the time tracking, time approval and timer services of matters,
  `NotificationWebhookService`, which is not mounted;
- reconciliation, reporting and dashboards: they read what the modules above
  write, one row after the other, and write only their own snapshots;
- proformas, reminders, invoice documents, exports, eTIMS, bank feeds, M-PESA,
  goAML, storage: gateways and formatting around a status column;
- payroll: what it would do is not what it does.  Its approval and posting name
  columns and values the schema has not (`PENDING_APPROVAL` of
  `PayrollBatchStatus`, `PayrollRecord.status` and `payrollBatchId`), so the
  Prisma client refuses their statements; a model of the intended flow would be
  of no behaviour of this program;
- procurement, vendors, HR, calendar, court, clients and compliance,
  platform administration: records with a status that one user moves; where they
  approve and post, they do it as `Billing` does (a read, a decision that names
  the row, a posting with a unique reference);
- authentication and sessions, tenant guards: security mechanisms, outside the
  correctness of the books;
- the web client, the generated client, seeds and scripts.

The repository has some 158,000 lines of implementation; the modules map the
services through which money, invoices, audit rows and notifications change.
Most of the rest is validation, presentation and generated code, which has no
order of steps to explore.
