------------------------------ MODULE TrustLedger ------------------------------
(***************************************************************************)
(* The movement of client trust money, as the API server and Postgres do   *)
(* it: TrustTransactionService.create (deposits, withdrawals, transfers to *)
(* the office, reversals and adjustments), TrustInterestService.           *)
(* postInterest, the archiving of an account and the closing of an         *)
(* accounting period, all running concurrently.                            *)
(*                                                                         *)
(* A request first validates against committed state, outside any          *)
(* transaction, and then runs one READ COMMITTED transaction whose         *)
(* statements are separate actions here.  What a transaction has written   *)
(* is invisible until Commit, so the write set of a request is derived     *)
(* from its input and its program counter; the row locks that other        *)
(* transactions wait for are explicit.  Abort covers a thrown error, the   *)
(* 30 s transaction timeout, a deadlock victim and a crash of the server.  *)
(***************************************************************************)
EXTENDS LedgerSums

CONSTANTS
  Accounts,        \* trust accounts of one tenant
  MatterHolders,   \* the holders whose matterId is not null
  Invoices, Drns,  \* invoices and disbursement request notes
  Periods,         \* accounting months
  Requests,        \* HTTP requests, each served once
  Inputs,          \* the bodies the clients may send
  NoRequest, NoInvoice, NoDrn,
  Opening,         \* what every ledger holds when the model starts
  Billed,          \* Invoice.total
  DrnAmount        \* DisbursementRequestNote.amount

VARIABLES
  active,          \* TrustAccount.isActive
  currentBalance,  \* TrustAccount.currentBalance, the control balance
  booked,          \* SUM(credit) - SUM(debit) of TrustTransaction since the start
  ledger,          \* SUM(credit) - SUM(debit) of ClientTrustLedger, by holder
  trustBalance,    \* Matter.trustBalance (the part moved since the start)
  references,      \* TrustTransaction.reference written by create
  interestRefs,    \* reference prefixes written by postInterest
  trustBank,       \* net debit of the TRUST_BANK account, by journal period
  officeBank,      \* net debit of the OFFICE_BANK account, by journal period
  period,          \* AccountingPeriod.status
  paidAmount,      \* Invoice.paidAmount
  drnStatus,       \* DisbursementRequestNote.status
  pc,              \* where each request is
  input,           \* the body of each request
  seenPaid,        \* the paidAmount a transfer read inside its transaction
  accountLock,     \* the transaction holding the TrustAccount row
  invoiceLock      \* the transaction holding the Invoice row

db == <<active, currentBalance, booked, ledger, trustBalance, references,
        interestRefs, trustBank, officeBank, period, paidAmount, drnStatus>>
locks == <<accountLock, invoiceLock>>
vars == <<db, pc, input, seenPaid, locks>>

(***************************************************************************)
(* The kinds of request.  "POST_INTEREST" is POST /trust/interest; the     *)
(* others are the transactionType of POST /trust/transactions.             *)
(***************************************************************************)
Inflows  == {"DEPOSIT", "INTEREST"}
Outflows == {"WITHDRAWAL", "TRANSFER_TO_OFFICE"}
TransactionTypes == Inflows \union Outflows \union {"REVERSAL", "ADJUSTMENT"}
Kinds == TransactionTypes \union {"POST_INTEREST"}

InputType ==
  [kind : Kinds, account : Accounts, holder : Holders, amount : Nat \ {0},
   reference : STRING, period : Periods,
   invoice : Invoices \union {NoInvoice}, drn : Drns \union {NoDrn}]

ASSUME ConstantsAssumption ==
  /\ NoRequest \notin Requests
  /\ NoInvoice \notin Invoices
  /\ NoDrn \notin Drns
  /\ MatterHolders \subseteq Holders
  /\ Inputs \subseteq InputType
  /\ Inputs # {}
  /\ Opening \in [Accounts -> [Holders -> Nat]]
  /\ Billed \in [Invoices -> Nat]
  /\ DrnAmount \in [Drns -> Nat]

(* The signed change of an input: whatever is not an inflow is negated,    *)
(* REVERSAL and ADJUSTMENT included.                                       *)
Delta(in) ==
  IF in.kind \in Inflows \union {"POST_INTEREST"} THEN in.amount ELSE -in.amount

(* Fault: a transfer is recorded like an adjustment, without a debit. *)
RowDelta_TransferUnrecorded(in) ==
  IF in.kind \in {"REVERSAL", "ADJUSTMENT", "TRANSFER_TO_OFFICE"} THEN 0 ELSE Delta(in)

(* The credit minus the debit the TrustTransaction row records: the row of *)
(* a REVERSAL or an ADJUSTMENT has neither.                                *)
RowDelta(in) ==
  IF in.kind \in {"REVERSAL", "ADJUSTMENT"} THEN 0 ELSE Delta(in)

(* Program counters. *)
Validating  == {"checkAccount", "checkMatter", "checkDue", "checkInterest"}
Moved       == {"applyDelta", "postTrust", "postOffice", "readInvoice",
                "writeInvoice", "commit"}
InTx        == Moved \union {"insert", "moveAccount", "insertInterest", "creditAccount"}
Finished    == {"created", "refused", "failed"}
Pcs         == {"idle"} \union Validating \union InTx \union Finished

TypeOK ==
  /\ active \in [Accounts -> BOOLEAN]
  /\ currentBalance \in [Accounts -> Int]
  /\ booked \in [Accounts -> Int]
  /\ ledger \in [Accounts -> [Holders -> Int]]
  /\ trustBalance \in [MatterHolders -> Int]
  /\ references \subseteq STRING
  /\ interestRefs \subseteq STRING
  /\ trustBank \in [Periods -> Int]
  /\ officeBank \in [Periods -> Int]
  /\ period \in [Periods -> {"OPEN", "CLOSED"}]
  /\ paidAmount \in [Invoices -> Nat]
  /\ drnStatus \in [Drns -> {"PENDING", "SETTLED"}]
  /\ pc \in [Requests -> Pcs]
  /\ input \in [Requests -> Inputs]
  /\ seenPaid \in [Requests -> Nat]
  /\ accountLock \in [Accounts -> Requests \union {NoRequest}]
  /\ invoiceLock \in [Invoices -> Requests \union {NoRequest}]

Init ==
  /\ active = [a \in Accounts |-> TRUE]
  /\ currentBalance = [a \in Accounts |-> Total(Opening[a])]
  /\ booked = [a \in Accounts |-> 0]
  /\ ledger = Opening
  /\ trustBalance = [h \in MatterHolders |-> 0]
  /\ references = {}
  /\ interestRefs = {}
  /\ trustBank = [p \in Periods |-> 0]
  /\ officeBank = [p \in Periods |-> 0]
  /\ period = [p \in Periods |-> "OPEN"]
  /\ paidAmount = [i \in Invoices |-> 0]
  /\ drnStatus = [d \in Drns |-> "PENDING"]
  /\ pc = [r \in Requests |-> "idle"]
  /\ input \in [Requests -> Inputs]
  /\ seenPaid = [r \in Requests |-> 0]
  /\ accountLock = [a \in Accounts |-> NoRequest]
  /\ invoiceLock = [i \in Invoices |-> NoRequest]

-------------------------------------------------------------------------------
Goto(r, label) == pc' = [pc EXCEPT ![r] = label]

(* A check made before the transaction: refused unless ok. *)
Check(r, ok, label) ==
  /\ Goto(r, IF ok THEN label ELSE "refused")
  /\ UNCHANGED <<db, input, seenPaid, locks>>

(* An error inside the transaction: Postgres rolls back and frees the rows. *)
Rollback(r) ==
  /\ Goto(r, "failed")
  /\ accountLock' = [a \in Accounts |-> IF accountLock[a] = r THEN NoRequest ELSE accountLock[a]]
  /\ invoiceLock' = [i \in Invoices |-> IF invoiceLock[i] = r THEN NoRequest ELSE invoiceLock[i]]
  /\ UNCHANGED <<db, input, seenPaid>>

(* The request arrives and is routed by its kind. *)
Submit(r) ==
  /\ pc[r] = "idle"
  /\ Goto(r, IF input[r].kind = "POST_INTEREST" THEN "checkInterest" ELSE "checkAccount")
  /\ UNCHANGED <<db, input, seenPaid, locks>>

(***************************************************************************)
(* TrustTransactionService.validate: three reads of committed state.       *)
(***************************************************************************)
CheckAccount(r) ==
  LET in == input[r] IN
  /\ pc[r] = "checkAccount"
  /\ Check(r, /\ in.reference \notin references
              /\ active[in.account]
              /\ in.kind \in Outflows => currentBalance[in.account] >= in.amount,
           "checkMatter")

CheckMatter(r) ==
  LET in == input[r] IN
  /\ pc[r] = "checkMatter"
  /\ Check(r, in.kind \in Outflows /\ in.holder \in MatterHolders
                => ledger[in.account][in.holder] >= in.amount,
           IF in.kind = "TRANSFER_TO_OFFICE" THEN "checkDue" ELSE "insert")

CheckDue(r) ==
  LET in == input[r] IN
  /\ pc[r] = "checkDue"
  /\ Check(r, /\ in.invoice # NoInvoice
                   => in.amount <= Billed[in.invoice] - paidAmount[in.invoice]
              /\ in.drn # NoDrn => in.amount <= DrnAmount[in.drn],
           "insert")

(***************************************************************************)
(* The transaction of TrustTransactionService.create.                      *)
(***************************************************************************)
(* Requests whose uncommitted TrustTransaction row carries the reference;  *)
(* the rows of postInterest are named <reference>-001, so they only meet   *)
(* those of other interest postings.                                       *)
Writing(r) ==
  {q \in Requests \ {r} :
     /\ pc[q] \in Moved \union {"moveAccount", "creditAccount"}
     /\ input[q].reference = input[r].reference
     /\ (input[q].kind = "POST_INTEREST") = (input[r].kind = "POST_INTEREST")}

(* Fault: nothing enforces that a reference is unique. *)
InsertTransaction_NotUnique(r) ==
  /\ pc[r] = "insert"
  /\ Goto(r, "moveAccount")
  /\ UNCHANGED <<db, input, seenPaid, locks>>

(* INSERT into TrustTransaction: waits for an uncommitted row of the same  *)
(* reference and fails on a committed one (unique(tenantId, reference)).   *)
InsertTransaction(r) ==
  /\ pc[r] = "insert"
  /\ Writing(r) = {}
  /\ IF input[r].reference \in references
     THEN Rollback(r)
     ELSE Goto(r, "moveAccount") /\ UNCHANGED <<db, input, seenPaid, locks>>

LockAccount(r, label) ==
  /\ accountLock[input[r].account] = NoRequest
  /\ accountLock' = [accountLock EXCEPT ![input[r].account] = r]
  /\ Goto(r, label)
  /\ UNCHANGED <<db, input, seenPaid, invoiceLock>>

(* The control balance.  An outflow is a conditional decrement: no row     *)
(* matches when the committed balance is short, and the row lock it takes  *)
(* otherwise is held until commit.                                         *)
MoveAccount(r) ==
  LET in == input[r] IN
  /\ pc[r] = "moveAccount"
  /\ IF in.kind \in Outflows /\ currentBalance[in.account] < in.amount
     THEN Rollback(r)
     ELSE LockAccount(r, "applyDelta")

(* Fault: pg_advisory_lock, which the session keeps after its commit. *)
HoldsLedger_SessionLock(r) ==
  {q \in Requests \ {r} :
     /\ pc[q] \in (Moved \ {"applyDelta"}) \union {"created"}
     /\ input[q].kind # "POST_INTEREST"
     /\ input[q].account = input[r].account
     /\ input[q].holder = input[r].holder}

(* Transactions holding the advisory lock of r's ledger. *)
HoldsLedger(r) ==
  {q \in Requests \ {r} :
     /\ pc[q] \in Moved \ {"applyDelta"}
     /\ input[q].kind # "POST_INTEREST"
     /\ input[q].account = input[r].account
     /\ input[q].holder = input[r].holder}

(* Fault: only outflows are tested against the ledger. *)
ApplyDelta_OutflowsOnly(r) ==
  LET in == input[r] IN
  /\ pc[r] = "applyDelta"
  /\ HoldsLedger(r) = {}
  /\ IF in.kind \in Outflows /\ ledger[in.account][in.holder] < in.amount
     THEN Rollback(r)
     ELSE Goto(r, "postTrust") /\ UNCHANGED <<db, input, seenPaid, locks>>

(* Fault: the movement is tested against the account, not the ledger. *)
ApplyDelta_PooledFunds(r) ==
  LET in == input[r] IN
  /\ pc[r] = "applyDelta"
  /\ HoldsLedger(r) = {}
  /\ IF currentBalance[in.account] + Delta(in) < 0
     THEN Rollback(r)
     ELSE Goto(r, "postTrust") /\ UNCHANGED <<db, input, seenPaid, locks>>

(* ClientTrustLedgerService.applyDelta: lock, sum, refuse an overdraw. *)
ApplyDelta(r) ==
  LET in == input[r] IN
  /\ pc[r] = "applyDelta"
  /\ HoldsLedger(r) = {}
  /\ IF ledger[in.account][in.holder] + Delta(in) < 0
     THEN Rollback(r)
     ELSE Goto(r, "postTrust") /\ UNCHANGED <<db, input, seenPaid, locks>>

(* GeneralLedgerService.postJournal: the policy is evaluated inside the    *)
(* transaction and refuses a closed period.                                *)
PostJournal(r, label) ==
  IF period[input[r].period] = "CLOSED"
  THEN Rollback(r)
  ELSE Goto(r, label) /\ UNCHANGED <<db, input, seenPaid, locks>>

PostTrustJournal(r) ==
  /\ pc[r] = "postTrust"
  /\ PostJournal(r, IF input[r].kind = "TRANSFER_TO_OFFICE" THEN "postOffice" ELSE "commit")

PostOfficeJournal(r) ==
  /\ pc[r] = "postOffice"
  /\ PostJournal(r, IF input[r].invoice = NoInvoice THEN "commit" ELSE "readInvoice")

(* Fault: the transfer trusts what was paid when the request started. *)
ReadInvoice_Stale(r) ==
  /\ pc[r] = "readInvoice"
  /\ Goto(r, "writeInvoice")
  /\ UNCHANGED <<db, input, seenPaid, locks>>

(* The invoice is read, and its new paidAmount written, as two statements. *)
ReadInvoice(r) ==
  /\ pc[r] = "readInvoice"
  /\ seenPaid' = [seenPaid EXCEPT ![r] = paidAmount[input[r].invoice]]
  /\ Goto(r, "writeInvoice")
  /\ UNCHANGED <<db, input, locks>>

WriteInvoice(r) ==
  /\ pc[r] = "writeInvoice"
  /\ invoiceLock[input[r].invoice] = NoRequest
  /\ invoiceLock' = [invoiceLock EXCEPT ![input[r].invoice] = r]
  /\ Goto(r, "commit")
  /\ UNCHANGED <<db, input, seenPaid, accountLock>>

(***************************************************************************)
(* TrustInterestService.postInterest, as POST /trust/interest calls it: a  *)
(* MANUAL allocation of the whole amount to one holder.  It posts no       *)
(* journal and takes no advisory lock.                                     *)
(***************************************************************************)
CheckInterest(r) ==
  LET in == input[r] IN
  /\ pc[r] = "checkInterest"
  /\ Check(r, active[in.account] /\ in.reference \notin references \union interestRefs,
           "insertInterest")

InsertInterest(r) ==
  /\ pc[r] = "insertInterest"
  /\ Writing(r) = {}
  /\ IF input[r].reference \in interestRefs
     THEN Rollback(r)
     ELSE Goto(r, "creditAccount") /\ UNCHANGED <<db, input, seenPaid, locks>>

CreditAccount(r) ==
  /\ pc[r] = "creditAccount"
  /\ LockAccount(r, "commit")

-------------------------------------------------------------------------------
(* Fault: the control balance follows the transaction row, the ledger the delta. *)
MoveMoney_ByRow(in) ==
  /\ currentBalance' = [currentBalance EXCEPT ![in.account] = @ + RowDelta(in)]
  /\ ledger' = [ledger EXCEPT ![in.account][in.holder] = @ + Delta(in)]
  /\ booked' = [booked EXCEPT ![in.account] = @ + RowDelta(in)]

(* What a request's transaction publishes when it commits. *)
MoveMoney(in) ==
  /\ currentBalance' = [currentBalance EXCEPT ![in.account] = @ + Delta(in)]
  /\ ledger' = [ledger EXCEPT ![in.account][in.holder] = @ + Delta(in)]
  /\ booked' = [booked EXCEPT ![in.account] = @ + RowDelta(in)]

(* Fault: the trust journal of an outflow is posted with the sides swapped. *)
PublishTransaction_SidesSwapped(r) ==
  LET in == input[r] IN
  /\ references' = references \union {in.reference}
  /\ trustBank' = [trustBank EXCEPT ![in.period] = @ + in.amount]
  /\ UNCHANGED <<officeBank, paidAmount, drnStatus, trustBalance, interestRefs>>

(* Fault: the office side is posted only for a transfer that names an invoice. *)
PublishTransaction_InvoicesOnly(r) ==
  LET in == input[r] IN
  /\ references' = references \union {in.reference}
  /\ trustBank' = [trustBank EXCEPT ![in.period] = @ + Delta(in)]
  /\ officeBank' = IF in.invoice # NoInvoice
                   THEN [officeBank EXCEPT ![in.period] = @ + in.amount] ELSE officeBank
  /\ paidAmount' = IF in.invoice # NoInvoice
                   THEN [paidAmount EXCEPT ![in.invoice] = seenPaid[r] + in.amount]
                   ELSE paidAmount
  /\ UNCHANGED <<drnStatus, trustBalance, interestRefs>>

(* Fault: the amount is taken off what was paid, as if that were still due. *)
PublishTransaction_TakenOff(r) ==
  LET in == input[r] IN
  /\ references' = references \union {in.reference}
  /\ trustBank' = [trustBank EXCEPT ![in.period] = @ + Delta(in)]
  /\ paidAmount' = IF in.invoice # NoInvoice
                   THEN [paidAmount EXCEPT ![in.invoice] = seenPaid[r] - in.amount]
                   ELSE paidAmount
  /\ UNCHANGED <<officeBank, drnStatus, trustBalance, interestRefs>>

PublishTransaction(r) ==
  LET in == input[r]
      settles == in.kind = "TRANSFER_TO_OFFICE"
  IN
  /\ references' = references \union {in.reference}
  /\ trustBank' = [trustBank EXCEPT ![in.period] = @ + Delta(in)]
  /\ officeBank' = IF settles THEN [officeBank EXCEPT ![in.period] = @ + in.amount]
                   ELSE officeBank
  /\ paidAmount' = IF settles /\ in.invoice # NoInvoice
                   THEN [paidAmount EXCEPT ![in.invoice] = seenPaid[r] + in.amount]
                   ELSE paidAmount
  /\ drnStatus' = IF settles /\ in.drn # NoDrn
                  THEN [drnStatus EXCEPT ![in.drn] = "SETTLED"]
                  ELSE drnStatus
  /\ UNCHANGED <<trustBalance, interestRefs>>

PublishInterest(r) ==
  LET in == input[r] IN
  /\ interestRefs' = interestRefs \union {in.reference}
  /\ trustBalance' = IF in.holder \in MatterHolders
                     THEN [trustBalance EXCEPT ![in.holder] = @ + in.amount]
                     ELSE trustBalance
  /\ UNCHANGED <<references, trustBank, officeBank, paidAmount, drnStatus>>

Commit(r) ==
  /\ pc[r] = "commit"
  /\ MoveMoney(input[r])
  /\ IF input[r].kind = "POST_INTEREST" THEN PublishInterest(r) ELSE PublishTransaction(r)
  /\ Goto(r, "created")
  /\ accountLock' = [a \in Accounts |-> IF accountLock[a] = r THEN NoRequest ELSE accountLock[a]]
  /\ invoiceLock' = [i \in Invoices |-> IF invoiceLock[i] = r THEN NoRequest ELSE invoiceLock[i]]
  /\ UNCHANGED <<active, period, input, seenPaid>>

(* A thrown error, a timeout, a deadlock victim, a crash of the server. *)
Abort(r) ==
  /\ pc[r] \in Validating \union InTx
  /\ Rollback(r)

(***************************************************************************)
(* The other writers of what a movement reads.                             *)
(***************************************************************************)
(* PATCH /trust/accounts/:id/archive: an update of the account row, so it  *)
(* waits for a movement that holds the row.                                *)
Archive(a) ==
  /\ active[a]
  /\ accountLock[a] = NoRequest
  /\ active' = [active EXCEPT ![a] = FALSE]
  /\ UNCHANGED <<currentBalance, booked, ledger, trustBalance, references, interestRefs,
                 trustBank, officeBank, period, paidAmount, drnStatus,
                 pc, input, seenPaid, locks>>

(* PeriodCloseService.closePeriod; the posting side takes no lock on the   *)
(* period row, so nothing makes it wait.                                   *)
ClosePeriod(p) ==
  /\ period[p] = "OPEN"
  /\ period' = [period EXCEPT ![p] = "CLOSED"]
  /\ UNCHANGED <<active, currentBalance, booked, ledger, trustBalance, references,
                 interestRefs, trustBank, officeBank, paidAmount, drnStatus,
                 pc, input, seenPaid, locks>>

Step(r) ==
  \/ CheckAccount(r) \/ CheckMatter(r) \/ CheckDue(r)
  \/ InsertTransaction(r) \/ MoveAccount(r) \/ ApplyDelta(r)
  \/ PostTrustJournal(r) \/ PostOfficeJournal(r)
  \/ ReadInvoice(r) \/ WriteInvoice(r)
  \/ CheckInterest(r) \/ InsertInterest(r) \/ CreditAccount(r)
  \/ Commit(r)

(* Every request was answered: the server waits for work that never comes. *)
Quiescent ==
  /\ \A r \in Requests : pc[r] \in Finished
  /\ UNCHANGED vars

Next ==
  \/ \E r \in Requests : Submit(r) \/ Step(r) \/ Abort(r)
  \/ \E a \in Accounts : Archive(a)
  \/ \E p \in Periods : ClosePeriod(p)
  \/ Quiescent

Spec == Init /\ [][Next]_vars

(* A request that was accepted keeps running: the server and Postgres      *)
(* execute its next statement unless it waits for a row.                   *)
Fairness == \A r \in Requests : WF_vars(Step(r))

FairSpec == Spec /\ Fairness

-------------------------------------------------------------------------------
(* No client's money is ever spent for another: the balance of a (client,  *)
(* matter) pair on a trust account never drops below zero, whatever        *)
(* requests race (ClientTrustLedgerService.applyDelta, FINDING-007-002).   *)
LedgersNeverNegative ==
  \A a \in Accounts, h \in Holders : ledger[a][h] >= 0

(* The control balance of a trust account is the sum of its client         *)
(* ledgers: create moves both by one delta, postInterest moves the account *)
(* once for its rows (ADR-004, the check behind FINDING-XREL-001).         *)
ControlMatchesLedgers ==
  \A a \in Accounts : currentBalance[a] = Total(ledger[a])

(* A trust account is never overdrawn, though only outflows test its       *)
(* balance and reversals and adjustments decrement it unconditionally.     *)
AccountsNeverNegative ==
  \A a \in Accounts : currentBalance[a] >= 0

(* While a movement holds its account row, what it has checked stays true: *)
(* its ledger still covers the movement when the transaction commits.      *)
CheckedFundsStayAvailable ==
  \A r \in Requests :
    pc[r] \in Moved \ {"applyDelta"} =>
      ledger[input[r].account][input[r].holder] + Delta(input[r]) >= 0

Created == {r \in Requests : pc[r] = "created"}

(* A retried or raced request never moves money twice: two requests that   *)
(* carried one reference do not both succeed (create and postInterest      *)
(* check the reference before they write it).                              *)
ReferenceMovesMoneyOnce ==
  \A q, r \in Created :
    /\ input[q].reference = input[r].reference
    /\ (input[q].kind = "POST_INTEREST") = (input[r].kind = "POST_INTEREST")
    => q = r

(* Once a transaction holds the account row, only itself can end its hold: *)
(* a movement is never overtaken between its checks and its commit.        *)
HeldRowsAreReleasedByTheirHolder ==
  [][\A a \in Accounts : accountLock[a] # NoRequest /\ accountLock'[a] # accountLock[a]
       => pc'[accountLock[a]] \in {"created", "failed"}]_vars

(* The account row serialises movements of one account: never two          *)
(* transactions between their balance update and their commit.             *)
OneMoverPerAccount ==
  \A q, r \in Requests :
    /\ pc[q] \in Moved
    /\ pc[r] \in Moved
    /\ input[q].account = input[r].account
    => q = r

(* The concurrent, lock-based program only ever makes whole movements of   *)
(* the abstract book, one at a time.                                       *)
Book == INSTANCE TrustBook WITH Changes <- {Delta(in) : in \in Inputs}
BookSpec == Book!Spec

(* Every request that was accepted is answered, however it waits for rows. *)
EveryRequestIsAnswered ==
  \A r \in Requests : pc[r] \in Validating \union InTx ~> pc[r] \in Finished
===============================================================================
