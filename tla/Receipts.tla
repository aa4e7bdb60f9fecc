------------------------------- MODULE Receipts -------------------------------
(***************************************************************************)
(* The money of a payment receipt: PaymentService.createPaymentReceipt,    *)
(* PaymentAllocationService.allocate, PaymentReversalService and           *)
(* RefundService, run concurrently by the API server.                      *)
(*                                                                         *)
(* A receipt is allocated to invoices, refunded, or reversed as a whole,   *)
(* and every step posts a journal.  Each handler reads first and writes    *)
(* later; the statements that another transaction can come between are     *)
(* separate actions.  What a transaction has done so far is its record     *)
(* tx[r], which Commit publishes and Rollback drops.                       *)
(*                                                                         *)
(* The posting services UPDATE the rows of the chart of accounts they post *)
(* to (ensureSystemAccount), unless somebody made the account by hand, so  *)
(* those rows are locked until commit: the allocations of a tenant queue   *)
(* for the row of account 2300, or else of 1200, if one is a system one.   *)
(***************************************************************************)
EXTENDS Integers, Sequences, FiniteSetsExt, Functions

CONSTANTS
  ReceiptIds,     \* payment receipts, created before or by a request
  Invoices,
  Refunds,        \* refunds that requests may create
  Requests,
  Workloads,      \* the bodies the requests may carry: functions from Requests
  NoRequest, NoRefund,
  Amount,         \* PaymentReceipt.amount
  BalanceDue,     \* Invoice.balanceDue, which no handler here writes
  RefundReceipt,  \* the receipt a refund is for
  RefundAmount,   \* PaymentRefund.amount
  Posted,         \* receipts that exist and are posted at the start
  Opening,        \* their allocations, made and posted by earlier requests
  Approved,       \* refunds that are approved at the start
  SystemAccounts  \* accounts that a posting or the seed made, not a user

VARIABLES
  receiptStatus, receiptNumber, unallocated,   \* PaymentReceipt
  allocations,    \* PaymentReceiptAllocation rows
  paidAmount,     \* Invoice.paidAmount
  refundStatus,   \* PaymentRefund.status
  journals,       \* JournalEntry rows of the module
  receivable,     \* net credit of account 1200, by receipt
  deposits,       \* net credit of account 2300, by receipt
  pc, input, tx,  \* where a request is, its body, its uncommitted work
  rowLock         \* the transaction that holds a row

money == <<receiptStatus, receiptNumber, unallocated, allocations, paidAmount,
           refundStatus, journals, receivable, deposits>>
vars == <<money, pc, input, tx, rowLock>>

Accounts == {"1000", "1200", "2300"}    \* bank, receivables, client deposits
Rows == Accounts \union ReceiptIds \union Invoices \union Refunds

Kinds == {"CREATE", "ALLOCATE", "REVERSE", "REFUND", "APPROVE", "REJECT", "PAY"}
Part == [invoice : Invoices, amount : Nat \ {0}]
InputType == [kind : Kinds, receipt : ReceiptIds, parts : Seq(Part),
              refund : Refunds \union {NoRefund}]
RowType == [by : Requests \union {NoRequest}, n : Nat, receipt : ReceiptIds,
            invoice : Invoices, amount : Nat \ {0}]

(* What the handlers accept: an allocation has parts ("At least one         *)
(* allocation is required."), a refund request is of a refund's receipt.    *)
WellFormed(in) ==
  /\ in.kind = "ALLOCATE" => in.parts # <<>>
  /\ in.kind \in {"REFUND", "APPROVE", "REJECT", "PAY"} =>
       in.refund \in Refunds /\ in.receipt = RefundReceipt[in.refund]

ASSUME ConstantsAssumption ==
  /\ NoRequest \notin Requests
  /\ NoRefund \notin Refunds
  /\ Workloads \subseteq [Requests -> {in \in InputType : WellFormed(in)}]
  /\ Workloads # {}
  /\ IsFiniteSet(ReceiptIds)
  /\ Amount \in [ReceiptIds -> Nat \ {0}]
  /\ BalanceDue \in [Invoices -> Nat \ {0}]
  /\ RefundReceipt \in [Refunds -> ReceiptIds]
  /\ RefundAmount \in [Refunds -> Nat \ {0}]
  /\ Posted \subseteq ReceiptIds
  /\ Opening \subseteq RowType /\ IsFiniteSet(Opening)
  /\ \A a \in Opening : a.by = NoRequest /\ a.receipt \in Posted
  /\ Approved \subseteq Refunds
  /\ SystemAccounts \subseteq Accounts

(***************************************************************************)
(* Rows.  An allocation names the request and the position in its body     *)
(* that wrote it.  A journal entry is of a type, about a receipt, and,     *)
(* where it matters, about an invoice or a refund; "cleared" is what it    *)
(* takes off the receivables.                                              *)
(***************************************************************************)
Applied(S) == SumFunction([a \in S |-> a.amount])
RowsOf(S, rc) == {a \in S : a.receipt = rc}
RowsFor(S, i) == {a \in S : a.invoice = i}

(* @@unique([tenantId, reference]) of JournalEntry: the reference leaves   *)
(* the amount out, unlike the key that is searched before posting.         *)
SameReference(e, f) == e.type = f.type /\ e.receipt = f.receipt /\ e.about = f.about

ReceiptEntry(rc, cleared) ==
  [type |-> "RECEIPT", receipt |-> rc, about |-> rc, amount |-> Amount[rc], cleared |-> cleared]
AllocationEntry(a) ==
  [type |-> "ALLOCATION", receipt |-> a.receipt, about |-> a.invoice,
   amount |-> a.amount, cleared |-> a.amount]
RefundEntry(f) ==
  [type |-> "REFUND", receipt |-> RefundReceipt[f], about |-> f,
   amount |-> RefundAmount[f], cleared |-> 0]
ReversalOf(e) ==
  [e EXCEPT !.type = IF e.type = "RECEIPT" THEN "RECEIPT_REVERSAL" ELSE "ALLOCATION_REVERSAL"]

(* The journal lines: what an entry credits to 1200 and to 2300. *)
ReceivableLine(e) ==
  IF e.type \in {"RECEIPT_REVERSAL", "ALLOCATION_REVERSAL"} THEN -e.cleared ELSE e.cleared
DepositLine(e) ==
  CASE e.type = "RECEIPT"             -> e.amount - e.cleared
    [] e.type = "RECEIPT_REVERSAL"    -> e.cleared - e.amount
    [] e.type = "ALLOCATION_REVERSAL" -> e.amount
    [] OTHER                          -> -e.amount

(***************************************************************************)
(* What a transaction has done: the parts of its body it has inserted, the *)
(* allocations of the receipt it read (list), deleted (gone) and summed    *)
(* (allocated), the invoices it has still to recompute (todo), the one it  *)
(* is at, the paid amounts it will write, and its journal entries.         *)
(***************************************************************************)
Fresh ==
  [n |-> 0, number |-> 0, allocated |-> 0, list |-> {}, gone |-> {}, todo |-> {},
   invoice |-> CHOOSE i \in Invoices : TRUE, paid |-> <<>>, draft |-> {}]

(* Fault: a receipt is given the status of an invoice. *)
StatusAt_OfInvoice(rc, allocated) ==
  IF allocated = Amount[rc] THEN "PAID" ELSE "RECEIVED"

StatusAt(rc, allocated) ==
  CASE allocated = 0          -> "RECEIVED"
    [] allocated = Amount[rc] -> "ALLOCATED"
    [] OTHER                  -> "PARTIALLY_ALLOCATED"

Init ==
  LET allocated == [rc \in ReceiptIds |-> Applied(RowsOf(Opening, rc))] IN
  /\ receiptStatus =
       [rc \in ReceiptIds |-> IF rc \in Posted THEN StatusAt(rc, allocated[rc]) ELSE "ABSENT"]
  /\ receiptNumber \in [ReceiptIds -> 0..Cardinality(Posted)]
  /\ \A rc \in ReceiptIds : (receiptNumber[rc] = 0) = (rc \notin Posted)
  /\ \A rc, sc \in Posted : receiptNumber[rc] = receiptNumber[sc] => rc = sc
  /\ unallocated =
       [rc \in ReceiptIds |-> IF rc \in Posted THEN Amount[rc] - allocated[rc] ELSE 0]
  /\ allocations = Opening
  /\ paidAmount = [i \in Invoices |-> Applied(RowsFor(Opening, i))]
  /\ refundStatus = [f \in Refunds |-> IF f \in Approved THEN "APPROVED" ELSE "ABSENT"]
  /\ journals = {ReceiptEntry(rc, 0) : rc \in Posted} \union {AllocationEntry(a) : a \in Opening}
  /\ receivable = allocated
  /\ deposits = unallocated
  /\ pc = [r \in Requests |-> "idle"]
  /\ input \in Workloads
  /\ tx = [r \in Requests |-> Fresh]
  /\ rowLock = [w \in Rows |-> NoRequest]

-------------------------------------------------------------------------------
(* Program counters. *)
InTx == {"number", "insertReceipt", "readReceipt", "readInvoices", "readDeposit",
         "allocateDeposits", "allocateReceivable", "postAllocation", "decrement",
         "recompute", "writeInvoice", "closeReceipt",
         "receiptBank", "receiptReceivable", "receiptDeposits", "postReceipt",
         "readReversed", "listRows", "deleteRows", "reverseAllocation", "increment",
         "reverseReceipt", "markReversed", "closeReversal",
         "readApproved", "refundDeposits", "checkPosting", "refundBank", "postRefund",
         "deduct", "payRefund", "commit"}
Autocommit == {"readRefundable", "insertRefund", "readPending", "decide"}
Finished == {"done", "failed"}

FirstStep == [CREATE |-> "number", ALLOCATE |-> "readReceipt", REVERSE |-> "readReversed",
              REFUND |-> "readRefundable", APPROVE |-> "readPending",
              REJECT |-> "readPending", PAY |-> "readApproved"]

Goto(r, label) == pc' = [pc EXCEPT ![r] = label]
FreeRows(r) == rowLock' = [w \in Rows |-> IF rowLock[w] = r THEN NoRequest ELSE rowLock[w]]

(* The end of a request: an answer, and nothing left of its transaction. *)
Answer(r, label) ==
  /\ Goto(r, label)
  /\ tx' = [tx EXCEPT ![r] = Fresh]
  /\ FreeRows(r)
  /\ UNCHANGED input

Rollback(r) == Answer(r, "failed") /\ UNCHANGED money

(* A statement that only reads: on to the next with what it saw, or error. *)
Read(r, ok, label, seen) ==
  IF ok THEN /\ Goto(r, label)
             /\ tx' = [tx EXCEPT ![r] = seen]
             /\ UNCHANGED <<money, input, rowLock>>
        ELSE Rollback(r)

(* An UPDATE: waits for the row and holds it until the transaction ends. *)
Update(r, row, label) ==
  /\ rowLock[row] \in {NoRequest, r}
  /\ rowLock' = [rowLock EXCEPT ![row] = r]
  /\ Goto(r, label)
  /\ UNCHANGED <<money, input, tx>>

(* Fault: no unique index on the reference. *)
Post_NotUnique(r, e, label, seen) ==
  Read(r, TRUE, label, [seen EXCEPT !.draft = @ \union {e}])

(* createJournalWithLines: waits for an uncommitted entry of the same      *)
(* reference, fails on a committed one.                                    *)
Post(r, e, label, seen) ==
  /\ \A q \in Requests \ {r} : \A d \in tx[q].draft : ~SameReference(d, e)
  /\ Read(r, \A d \in journals \union tx[r].draft : ~SameReference(d, e), label,
          [seen EXCEPT !.draft = @ \union {e}])

(* What a transaction sees of the journal entries and of the allocations:  *)
(* what is committed, less the rows it deleted, and its own.               *)
Entries(r) == journals \union tx[r].draft
OwnRows(r) ==
  {[by |-> r, n |-> k, receipt |-> input[r].receipt,
    invoice |-> input[r].parts[k].invoice, amount |-> input[r].parts[k].amount] :
     k \in 1..tx[r].n}
Visible(r) == (allocations \ tx[r].gone) \union OwnRows(r)

(* What it sees of unallocatedAmount: a receipt of its own starts full,    *)
(* and it has decremented it by what it posted.                            *)
Unallocated(r) ==
  LET rc == input[r].receipt IN
    (IF input[r].kind = "CREATE" THEN Amount[rc] ELSE unallocated[rc]) - Applied(tx[r].draft)

Exists(rc) == receiptStatus[rc] # "ABSENT"
Standing(rc) == receiptStatus[rc] \notin {"ABSENT", "REVERSED"}

(* A cuid is fresh: no two requests create one receipt or refund. *)
FreshId(r) ==
  LET in == input[r]
      Others(kind) == {input[q] : q \in {p \in Requests \ {r} : pc[p] # "idle" /\ input[p].kind = kind}}
  IN /\ in.kind = "CREATE" =>
          ~Exists(in.receipt) /\ \A o \in Others("CREATE") : o.receipt # in.receipt
     /\ in.kind = "REFUND" =>
          refundStatus[in.refund] = "ABSENT" /\ \A o \in Others("REFUND") : o.refund # in.refund

Submit(r) ==
  /\ pc[r] = "idle"
  /\ FreshId(r)
  /\ Goto(r, FirstStep[input[r].kind])
  /\ UNCHANGED <<money, input, tx, rowLock>>

(***************************************************************************)
(* createReceipt: the next number is the largest one read plus one.  A     *)
(* collision aborts the transaction, and the retry runs in the same one.   *)
(***************************************************************************)
NextNumber(r) ==
  /\ pc[r] = "number"
  /\ Read(r, TRUE, "insertReceipt",
          [tx[r] EXCEPT !.number = 1 + Max({receiptNumber[rc] : rc \in ReceiptIds})])

InsertReceipt(r) ==
  /\ pc[r] = "insertReceipt"
  /\ \A q \in Requests \ {r} : pc[q] # "insertReceipt" => tx[q].number # tx[r].number
  /\ Read(r, \A rc \in ReceiptIds : receiptNumber[rc] # tx[r].number,
          IF input[r].parts = <<>> THEN "receiptBank" ELSE "readReceipt", tx[r])
(***************************************************************************)
(* allocateWithinTransaction.  It reads the receipt and the invoices, then *)
(* per part inserts the row, posts it, takes the posted amount off the     *)
(* receipt and recomputes the invoice; at the end it stores what was left  *)
(* of the receipt by what it read at the beginning.                        *)
(***************************************************************************)
ReadReceipt(r) ==
  LET rc == input[r].receipt
      parts == input[r].parts
      after == Applied(RowsOf(allocations, rc))
                 + SumFunction([k \in DOMAIN parts |-> parts[k].amount])
  IN /\ pc[r] = "readReceipt"
     /\ Read(r, (input[r].kind = "CREATE" \/ Standing(rc)) /\ after <= Amount[rc],
             "readInvoices", [tx[r] EXCEPT !.allocated = after])

(* Invoice.status is PAID when the paid amount covers the balance due. *)
CanReceive(part) ==
  /\ paidAmount[part.invoice] < BalanceDue[part.invoice]
  /\ part.amount <= BalanceDue[part.invoice] - Applied(RowsFor(allocations, part.invoice))

ReadInvoices(r) ==
  /\ pc[r] = "readInvoices"
  /\ Read(r, \A k \in DOMAIN input[r].parts : CanReceive(input[r].parts[k]), "readDeposit", tx[r])

(* Fault: an entry of any amount counts as the posting of this part. *)
ReadDeposit_ByPair(r) ==
  LET n == tx[r].n + 1
      part == input[r].parts[n]
      posted == \E e \in Entries(r) : /\ e.type = "ALLOCATION"
                                     /\ e.receipt = input[r].receipt
                                     /\ e.about = part.invoice
  IN /\ pc[r] = "readDeposit"
     /\ Read(r, posted \/ Unallocated(r) >= part.amount,
             IF posted THEN "recompute" ELSE "allocateDeposits",
             [tx[r] EXCEPT !.n = n, !.invoice = part.invoice])

(* postAllocationReclassification posts nothing for a pair of receipt and  *)
(* invoice that has an entry of the same amount.                           *)
ReadDeposit(r) ==
  LET n == tx[r].n + 1
      part == input[r].parts[n]
      posted == AllocationEntry([receipt |-> input[r].receipt, invoice |-> part.invoice,
                                 amount |-> part.amount]) \in Entries(r)
  IN /\ pc[r] = "readDeposit"
     /\ Read(r, posted \/ Unallocated(r) >= part.amount,
             IF posted THEN "recompute" ELSE "allocateDeposits",
             [tx[r] EXCEPT !.n = n, !.invoice = part.invoice])

(* ensureSystemAccount, in the order in which each posting calls it. *)
AccountCall ==
  [allocateDeposits   |-> <<"2300", "allocateReceivable">>,
   allocateReceivable |-> <<"1200", "postAllocation">>,
   receiptBank        |-> <<"1000", "receiptReceivable">>,
   receiptReceivable  |-> <<"1200", "receiptDeposits">>,
   receiptDeposits    |-> <<"2300", "postReceipt">>,
   refundDeposits     |-> <<"2300", "checkPosting">>,
   refundBank         |-> <<"1000", "postRefund">>]

(* An account that is not a system account is returned as it is. *)
EnsureSystemAccount(r) ==
  /\ pc[r] \in DOMAIN AccountCall
  /\ \/ /\ AccountCall[pc[r]][1] \in SystemAccounts
        /\ Update(r, AccountCall[pc[r]][1], AccountCall[pc[r]][2])
     \/ /\ AccountCall[pc[r]][1] \notin SystemAccounts
        /\ Read(r, TRUE, AccountCall[pc[r]][2], tx[r])

PostAllocation(r) ==
  /\ pc[r] = "postAllocation"
  /\ \E a \in OwnRows(r) : a.n = tx[r].n /\ Post(r, AllocationEntry(a), "decrement", tx[r])

(* Fault: the loop over the invoices of a reversal never advances. *)
Recompute_KeepsTodo(r) ==
  /\ pc[r] = "recompute"
  /\ \E i \in IF input[r].kind = "REVERSE" THEN tx[r].todo ELSE {tx[r].invoice} :
       Read(r, TRUE, "writeInvoice", [tx[r] EXCEPT !.invoice = i])

(* Fault: the rows are read on the client outside the transaction. *)
Recompute_OutsideTransaction(r) ==
  /\ pc[r] = "recompute"
  /\ \E i \in IF input[r].kind = "REVERSE" THEN tx[r].todo ELSE {tx[r].invoice} :
       Read(r, TRUE, "writeInvoice",
            [tx[r] EXCEPT !.invoice = i, !.todo = @ \ {i},
                          !.paid = [j \in DOMAIN @ \union {i} |->
                                      IF j = i THEN Applied(RowsFor(allocations, i)) ELSE @[j]]])

Recompute(r) ==
  /\ pc[r] = "recompute"
  /\ \E i \in IF input[r].kind = "REVERSE" THEN tx[r].todo ELSE {tx[r].invoice} :
       Read(r, TRUE, "writeInvoice",
            [tx[r] EXCEPT !.invoice = i, !.todo = @ \ {i},
                          !.paid = [j \in DOMAIN @ \union {i} |->
                                      IF j = i THEN Applied(RowsFor(Visible(r), i)) ELSE @[j]]])

WriteInvoice(r) ==
  /\ pc[r] = "writeInvoice"
  /\ Update(r, tx[r].invoice,
            IF input[r].kind = "REVERSE"
            THEN IF tx[r].todo # {} THEN "recompute" ELSE "reverseReceipt"
            ELSE IF tx[r].n < Len(input[r].parts) THEN "readDeposit" ELSE "closeReceipt")

(* The other updates of the receipt row, each after its posting. *)
UpdateReceipt(r) ==
  /\ pc[r] \in {"decrement", "closeReceipt", "increment", "closeReversal", "deduct"}
  /\ Update(r, input[r].receipt,
            CASE pc[r] = "decrement" -> "recompute"
              [] pc[r] = "increment" -> IF tx[r].list = {} THEN "recompute" ELSE "reverseAllocation"
              [] pc[r] = "deduct"    -> "payRefund"
              [] pc[r] = "closeReceipt" /\ input[r].kind = "CREATE" -> "receiptBank"
              [] OTHER -> "commit")

(* postReceipt: what is allocated already is credited to the receivables,  *)
(* the rest to the client deposits.                                        *)
PostReceipt(r) ==
  /\ pc[r] = "postReceipt"
  /\ Post(r, ReceiptEntry(input[r].receipt, Applied(OwnRows(r))), "commit", tx[r])

(***************************************************************************)
(* reversePaymentReceipt: the rows are listed, then whatever rows there    *)
(* are get deleted, then the entries of those listed are reversed.         *)
(***************************************************************************)
ReadReversed(r) ==
  /\ pc[r] = "readReversed"
  /\ Read(r, Standing(input[r].receipt), "listRows", tx[r])

ListRows(r) ==
  LET rows == RowsOf(allocations, input[r].receipt) IN
  /\ pc[r] = "listRows"
  /\ Read(r, TRUE, IF rows = {} THEN "reverseReceipt" ELSE "deleteRows", [tx[r] EXCEPT !.list = rows])

DeleteRows(r) ==
  LET rows == RowsOf(allocations, input[r].receipt) IN
  /\ pc[r] = "deleteRows"
  /\ \A q \in Requests \ {r} : tx[q].gone \intersect rows = {}
  /\ Read(r, TRUE, "reverseAllocation",
          [tx[r] EXCEPT !.gone = rows, !.todo = {a.invoice : a \in tx[r].list}])

(* Fault: a reversal is searched by receipt, not by the entry it reverses. *)
ReverseAllocation_OnePerReceipt(r) ==
  /\ pc[r] = "reverseAllocation"
  /\ \E a \in tx[r].list :
       LET e == AllocationEntry(a)
           left == [tx[r] EXCEPT !.list = @ \ {a}]
       IN IF \A d \in Entries(r) : d.type = "ALLOCATION_REVERSAL" => d.receipt # a.receipt
          THEN Post(r, ReversalOf(e), "increment", left)
          ELSE Read(r, TRUE, IF left.list = {} THEN "recompute" ELSE "reverseAllocation", left)

ReverseAllocation(r) ==
  /\ pc[r] = "reverseAllocation"
  /\ \E a \in tx[r].list :
       LET e == AllocationEntry(a)
           left == [tx[r] EXCEPT !.list = @ \ {a}]
       IN IF e \in Entries(r) /\ ReversalOf(e) \notin Entries(r)
          THEN Post(r, ReversalOf(e), "increment", left)
          ELSE Read(r, TRUE, IF left.list = {} THEN "recompute" ELSE "reverseAllocation", left)

ReverseReceipt(r) ==
  /\ pc[r] = "reverseReceipt"
  /\ \E e \in Entries(r) :
       /\ e.type = "RECEIPT"
       /\ e.receipt = input[r].receipt
       /\ IF ReversalOf(e) \in Entries(r)
          THEN Read(r, TRUE, "markReversed", tx[r])
          ELSE Post(r, ReversalOf(e), "markReversed", tx[r])

MarkReversed(r) ==
  /\ pc[r] = "markReversed"
  /\ Read(r, Standing(input[r].receipt), "closeReversal", tx[r])

(***************************************************************************)
(* RefundService.  Creation and decision are single statements after a     *)
(* read; payment is a transaction.                                         *)
(***************************************************************************)
ReadRefundable(r) ==
  LET rc == input[r].receipt IN
  /\ pc[r] = "readRefundable"
  /\ Read(r, Standing(rc) /\ RefundAmount[input[r].refund] <= unallocated[rc], "insertRefund", tx[r])

SetRefund(r, status) ==
  /\ refundStatus' = [refundStatus EXCEPT ![input[r].refund] = status]
  /\ Answer(r, "done")
  /\ UNCHANGED <<receiptStatus, receiptNumber, unallocated, allocations, paidAmount,
                 journals, receivable, deposits>>

InsertRefund(r) ==
  /\ pc[r] = "insertRefund"
  /\ SetRefund(r, "PENDING_APPROVAL")

ReadPending(r) ==
  /\ pc[r] = "readPending"
  /\ Read(r, refundStatus[input[r].refund] = "PENDING_APPROVAL", "decide", tx[r])

Decide(r) ==
  /\ pc[r] = "decide"
  /\ rowLock[input[r].refund] = NoRequest
  /\ SetRefund(r, IF input[r].kind = "APPROVE" THEN "APPROVED" ELSE "REJECTED")

(* Fault: the status is not read again before payment. *)
ReadApproved_AnyStatus(r) ==
  /\ pc[r] = "readApproved"
  /\ Read(r, RefundAmount[input[r].refund] <= unallocated[input[r].receipt],
          "refundDeposits", tx[r])

ReadApproved(r) ==
  LET f == input[r].refund IN
  /\ pc[r] = "readApproved"
  /\ Read(r, refundStatus[f] = "APPROVED" /\ RefundAmount[f] <= unallocated[input[r].receipt],
          "refundDeposits", tx[r])

(* Fault: an earlier refund of the receipt counts as this one. *)
CheckPosting_ByReceipt(r) ==
  /\ pc[r] = "checkPosting"
  /\ Read(r, TRUE,
          IF \E e \in Entries(r) : e.type = "REFUND" /\ e.receipt = input[r].receipt
          THEN "deduct" ELSE "refundBank", tx[r])

(* assertReceiptHasUnallocatedLiabilityPosting, then the search for an     *)
(* earlier posting of this refund.                                         *)
CheckPosting(r) ==
  LET f == input[r].refund
      rc == input[r].receipt
  IN /\ pc[r] = "checkPosting"
     /\ Read(r, \E e \in Entries(r) : /\ e.type = "RECEIPT"
                                      /\ e.receipt = rc
                                      /\ DepositLine(e) >= RefundAmount[f],
             IF RefundEntry(f) \in Entries(r) THEN "deduct" ELSE "refundBank", tx[r])

PostRefund(r) ==
  /\ pc[r] = "postRefund"
  /\ Post(r, RefundEntry(input[r].refund), "deduct", tx[r])

PayRefund(r) ==
  /\ pc[r] = "payRefund"
  /\ Update(r, input[r].refund, "commit")

(***************************************************************************)
(* Commit: the rows, the paid amounts, the entries with their lines, and   *)
(* the last values written to the receipt and the refund.                  *)
(***************************************************************************)
(* Fault: closing an allocation stores the status only. *)
PublishReceipt_StatusOnly(r) ==
  LET rc == input[r].receipt
      Close(status, left) == /\ receiptStatus' = [receiptStatus EXCEPT ![rc] = status]
                             /\ unallocated' = [unallocated EXCEPT ![rc] = left]
  IN CASE input[r].kind = "REVERSE" -> Close("REVERSED", 0)
       [] input[r].kind = "PAY" ->
            Close(receiptStatus[rc], unallocated[rc] - RefundAmount[input[r].refund])
       [] OTHER -> Close(StatusAt(rc, tx[r].allocated), unallocated[rc])

PublishReceipt(r) ==
  LET rc == input[r].receipt
      Close(status, left) == /\ receiptStatus' = [receiptStatus EXCEPT ![rc] = status]
                             /\ unallocated' = [unallocated EXCEPT ![rc] = left]
  IN CASE input[r].kind = "REVERSE" -> Close("REVERSED", 0)
       [] input[r].kind = "PAY" ->
            Close(receiptStatus[rc], unallocated[rc] - RefundAmount[input[r].refund])
       [] OTHER -> Close(StatusAt(rc, tx[r].allocated), Amount[rc] - tx[r].allocated)

PublishJournals(r) ==
  LET rc == input[r].receipt
      draft == tx[r].draft
  IN /\ journals' = journals \union draft
     /\ receivable' = [receivable EXCEPT ![rc] = @ + SumFunction([e \in draft |-> ReceivableLine(e)])]
     /\ deposits' = [deposits EXCEPT ![rc] = @ + SumFunction([e \in draft |-> DepositLine(e)])]

Commit(r) ==
  /\ pc[r] = "commit"
  /\ PublishReceipt(r)
  /\ PublishJournals(r)
  /\ receiptNumber' = [receiptNumber EXCEPT ![input[r].receipt] =
                         IF input[r].kind = "CREATE" THEN tx[r].number ELSE @]
  /\ allocations' = Visible(r)
  /\ paidAmount' = [i \in Invoices |->
                      IF i \in DOMAIN tx[r].paid THEN tx[r].paid[i] ELSE paidAmount[i]]
  /\ refundStatus' = [f \in Refunds |->
                        IF input[r].kind = "PAY" /\ f = input[r].refund THEN "PAID"
                                                                        ELSE refundStatus[f]]
  /\ Answer(r, "done")

Step(r) ==
  \/ NextNumber(r) \/ InsertReceipt(r)
  \/ ReadReceipt(r) \/ ReadInvoices(r) \/ ReadDeposit(r) \/ EnsureSystemAccount(r)
  \/ PostAllocation(r) \/ Recompute(r) \/ WriteInvoice(r) \/ UpdateReceipt(r)
  \/ PostReceipt(r)
  \/ ReadReversed(r) \/ ListRows(r) \/ DeleteRows(r) \/ ReverseAllocation(r)
  \/ ReverseReceipt(r) \/ MarkReversed(r)
  \/ ReadRefundable(r) \/ InsertRefund(r) \/ ReadPending(r) \/ Decide(r)
  \/ ReadApproved(r) \/ CheckPosting(r) \/ PostRefund(r) \/ PayRefund(r)
  \/ Commit(r)

(* A thrown error, a timeout, a deadlock victim, a crash of the server. *)
Abort(r) ==
  /\ pc[r] \in InTx \union Autocommit
  /\ Rollback(r)

(* Every request was answered: the server waits for work that never comes. *)
Quiescent ==
  /\ \A r \in Requests : pc[r] \in Finished
  /\ UNCHANGED vars

Next ==
  \/ \E r \in Requests : Submit(r) \/ Step(r) \/ Abort(r)
  \/ Quiescent

Spec == Init /\ [][Next]_vars

(* A request runs on unless it waits, and Prisma ends a transaction that   *)
(* waits too long (5 seconds by default): account rows are not locked in   *)
(* one order, so transactions do wait for each other.                      *)
TimedOut(r) ==
  /\ pc[r] \in InTx
  /\ ~ENABLED Step(r)
  /\ Rollback(r)
Fairness == \A r \in Requests : WF_vars(Step(r)) /\ WF_vars(TimedOut(r))

FairSpec == Spec /\ Fairness

-------------------------------------------------------------------------------
(* Every variable keeps its type. *)
TypeOK ==
  /\ receiptStatus \in [ReceiptIds -> {"ABSENT", "RECEIVED", "PARTIALLY_ALLOCATED",
                                       "ALLOCATED", "REVERSED"}]
  /\ receiptNumber \in [ReceiptIds -> Nat]
  /\ unallocated \in [ReceiptIds -> Int]
  /\ paidAmount \in [Invoices -> Nat]
  /\ refundStatus \in [Refunds -> {"ABSENT", "PENDING_APPROVAL", "APPROVED", "REJECTED", "PAID"}]
  /\ receivable \in [ReceiptIds -> Int]
  /\ deposits \in [ReceiptIds -> Int]
  /\ pc \in [Requests -> InTx \union Autocommit \union Finished \union {"idle"}]
  /\ rowLock \in [Rows -> Requests \union {NoRequest}]

(* An invoice's paid amount is what is allocated to it, whichever receipts *)
(* are allocated concurrently (recomputeInvoicePaymentStatus reads the     *)
(* rows and writes later; the lock on account 2300, or on account 1200     *)
(* after it, is what orders them, where one of the two is a system one).   *)
PaidIsAllocated ==
  \A i \in Invoices : paidAmount[i] = Applied(RowsFor(allocations, i))

(* A receipt is never allocated beyond its amount (allocateWithin-         *)
(* Transaction, "Payment allocations cannot exceed receipt amount.").      *)
AllocatedWithinReceipt ==
  \A rc \in ReceiptIds : Applied(RowsOf(allocations, rc)) <= Amount[rc]

(* An invoice is never allocated more than its balance due ("payment       *)
(* cannot exceed invoice total").                                          *)
AllocatedWithinInvoice ==
  \A i \in Invoices : Applied(RowsFor(allocations, i)) <= BalanceDue[i]

(* What a receipt took off the receivables is what is allocated of it: the *)
(* rows and the ledger agree (PaymentPostingService).                      *)
ReceivableIsAllocated ==
  \A rc \in ReceiptIds : receivable[rc] = Applied(RowsOf(allocations, rc))

(* A receipt's unallocatedAmount is the credit it has left on account      *)
(* 2300, Client Deposits and Unallocated Receipts.                         *)
UnallocatedIsDeposits ==
  \A rc \in ReceiptIds : unallocated[rc] = deposits[rc]

(* A reversed receipt leaves nothing behind: no allocation, no credit on   *)
(* receivables or deposits, nothing to refund (PaymentReversalService),    *)
(* and one whose posting was reversed stays reversed: "Reversed payment    *)
(* receipts cannot be allocated."                                          *)
ReversedIsUnposted ==
  /\ \A rc \in ReceiptIds :
       receiptStatus[rc] = "REVERSED" =>
         /\ RowsOf(allocations, rc) = {}
         /\ receivable[rc] = 0 /\ deposits[rc] = 0 /\ unallocated[rc] = 0
  /\ \A e \in journals : e.type = "RECEIPT_REVERSAL" => receiptStatus[e.receipt] = "REVERSED"

(* The refund's status and the bank agree: PAID exactly when posted.       *)
PaidRefundsArePosted ==
  \A f \in Refunds : (refundStatus[f] = "PAID") = (RefundEntry(f) \in journals)

(* A receipt's money is spent once: what is allocated and what is refunded *)
(* of it fit in its amount.                                                *)
SpentWithinReceipt ==
  \A rc \in ReceiptIds :
    Applied(RowsOf(allocations, rc))
      + Applied({e \in journals : e.type = "REFUND" /\ e.receipt = rc}) <= Amount[rc]

(* Money leaves the bank for a refund only once somebody approved it.      *)
OnlyApprovedRefundsArePaid ==
  [][\A f \in Refunds : refundStatus'[f] = "PAID" => refundStatus[f] \in {"APPROVED", "PAID"}]_vars

(* A decision is final: a refund that was decided is not decided again     *)
(* ("Only pending refunds can be rejected.").                              *)
DecisionsStand ==
  [][\A f \in Refunds : refundStatus[f] \in {"REJECTED", "PAID"} =>
        refundStatus'[f] = refundStatus[f]]_vars

(* Every request is answered, though transactions take the account rows in *)
(* different orders and wait for each other.                               *)
EveryRequestIsAnswered ==
  \A r \in Requests : pc[r] \in InTx \union Autocommit ~> pc[r] \in Finished
===============================================================================
