-------------------------------- MODULE Billing --------------------------------
(***************************************************************************)
(* The life of an invoice, as the routes of matters, billing and approvals *)
(* move it: items are billed, the draft is submitted, decided and posted   *)
(* to the ledger, paid, credited, settled from a retainer, or cancelled.   *)
(*                                                                         *)
(* Every handler reads its rows first and writes later.  Each read is an   *)
(* action, and so is each write made outside a transaction.  A transaction *)
(* that only writes, or that writes the row it goes on to read, is one     *)
(* action: waiting for a row orders two of them as two actions are         *)
(* ordered.                                                                *)
(***************************************************************************)
EXTENDS Integers, FiniteSetsExt, Functions

CONSTANTS
  TimeEntries, Expenses,   \* what can be billed
  Invoices, Approvals, CreditNotes,  \* ids of rows, existing or to be created
  Retainers, Users,
  Requests,
  Workloads,      \* the bodies the requests may carry: functions from Requests
  None,           \* a null column, an absent parameter
  Price,          \* what a set of items comes to, tax included
  RetainerAmount, \* Retainer.amount
  OpeningLines,   \* the lines of the invoices that exist at the start
  Issued,         \* which of those are issued and posted; the others are drafts
  Billable        \* time entries and expenses: the ones that are not voided yet

Items == TimeEntries \union Expenses

VARIABLES
  billedTo,    \* TimeEntry.invoiceId; isInvoiced is written with it
  voided,      \* time entries and expenses with status VOIDED
  invoice,     \* Invoice rows
  lines,       \* InvoiceLine.sourceId, by invoice
  approval,    \* Approval rows of invoices
  creditNote,  \* CreditNote rows
  retainer,    \* Retainer rows
  applied,     \* RetainerApplication rows
  postings,    \* journal entries that issue an invoice: its id, the amount debited to 1200
  pc, input, seen  \* where a request is, its body, what it has read

work == <<billedTo, voided, lines>>
funds == <<creditNote, retainer, applied>>
rows == <<work, invoice, approval, funds, postings>>
vars == <<rows, pc, input, seen>>

InvoiceStatus == {"ABSENT", "DRAFT", "PENDING_APPROVAL", "INVOICED", "PARTIALLY_PAID", "PAID",
                  "CANCELLED", "CREDITED"}
Number == {None} \union ({"MATTER", "BILLING"} \X Nat)
InvoiceRow == [status : InvoiceStatus, number : Number, total : Nat,
               balance : Int, paid : Int, credited : Nat]
NoteRow == [status : {"ABSENT", "ISSUED", "VOID"}, invoice : Invoices \union {None}, amount : Nat]
RetainerRow == [status : {"ABSENT", "ACTIVE", "PARTIALLY_APPLIED", "FULLY_APPLIED", "RELEASED"},
                unapplied : Int, applied : Nat]

Open == {"PENDING", "ESCALATED", "DELEGATED"}
ApprovalRow == [status : Open \union {"ABSENT", "APPROVED", "REJECTED"},
                invoice : Invoices \union {None},
                assigned : Users \union {None}, escalatedTo : Users \union {None},
                delegatedTo : Users \union {None}, approvedBy : Users \union {None}]

Decisions == {"APPROVE", "REJECT", "REQUEST_CHANGES", "WITHDRAW"}
Reroutes == {"ESCALATE", "DELEGATE", "REASSIGN"}
Kinds == {"RAISE", "BILL", "VOID", "CANCEL", "SUBMIT", "PAY", "CREDIT", "VOID_CREDIT",
          "APPLY", "RELEASE"} \union Decisions \union Reroutes
OfInvoice == {"RAISE", "BILL", "CANCEL", "SUBMIT", "PAY", "CREDIT", "APPLY"}
Body ==
  {body \in [kind : Kinds, invoice : Invoices \union {None}, items : SUBSET Items, amount : Nat,
             approval : Approvals \union {None}, user : Users \union {None},
             target : Users \union {None}, note : CreditNotes \union {None},
             retainer : Retainers \union {None},
             waits : BOOLEAN] :  \* sent when nobody else's request on its rows is open
     /\ body.kind \in OfInvoice => body.invoice \in Invoices
     /\ body.kind = "VOID" => \E x \in Items : body.items = {x}
     /\ body.kind \in Decisions \union Reroutes \union {"SUBMIT"} => body.approval \in Approvals
     /\ body.kind \in {"CREDIT", "VOID_CREDIT"} => body.note \in CreditNotes
     /\ body.kind \in {"APPLY", "RELEASE"} => body.retainer \in Retainers}

ASSUME ConstantsAssumption ==
  /\ Workloads \subseteq [Requests -> Body]
  /\ Workloads # {}
  /\ TimeEntries \intersect Expenses = {}
  /\ None \notin Invoices \union Users \union Approvals \union Retainers
  /\ Price \in [SUBSET Items -> Nat]
  /\ RetainerAmount \in [Retainers -> Nat]
  /\ OpeningLines \in [Invoices -> SUBSET Items]
  /\ Issued \subseteq Invoices
  /\ Billable \subseteq Items

(* Where the invoices that exist at the start have their lines from. *)
ASSUME OpeningAssumption ==
  /\ \A i, j \in Invoices : i # j => OpeningLines[i] \intersect OpeningLines[j] = {}
  /\ \A i \in Invoices : OpeningLines[i] \subseteq Billable

ASSUME FiniteInvoices == IsFiniteSet(Invoices)

-------------------------------------------------------------------------------
NewInvoice(number, items) ==
  [status |-> "DRAFT", number |-> number, total |-> Price[items], balance |-> Price[items],
   paid |-> 0, credited |-> 0]
Absent == [NewInvoice(None, {}) EXCEPT !.status = "ABSENT"]
NoApproval == [status |-> "ABSENT", invoice |-> None, assigned |-> None, escalatedTo |-> None,
               delegatedTo |-> None, approvedBy |-> None]
NoNote == [status |-> "ABSENT", invoice |-> None, amount |-> 0]

(* What one request has read so far. *)
Nothing == [items |-> {}, number |-> 0, invoice |-> Absent, approval |-> NoApproval,
            note |-> NoNote, retainer |-> [status |-> "ABSENT", unapplied |-> 0, applied |-> 0]]

Exists(i) == invoice[i].status # "ABSENT"
Opened == {i \in Invoices : OpeningLines[i] # {}}

Init ==
  /\ billedTo \in [TimeEntries -> {None} \union Opened]
  /\ \A e \in TimeEntries, i \in Opened : (billedTo[e] = i) = (e \in OpeningLines[i])
  /\ voided = Items \ Billable
  /\ \E f \in [Opened -> 1..Cardinality(Opened)] :
       /\ \A i, j \in Opened : f[i] = f[j] => i = j
       /\ invoice = [i \in Invoices |->
            IF i \notin Opened THEN Absent
            ELSE [NewInvoice(<<"MATTER", f[i]>>, OpeningLines[i])
                    EXCEPT !.status = IF i \in Issued THEN "INVOICED" ELSE @]]
  /\ lines = OpeningLines
  /\ approval = [p \in Approvals |-> NoApproval]
  /\ creditNote = [n \in CreditNotes |-> NoNote]
  /\ retainer = [t \in Retainers |->
                   [status |-> "ACTIVE", unapplied |-> RetainerAmount[t], applied |-> 0]]
  /\ applied = {}
  /\ postings = {[invoice |-> i, amount |-> invoice[i].balance] : i \in Opened \intersect Issued}
  /\ pc = [r \in Requests |-> "idle"]
  /\ input \in Workloads
  /\ seen = [r \in Requests |-> Nothing]

-------------------------------------------------------------------------------
(* Three routers, and the first statement of each of their handlers.       *)
MatterRoutes == [RAISE |-> "readItems", VOID |-> "readItem", CANCEL |-> "readUnpaid",
                 SUBMIT |-> "readDraft"]
BillingRoutes == [BILL |-> "count", PAY |-> "readBalance", CREDIT |-> "readCredited",
                  VOID_CREDIT |-> "readNote", APPLY |-> "readRetainer",
                  RELEASE |-> "readRelease"]
ApprovalRoutes == [kind \in Decisions \union Reroutes |-> "readApproval"]
FirstStep == [kind \in Kinds |->
                IF kind \in DOMAIN MatterRoutes THEN MatterRoutes[kind]
                ELSE IF kind \in DOMAIN BillingRoutes THEN BillingRoutes[kind]
                ELSE ApprovalRoutes[kind]]
Working ==
  {"readItems", "readLines", "count", "createInvoice", "insertInvoice", "lockEntries", "readItem",
   "readVoided", "void", "readUnpaid", "cancel", "readDraft", "submit", "readApproval", "decide",
   "reroute", "issue", "post", "unsubmit", "readBalance", "pay", "readCredited", "credit",
   "readNote", "readNoted", "voidCredit", "readRetainer", "readTarget", "apply", "readRelease",
   "release"}
Finished == {"done", "failed"}

(* A user who waits sends a request once the others on its rows are answered. *)
Touches(body) == body.items \union ({body.invoice, body.approval, body.retainer} \ {None})
Begin(r) ==
  /\ pc[r] = "idle"
  /\ \A q \in Requests :
       (input[q].waits /\ input[r].waits /\ pc[q] \in Working)
         => Touches(input[q]) \intersect Touches(input[r]) = {}
  /\ pc' = [pc EXCEPT ![r] = FirstStep[input[r].kind]]
  /\ UNCHANGED <<rows, input, seen>>

Goto(r, label) == pc' = [pc EXCEPT ![r] = label]
Finish(r, label) == Goto(r, label) /\ seen' = [seen EXCEPT ![r] = Nothing] /\ UNCHANGED input

(* A statement that only reads: on to the next with what it saw, or an error. *)
Read(r, ok, label, what) ==
  /\ UNCHANGED rows
  /\ IF ok THEN Goto(r, label) /\ seen' = [seen EXCEPT ![r] = what] /\ UNCHANGED input
           ELSE Finish(r, "failed")

(***************************************************************************)
(* POST /matters/:id/raise-invoice.  Entries on another invoice and        *)
(* expenses that any line names are dropped; the number counts the         *)
(* invoices there are, of the year.                                        *)
(***************************************************************************)
ReadItems(r) ==
  /\ pc[r] = "readItems"
  /\ Read(r, TRUE, "readLines",
          [seen[r] EXCEPT !.items = {x \in input[r].items \ voided :
                                       x \in TimeEntries => billedTo[x] = None}])

(* Fault: the guard against billing an expense twice is not there. *)
ReadLines_NoGuard(r) ==
  /\ pc[r] = "readLines"
  /\ Read(r, TRUE, "count", seen[r])

ReadLines(r) ==
  /\ pc[r] = "readLines"
  /\ Read(r, TRUE, "count",
          [seen[r] EXCEPT !.items = @ \ (Expenses \intersect UNION {lines[i] : i \in Invoices})])

(* The first route counts those of the current year, the form all there    *)
(* are; the invoices of the model are of one year.                         *)
CountInvoices(r) ==
  /\ pc[r] = "count"
  /\ Read(r, TRUE, IF input[r].kind = "RAISE" THEN "createInvoice" ELSE "insertInvoice",
          [seen[r] EXCEPT !.number = 1 + Cardinality({i \in Invoices : Exists(i)})])

(* invoice.create with its lines; invoiceNumber is @unique. *)
Insert(r, format, items) ==
  /\ ~Exists(input[r].invoice)
  /\ \A i \in Invoices : invoice[i].number # <<format, seen[r].number>>
  /\ invoice' = [invoice EXCEPT ![input[r].invoice] = NewInvoice(<<format, seen[r].number>>, items)]
  /\ lines' = [lines EXCEPT ![input[r].invoice] = items]
NumberTaken(r, format) == \E i \in Invoices : invoice[i].number = <<format, seen[r].number>>

LockEntries(items, i) ==
  billedTo' = [e \in TimeEntries |-> IF e \in items THEN i ELSE billedTo[e]]

CreateInvoice(r) ==
  /\ pc[r] = "createInvoice"
  /\ Insert(r, "MATTER", seen[r].items)
  /\ LockEntries(seen[r].items, input[r].invoice)
  /\ Finish(r, "done")
  /\ UNCHANGED <<voided, approval, funds, postings>>

RejectNumber(r) ==
  /\ \/ pc[r] = "createInvoice" /\ NumberTaken(r, "MATTER")
     \/ pc[r] = "insertInvoice" /\ NumberTaken(r, "BILLING")
  /\ Finish(r, "failed")
  /\ UNCHANGED rows

(***************************************************************************)
(* POST /billing/invoices: the lines come from the form, nothing is tested *)
(* and the entries are locked by a statement after the insert.             *)
(***************************************************************************)
InsertInvoice(r) ==
  /\ pc[r] = "insertInvoice"
  /\ Insert(r, "BILLING", input[r].items)
  /\ Goto(r, "lockEntries")
  /\ UNCHANGED <<billedTo, voided, approval, funds, postings, input, seen>>

LockBilled(r) ==
  /\ pc[r] = "lockEntries"
  /\ LockEntries(input[r].items, input[r].invoice)
  /\ Finish(r, "done")
  /\ UNCHANGED <<voided, invoice, lines, approval, funds, postings>>

(* PATCH .../void of a time entry, or of an expense and then its lines. *)
ReadItem(r) ==
  /\ pc[r] = "readItem"
  /\ \E x \in input[r].items :
       Read(r, x \notin voided /\ (x \in TimeEntries => billedTo[x] = None),
            IF x \in TimeEntries THEN "void" ELSE "readVoided", seen[r])

(* Fault: the lines of the invoices are not searched for the expense. *)
ReadVoided_NoGuard(r) ==
  /\ pc[r] = "readVoided"
  /\ Read(r, TRUE, "void", seen[r])

ReadVoided(r) ==
  /\ pc[r] = "readVoided"
  /\ Read(r, \A i \in Invoices : input[r].items \intersect lines[i] = {}, "void", seen[r])

Void(r) ==
  /\ pc[r] = "void"
  /\ voided' = voided \union input[r].items
  /\ Finish(r, "done")
  /\ UNCHANGED <<billedTo, invoice, lines, approval, funds, postings>>

(***************************************************************************)
(* POST .../cancel: the items are released by what points at the invoice.  *)
(***************************************************************************)
ReadUnpaid(r) ==
  /\ pc[r] = "readUnpaid"
  /\ LET row == invoice[input[r].invoice]
         paid == row.status \in {"PAID", "PARTIALLY_PAID"} \/ row.paid > 0
     IN IF ~paid /\ row.status = "CANCELLED" THEN Finish(r, "done") /\ UNCHANGED rows
        ELSE Read(r, ~paid /\ row.status # "ABSENT", "cancel", seen[r])

(* Fault: the entries are not released. *)
Cancel_KeepsEntries(r) ==
  LET i == input[r].invoice IN
  /\ pc[r] = "cancel"
  /\ lines' = [lines EXCEPT ![i] = {}]
  /\ invoice' = [invoice EXCEPT ![i] = [@ EXCEPT !.status = "CANCELLED", !.balance = 0]]
  /\ Finish(r, "done")
  /\ UNCHANGED <<billedTo, voided, approval, funds, postings>>

Cancel(r) ==
  LET i == input[r].invoice IN
  /\ pc[r] = "cancel"
  /\ billedTo' = [e \in TimeEntries |-> IF billedTo[e] = i THEN None ELSE billedTo[e]]
  /\ lines' = [lines EXCEPT ![i] = {}]
  /\ invoice' = [invoice EXCEPT ![i] = [@ EXCEPT !.status = "CANCELLED", !.balance = 0]]
  /\ Finish(r, "done")
  /\ UNCHANGED <<voided, approval, funds, postings>>

(***************************************************************************)
(* POST .../submit: an approval without an approver, and the invoice waits.*)
(***************************************************************************)
(* Fault: an invoice is submitted whatever its status. *)
ReadDraft_AnyStatus(r) ==
  /\ pc[r] = "readDraft"
  /\ Read(r, Exists(input[r].invoice), "submit", seen[r])

ReadDraft(r) ==
  /\ pc[r] = "readDraft"
  /\ Read(r, invoice[input[r].invoice].status = "DRAFT", "submit", seen[r])

SubmitInvoice(r) ==
  /\ pc[r] = "submit"
  /\ approval[input[r].approval].status = "ABSENT"  \* the row is created here
  /\ approval' = [approval EXCEPT ![input[r].approval] =
                    [NoApproval EXCEPT !.status = "PENDING", !.invoice = input[r].invoice]]
  /\ invoice' = [invoice EXCEPT ![input[r].invoice].status = "PENDING_APPROVAL"]
  /\ Finish(r, "done")
  /\ UNCHANGED <<work, funds, postings>>

(***************************************************************************)
(* ApprovalService: a decision, or handing the request to somebody else.   *)
(* The update names the row, whatever became of it since it was read.      *)
(***************************************************************************)
Addressees(row) == {row.assigned, row.escalatedTo, row.delegatedTo, row.approvedBy} \ {None}
HasAuthority(row, user) == Addressees(row) = {} \/ user \in Addressees(row)

(* Fault: nobody asks who decides. *)
ReadApproval_Anybody(r) ==
  LET row == approval[input[r].approval] IN
  /\ pc[r] = "readApproval"
  /\ Read(r, row.status \in Open, IF input[r].kind \in Decisions THEN "decide" ELSE "reroute",
          [seen[r] EXCEPT !.approval = row])

ReadApproval(r) ==
  LET body == input[r]
      row == approval[body.approval]
  IN /\ pc[r] = "readApproval"
     /\ Read(r, /\ row.status \in Open
                /\ body.kind # "ESCALATE" => HasAuthority(row, body.user)
                /\ body.kind \in {"ESCALATE", "REASSIGN"} => body.target # row.assigned
                /\ body.kind = "DELEGATE" => body.target # body.user,
             IF body.kind \in Decisions THEN "decide" ELSE "reroute",
             [seen[r] EXCEPT !.approval = row])

(* What is left to do after a decision on an invoice. *)
Hook(kind) == CASE kind = "APPROVE" -> "issue"
                [] kind = "REJECT"  -> "unsubmit"
                [] OTHER            -> "done"

(* Fault: each action leaves a status of its own. *)
Decide_OwnStatus(r) ==
  /\ pc[r] = "decide"
  /\ approval' = [approval EXCEPT ![input[r].approval].status = input[r].kind]
  /\ Finish(r, Hook(input[r].kind))
  /\ UNCHANGED <<work, invoice, funds, postings>>

Decide(r) ==
  LET approves == input[r].kind = "APPROVE" IN
  /\ pc[r] = "decide"
  /\ approval' = [approval EXCEPT
       ![input[r].approval].status = IF approves THEN "APPROVED" ELSE "REJECTED",
       ![input[r].approval].approvedBy = IF approves THEN input[r].user
                                                     ELSE seen[r].approval.approvedBy]
  /\ Finish(r, Hook(input[r].kind))
  /\ UNCHANGED <<work, invoice, funds, postings>>

Rerouted(row, kind, to) ==
  CASE kind = "ESCALATE" -> [row EXCEPT !.status = "ESCALATED", !.escalatedTo = to, !.assigned = to]
    [] kind = "DELEGATE" -> [row EXCEPT !.status = "DELEGATED", !.delegatedTo = to, !.assigned = to]
    [] kind = "REASSIGN" -> [row EXCEPT !.status = "PENDING", !.assigned = to]

Reroute(r) ==
  /\ pc[r] = "reroute"
  /\ approval' = [approval EXCEPT ![input[r].approval] =
                    Rerouted(@, input[r].kind, input[r].target)]
  /\ Finish(r, "done")
  /\ UNCHANGED <<work, invoice, funds, postings>>

(***************************************************************************)
(* The hooks of the approval controller.  Issuing moves the invoice if it  *)
(* is waiting and posts it in any case, unless it was posted before; the   *)
(* journal balances only while nothing was taken off the balance.          *)
(***************************************************************************)
Posted(i) == \E e \in postings : e.invoice = i

(* Fault: the lines of the journal are not summed up before it is written. *)
PostIssued_Unbalanced(i) ==
  IF Posted(i) THEN UNCHANGED postings
  ELSE postings' = postings \union {[invoice |-> i, amount |-> invoice[i].balance]}

(* postInvoiceIssued *)
PostIssued(i) ==
  IF Posted(i) THEN UNCHANGED postings
  ELSE /\ invoice[i].balance = invoice[i].total
       /\ postings' = postings \union {[invoice |-> i, amount |-> invoice[i].balance]}

Waits(r) == invoice[approval[input[r].approval].invoice].status = "PENDING_APPROVAL"

(* Fault: the invoice is updated first, the journal posted by a later statement. *)
IssueWaiting_TwoSteps(r) ==
  LET i == approval[input[r].approval].invoice IN
  /\ pc[r] = "issue"
  /\ Waits(r)
  /\ invoice' = [invoice EXCEPT ![i].status = "INVOICED"]
  /\ Goto(r, "post")
  /\ UNCHANGED <<work, approval, funds, postings, input, seen>>

IssueWaiting(r) ==
  LET i == approval[input[r].approval].invoice IN
  /\ pc[r] = "issue"
  /\ Waits(r)
  /\ invoice' = [invoice EXCEPT ![i].status = "INVOICED"]
  /\ PostIssued(i)
  /\ Finish(r, "done")
  /\ UNCHANGED <<work, approval, funds>>

IssueOther(r) ==
  /\ pc[r] = "issue"
  /\ ~Waits(r)
  /\ Read(r, TRUE, "post", seen[r])

PostOther(r) ==
  /\ pc[r] = "post"
  /\ PostIssued(approval[input[r].approval].invoice)
  /\ Finish(r, "done")
  /\ UNCHANGED <<work, invoice, approval, funds>>

(* A rejected invoice is a draft again; an error of this update is swallowed. *)
Unsubmit(r) ==
  LET i == approval[input[r].approval].invoice IN
  /\ pc[r] = "unsubmit"
  /\ \/ Waits(r) /\ invoice' = [invoice EXCEPT ![i].status = "DRAFT"]
     \/ UNCHANGED invoice
  /\ Finish(r, "done")
  /\ UNCHANGED <<work, approval, funds, postings>>

(***************************************************************************)
(* POST /billing/invoices/:id/payment: no row of its own, no journal, and  *)
(* the status the invoice had does not matter.                             *)
(***************************************************************************)
ReadBalance(r) ==
  /\ pc[r] = "readBalance"
  /\ Read(r, Exists(input[r].invoice), "pay", [seen[r] EXCEPT !.invoice = invoice[input[r].invoice]])

Pay(r) ==
  LET row == seen[r].invoice
      paid == row.paid + Min({input[r].amount, row.balance})
  IN /\ pc[r] = "pay"
     /\ invoice' = [invoice EXCEPT ![input[r].invoice] =
          [@ EXCEPT !.paid = paid, !.balance = Max({row.total - paid, 0}),
                    !.status = IF paid >= row.total THEN "PAID" ELSE "PARTIALLY_PAID"]]
     /\ Finish(r, "done")
     /\ UNCHANGED <<work, approval, funds, postings>>

(***************************************************************************)
(* CreditNoteService.  A note takes its amount off the balance and posts   *)
(* its journal in the same transaction; voiding it gives the amount back   *)
(* and posts nothing.                                                      *)
(***************************************************************************)
ReadCredited(r) ==
  LET row == invoice[input[r].invoice] IN
  /\ pc[r] = "readCredited"
  /\ Read(r, row.status \notin {"ABSENT", "CANCELLED"}, "credit", [seen[r] EXCEPT !.invoice = row])

Credit(r) ==
  LET i == input[r].invoice
      balance == Max({seen[r].invoice.balance - input[r].amount, 0})
  IN /\ pc[r] = "credit"
     /\ creditNote[input[r].note].status = "ABSENT"  \* the row is created here
     /\ creditNote' = [creditNote EXCEPT ![input[r].note] =
                         [status |-> "ISSUED", invoice |-> i, amount |-> input[r].amount]]
     /\ invoice' = [invoice EXCEPT ![i] =
          [@ EXCEPT !.credited = seen[r].invoice.credited + input[r].amount, !.balance = balance,
                    !.status = IF balance = 0 THEN "CREDITED" ELSE seen[r].invoice.status]]
     /\ Finish(r, "done")
     /\ UNCHANGED <<work, approval, retainer, applied, postings>>

(* Fault: a note that is void is voided again. *)
ReadNote_Again(r) ==
  LET row == creditNote[input[r].note] IN
  /\ pc[r] = "readNote"
  /\ Read(r, row.status # "ABSENT", "readNoted", [seen[r] EXCEPT !.note = row])

ReadNote(r) ==
  LET row == creditNote[input[r].note] IN
  /\ pc[r] = "readNote"
  /\ IF row.status = "VOID" THEN Finish(r, "done") /\ UNCHANGED rows
     ELSE Read(r, row.status = "ISSUED", "readNoted", [seen[r] EXCEPT !.note = row])

ReadNoted(r) ==
  /\ pc[r] = "readNoted"
  /\ Read(r, TRUE, "voidCredit", [seen[r] EXCEPT !.invoice = invoice[seen[r].note.invoice]])

VoidCredit(r) ==
  LET i == seen[r].note.invoice
      row == seen[r].invoice
      amount == seen[r].note.amount
  IN /\ pc[r] = "voidCredit"
     /\ invoice' = [invoice EXCEPT ![i] =
          [@ EXCEPT !.credited = Max({row.credited - amount, 0}), !.balance = row.balance + amount,
                    !.status = IF row.status = "CREDITED" THEN "PARTIALLY_PAID" ELSE row.status]]
     /\ creditNote' = [creditNote EXCEPT ![input[r].note].status = "VOID"]
     /\ Finish(r, "done")
     /\ UNCHANGED <<work, approval, retainer, applied, postings>>

(***************************************************************************)
(* RetainerService: both rows are read first, and what was read is written *)
(* back; a release changes the status alone.                               *)
(***************************************************************************)
ReadRetainer(r) ==
  LET row == retainer[input[r].retainer] IN
  /\ pc[r] = "readRetainer"
  /\ Read(r, row.status \in {"ACTIVE", "PARTIALLY_APPLIED"} /\ input[r].amount <= row.unapplied,
          "readTarget", [seen[r] EXCEPT !.retainer = row])

ReadTarget(r) ==
  LET row == invoice[input[r].invoice] IN
  /\ pc[r] = "readTarget"
  /\ Read(r, row.status \notin {"ABSENT", "CANCELLED"} /\ input[r].amount <= row.balance,
          "apply", [seen[r] EXCEPT !.invoice = row])

Apply(r) ==
  LET body == input[r]
      unapplied == seen[r].retainer.unapplied - body.amount
      balance == seen[r].invoice.balance - body.amount
  IN /\ pc[r] = "apply"
     /\ applied' = applied \union
          {[by |-> r, retainer |-> body.retainer, invoice |-> body.invoice, amount |-> body.amount]}
     /\ retainer' = [retainer EXCEPT ![body.retainer] =
          [status |-> IF unapplied = 0 THEN "FULLY_APPLIED" ELSE "PARTIALLY_APPLIED",
           unapplied |-> unapplied, applied |-> seen[r].retainer.applied + body.amount]]
     /\ invoice' = [invoice EXCEPT ![body.invoice] =
          [@ EXCEPT !.paid = seen[r].invoice.paid + body.amount, !.balance = balance,
                    !.status = IF balance = 0 THEN "PAID" ELSE "PARTIALLY_PAID"]]
     /\ Finish(r, "done")
     /\ UNCHANGED <<work, approval, creditNote, postings>>

ReadRelease(r) ==
  /\ pc[r] = "readRelease"
  /\ IF retainer[input[r].retainer].status = "RELEASED" THEN Finish(r, "done") /\ UNCHANGED rows
     ELSE Read(r, TRUE, "release", seen[r])

(* Fault: a release also empties the retainer. *)
Release_Emptied(r) ==
  /\ pc[r] = "release"
  /\ retainer' = [retainer EXCEPT ![input[r].retainer].status = "RELEASED",
                                  ![input[r].retainer].unapplied = 0]
  /\ Finish(r, "done")
  /\ UNCHANGED <<work, invoice, approval, creditNote, applied, postings>>

Release(r) ==
  /\ pc[r] = "release"
  /\ retainer' = [retainer EXCEPT ![input[r].retainer].status = "RELEASED"]
  /\ Finish(r, "done")
  /\ UNCHANGED <<work, invoice, approval, creditNote, applied, postings>>

-------------------------------------------------------------------------------
(* An error of the database, or the end of the process: the statement, or  *)
(* the transaction it is in, has no effect.                                *)
Abort(r) ==
  /\ pc[r] \in Working
  /\ Finish(r, "failed")
  /\ UNCHANGED rows

Step(r) ==
  \/ Begin(r)
  \/ ReadItems(r) \/ ReadLines(r) \/ CountInvoices(r) \/ CreateInvoice(r) \/ RejectNumber(r)
  \/ InsertInvoice(r) \/ LockBilled(r)
  \/ ReadItem(r) \/ ReadVoided(r) \/ Void(r)
  \/ ReadUnpaid(r) \/ Cancel(r)
  \/ ReadDraft(r) \/ SubmitInvoice(r)
  \/ ReadApproval(r) \/ Decide(r) \/ Reroute(r)
  \/ IssueWaiting(r) \/ IssueOther(r) \/ PostOther(r) \/ Unsubmit(r)
  \/ ReadBalance(r) \/ Pay(r)
  \/ ReadCredited(r) \/ Credit(r) \/ ReadNote(r) \/ ReadNoted(r) \/ VoidCredit(r)
  \/ ReadRetainer(r) \/ ReadTarget(r) \/ Apply(r) \/ ReadRelease(r) \/ Release(r)
  \/ Abort(r)

Quiescent ==
  /\ \A r \in Requests : pc[r] \in Finished
  /\ UNCHANGED vars

Next == (\E r \in Requests : Step(r)) \/ Quiescent
Spec == Init /\ [][Next]_vars

-------------------------------------------------------------------------------
(* The shapes of the rows, and of what a request remembers of them.        *)
SeenType == [items : SUBSET Items, number : Nat, invoice : InvoiceRow, approval : ApprovalRow,
             note : NoteRow, retainer : RetainerRow]
TypeOK ==
  /\ billedTo \in [TimeEntries -> Invoices \union {None}]
  /\ voided \subseteq Items
  /\ invoice \in [Invoices -> InvoiceRow]
  /\ lines \in [Invoices -> SUBSET Items]
  /\ approval \in [Approvals -> ApprovalRow]
  /\ creditNote \in [CreditNotes -> NoteRow]
  /\ retainer \in [Retainers -> RetainerRow]
  /\ applied \subseteq [by : Requests, retainer : Retainers, invoice : Invoices, amount : Nat]
  /\ postings \subseteq [invoice : Invoices, amount : Int]
  /\ pc \in [Requests -> {"idle"} \union Working \union Finished]
  /\ input \in [Requests -> Body]
  /\ seen \in [Requests -> SeenType]

(* An hour or an expense is charged to the client on one invoice at most;  *)
(* only isInvoiced and the search of the expense lines stand for it.       *)
BilledOnce ==
  \A i, j \in Invoices : i # j => lines[i] \intersect lines[j] = {}

(* An entry that is locked is a line of the invoice that holds it, so that *)
(* cancelling that invoice, and nothing else, frees it.                    *)
EntryIsOnItsInvoice ==
  \A e \in TimeEntries, i \in Invoices : billedTo[e] = i => e \in lines[i]

(* What was voided is not on an invoice: "cancel the invoice first".       *)
VoidedIsNotBilled == \A i \in Invoices : lines[i] \intersect voided = {}

(* An invoice becomes due only by an approval of it, and one that was      *)
(* handed to somebody is decided by one it was handed to.                  *)
IssuedWasApproved ==
  \A i \in Invoices \ Issued :
    invoice[i].status = "INVOICED" =>
      \E p \in Approvals :
        LET row == approval[p]
            handed == {row.assigned, row.escalatedTo, row.delegatedTo} \ {None}
        IN row.invoice = i /\ row.status = "APPROVED" /\ (handed = {} \/ row.approvedBy \in handed)

(* No invoice is due without a journal: the status and the posting are one *)
(* transaction, however often it was submitted, decided and credited.      *)
IssuedIsPosted == \A i \in Invoices : invoice[i].status = "INVOICED" => Posted(i)

(* The receivable of an invoice is posted from the balance, which payments *)
(* and credits move, and is nevertheless its total, once.                  *)
PostedInFull ==
  /\ \A e \in postings : e.amount = invoice[e.invoice].total
  /\ \A e, f \in postings : e.invoice = f.invoice => e = f

(* invoice-state-machine.ts: no payments, no allocations, no status        *)
(* changes once an invoice is cancelled.                                   *)
CancelledIsTerminal ==
  [][\A i \in Invoices :
       invoice[i].status = "CANCELLED" => invoice'[i].status = "CANCELLED"]_vars

Live == {i \in Invoices : invoice[i].status \notin {"ABSENT", "CANCELLED"}}

(* The balance three services compute, each in its own way, is what was    *)
(* neither paid nor credited, and an invoice is PAID or CREDITED exactly   *)
(* when nothing is left of it.                                             *)
BalanceIsWhatIsLeft ==
  \A i \in Live :
    /\ invoice[i].balance = invoice[i].total - invoice[i].paid - invoice[i].credited
    /\ invoice[i].balance >= 0
    /\ invoice[i].total > 0 =>
         ((invoice[i].status \in {"PAID", "CREDITED"}) = (invoice[i].balance = 0))

AppliedOf(S) == SumFunction([a \in S |-> a.amount])

(* A retainer is the sum of what was applied and what is left, and what was *)
(* applied to an invoice is part of what was paid on it.                   *)
RetainerAccounts ==
  /\ \A t \in Retainers :
       /\ retainer[t].applied = AppliedOf({a \in applied : a.retainer = t})
       /\ retainer[t].applied + retainer[t].unapplied = RetainerAmount[t]
  /\ \A i \in Invoices : AppliedOf({a \in applied : a.invoice = i}) <= invoice[i].paid
===============================================================================
