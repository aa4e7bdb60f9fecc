----------------------------- MODULE BillingProofs -----------------------------
(***************************************************************************)
(* Theorems about Billing, for any number of items, invoices, approvals,   *)
(* notes, retainers, users and requests, and whatever the bodies are.      *)
(***************************************************************************)
EXTENDS Billing, SetSumsTheorems, FiniteSetTheorems, TLAPS

(* A request runs the statements of the route its body was sent to. *)
PathOK ==
  /\ pc \in [Requests -> {"idle"} \union Working \union Finished]
  /\ input \in [Requests -> Body]
  /\ \A r \in Requests :
       /\ pc[r] \in {"readItems", "readLines", "createInvoice"} => input[r].kind = "RAISE"
       /\ pc[r] = "count" => input[r].kind \in {"RAISE", "BILL"}
       /\ pc[r] \in {"readItem", "readVoided", "void"} => input[r].kind = "VOID"
       /\ pc[r] \in {"insertInvoice", "lockEntries"} => input[r].kind = "BILL"
       /\ pc[r] \in {"readUnpaid", "cancel"} => input[r].kind = "CANCEL"
       /\ pc[r] \in {"readDraft", "submit"} => input[r].kind = "SUBMIT"
       /\ pc[r] = "readApproval" => input[r].kind \in Decisions \union Reroutes
       /\ pc[r] = "decide" => input[r].kind \in Decisions
       /\ pc[r] = "reroute" => input[r].kind \in Reroutes
       /\ pc[r] \in {"issue", "post", "unsubmit"} => input[r].kind \in Decisions
       /\ pc[r] \in {"readBalance", "pay"} => input[r].kind = "PAY"
       /\ pc[r] \in {"readCredited", "credit"} => input[r].kind = "CREDIT"
       /\ pc[r] \in {"readNote", "readNoted", "voidCredit"} => input[r].kind = "VOID_CREDIT"
       /\ pc[r] \in {"readRetainer", "readTarget", "apply"} => input[r].kind = "APPLY"
       /\ pc[r] \in {"readRelease", "release"} => input[r].kind = "RELEASE"

LEMMA FirstStepIs ==
  ASSUME NEW kind \in Kinds
  PROVE  /\ FirstStep[kind] \in Working
         /\ kind = "RAISE" => FirstStep[kind] = "readItems"
         /\ kind = "BILL" => FirstStep[kind] = "count"
         /\ kind = "VOID" => FirstStep[kind] = "readItem"
         /\ kind = "CANCEL" => FirstStep[kind] = "readUnpaid"
         /\ kind = "SUBMIT" => FirstStep[kind] = "readDraft"
         /\ kind = "PAY" => FirstStep[kind] = "readBalance"
         /\ kind = "CREDIT" => FirstStep[kind] = "readCredited"
         /\ kind = "VOID_CREDIT" => FirstStep[kind] = "readNote"
         /\ kind = "APPLY" => FirstStep[kind] = "readRetainer"
         /\ kind = "RELEASE" => FirstStep[kind] = "readRelease"
         /\ kind \in Decisions \union Reroutes => FirstStep[kind] = "readApproval"
BY DEF FirstStep, MatterRoutes, BillingRoutes, ApprovalRoutes, Working, Kinds, Decisions, Reroutes

LEMMA PathStep ==
  ASSUME PathOK, NEW r \in Requests, Step(r)
  PROVE  PathOK'
<1>1. CASE Begin(r)
  <2>. DEFINE kind == input[r].kind
  <2>1. kind \in Kinds /\ (kind \in {"RAISE", "BILL", "VOID", "CANCEL", "SUBMIT", "PAY", "CREDIT",
                                  "VOID_CREDIT", "APPLY", "RELEASE"}
                          \/ kind \in Decisions \union Reroutes)
    BY DEF PathOK, Body, Kinds
  <2>2. /\ FirstStep[kind] \in Working
        /\ pc' = [pc EXCEPT ![r] = FirstStep[kind]]
        /\ input' = input
    BY <1>1, <2>1, FirstStepIs DEF Begin
  <2>3. \/ FirstStep[kind] = "readItems" /\ kind = "RAISE"
        \/ FirstStep[kind] = "count" /\ kind = "BILL"
        \/ FirstStep[kind] = "readItem" /\ kind = "VOID"
        \/ FirstStep[kind] = "readUnpaid" /\ kind = "CANCEL"
        \/ FirstStep[kind] = "readDraft" /\ kind = "SUBMIT"
        \/ FirstStep[kind] = "readBalance" /\ kind = "PAY"
        \/ FirstStep[kind] = "readCredited" /\ kind = "CREDIT"
        \/ FirstStep[kind] = "readNote" /\ kind = "VOID_CREDIT"
        \/ FirstStep[kind] = "readRetainer" /\ kind = "APPLY"
        \/ FirstStep[kind] = "readRelease" /\ kind = "RELEASE"
        \/ FirstStep[kind] = "readApproval" /\ kind \in Decisions \union Reroutes
    BY <2>1, FirstStepIs
  <2>. HIDE DEF kind
  <2>4. input[r].kind = kind
    BY DEF kind
  <2>. QED  BY <2>2, <2>3, <2>4 DEF PathOK
<1>2. CASE ReadItems(r)
  BY <1>2 DEF PathOK, ReadItems, Read, Finish, Goto, Working, Finished
<1>3. CASE ReadLines(r)
  BY <1>3 DEF PathOK, ReadLines, Read, Finish, Goto, Working, Finished
<1>4. CASE CountInvoices(r)
  BY <1>4 DEF PathOK, CountInvoices, Read, Finish, Goto, Working, Finished
<1>5. CASE CreateInvoice(r)
  BY <1>5 DEF PathOK, CreateInvoice, Read, Finish, Goto, Working, Finished
<1>6. CASE RejectNumber(r)
  BY <1>6 DEF PathOK, RejectNumber, Read, Finish, Goto, Working, Finished
<1>7. CASE InsertInvoice(r)
  BY <1>7 DEF PathOK, InsertInvoice, Read, Finish, Goto, Working, Finished
<1>8. CASE LockBilled(r)
  BY <1>8 DEF PathOK, LockBilled, Read, Finish, Goto, Working, Finished
<1>9. CASE ReadItem(r)
  BY <1>9 DEF PathOK, ReadItem, Read, Finish, Goto, Working, Finished
<1>10. CASE ReadVoided(r)
  BY <1>10 DEF PathOK, ReadVoided, Read, Finish, Goto, Working, Finished
<1>11. CASE Void(r)
  BY <1>11 DEF PathOK, Void, Read, Finish, Goto, Working, Finished
<1>12. CASE ReadUnpaid(r)
  BY <1>12 DEF PathOK, ReadUnpaid, Read, Finish, Goto, Working, Finished
<1>13. CASE Cancel(r)
  BY <1>13 DEF PathOK, Cancel, Read, Finish, Goto, Working, Finished
<1>14. CASE ReadDraft(r)
  BY <1>14 DEF PathOK, ReadDraft, Read, Finish, Goto, Working, Finished
<1>15. CASE SubmitInvoice(r)
  BY <1>15 DEF PathOK, SubmitInvoice, Read, Finish, Goto, Working, Finished
<1>16. CASE ReadApproval(r)
  BY <1>16 DEF PathOK, ReadApproval, Read, Finish, Goto, Working, Finished
<1>17. CASE Decide(r)
  BY <1>17 DEF PathOK, Decide, Hook, Read, Finish, Goto, Working, Finished
<1>18. CASE Reroute(r)
  BY <1>18 DEF PathOK, Reroute, Read, Finish, Goto, Working, Finished
<1>19. CASE IssueWaiting(r)
  BY <1>19 DEF PathOK, IssueWaiting, Read, Finish, Goto, Working, Finished
<1>20. CASE IssueOther(r)
  BY <1>20 DEF PathOK, IssueOther, Read, Finish, Goto, Working, Finished
<1>21. CASE PostOther(r)
  BY <1>21 DEF PathOK, PostOther, Read, Finish, Goto, Working, Finished
<1>22. CASE Unsubmit(r)
  BY <1>22 DEF PathOK, Unsubmit, Read, Finish, Goto, Working, Finished
<1>23. CASE ReadBalance(r)
  BY <1>23 DEF PathOK, ReadBalance, Read, Finish, Goto, Working, Finished
<1>24. CASE Pay(r)
  BY <1>24 DEF PathOK, Pay, Read, Finish, Goto, Working, Finished
<1>25. CASE ReadCredited(r)
  BY <1>25 DEF PathOK, ReadCredited, Read, Finish, Goto, Working, Finished
<1>26. CASE Credit(r)
  BY <1>26 DEF PathOK, Credit, Read, Finish, Goto, Working, Finished
<1>27. CASE ReadNote(r)
  BY <1>27 DEF PathOK, ReadNote, Read, Finish, Goto, Working, Finished
<1>28. CASE ReadNoted(r)
  BY <1>28 DEF PathOK, ReadNoted, Read, Finish, Goto, Working, Finished
<1>29. CASE VoidCredit(r)
  BY <1>29 DEF PathOK, VoidCredit, Read, Finish, Goto, Working, Finished
<1>30. CASE ReadRetainer(r)
  BY <1>30 DEF PathOK, ReadRetainer, Read, Finish, Goto, Working, Finished
<1>31. CASE ReadTarget(r)
  BY <1>31 DEF PathOK, ReadTarget, Read, Finish, Goto, Working, Finished
<1>32. CASE Apply(r)
  BY <1>32 DEF PathOK, Apply, Read, Finish, Goto, Working, Finished
<1>33. CASE ReadRelease(r)
  BY <1>33 DEF PathOK, ReadRelease, Read, Finish, Goto, Working, Finished
<1>34. CASE Release(r)
  BY <1>34 DEF PathOK, Release, Read, Finish, Goto, Working, Finished
<1>35. CASE Abort(r)
  BY <1>35 DEF PathOK, Abort, Read, Finish, Goto, Working, Finished
<1>. QED  BY <1>1, <1>2, <1>3, <1>4, <1>5, <1>6, <1>7, <1>8, <1>9, <1>10, <1>11, <1>12, <1>13, <1>14, <1>15, <1>16, <1>17, <1>18, <1>19, <1>20, <1>21, <1>22, <1>23, <1>24, <1>25, <1>26, <1>27, <1>28, <1>29, <1>30, <1>31, <1>32, <1>33, <1>34, <1>35 DEF Step

-------------------------------------------------------------------------------
(* Type correctness.  A body names a row of each kind its route works on.  *)
LEMMA BodyNames ==
  ASSUME PathOK, NEW r \in Requests
  PROVE  /\ input[r].items \subseteq Items
         /\ input[r].amount \in Nat
         /\ input[r].invoice \in Invoices \union {None}
         /\ input[r].user \in Users \union {None}
         /\ input[r].target \in Users \union {None}
         /\ input[r].kind \in OfInvoice => input[r].invoice \in Invoices
         /\ input[r].kind \in Decisions \union Reroutes \union {"SUBMIT"}
              => input[r].approval \in Approvals
         /\ input[r].kind \in {"CREDIT", "VOID_CREDIT"} => input[r].note \in CreditNotes
         /\ input[r].kind \in {"APPLY", "RELEASE"} => input[r].retainer \in Retainers
BY DEF PathOK, Body

LEMMA RowTypes ==
  /\ \A items \in SUBSET Items, number \in Number :
       NewInvoice(number, items) \in InvoiceRow
  /\ Absent \in InvoiceRow
  /\ NoApproval \in ApprovalRow
  /\ NoNote \in NoteRow
  /\ Nothing \in SeenType
<1>1. \A items \in SUBSET Items, number \in Number :
        NewInvoice(number, items) \in InvoiceRow
  BY ConstantsAssumption DEF NewInvoice, InvoiceRow, InvoiceStatus
<1>2. NewInvoice(None, {}) \in InvoiceRow
  BY <1>1 DEF Number
<1>3. Absent \in InvoiceRow
  BY <1>2 DEF Absent, InvoiceRow, InvoiceStatus
<1>4. NoApproval \in ApprovalRow /\ NoNote \in NoteRow
  BY DEF NoApproval, NoNote, ApprovalRow, NoteRow, Open
<1>. QED  BY <1>1, <1>3, <1>4 DEF Nothing, SeenType, RetainerRow

Pcs == {"idle"} \union Working \union Finished

LEMMA FinishType ==
  ASSUME TypeOK, NEW r \in Requests, NEW label \in Pcs, Finish(r, label)
  PROVE  /\ pc' \in [Requests -> {"idle"} \union Working \union Finished]
         /\ input' \in [Requests -> Body]
         /\ seen' \in [Requests -> SeenType]
BY RowTypes DEF TypeOK, Finish, Goto, Pcs

LEMMA FrameType ==
  ASSUME TypeOK, UNCHANGED rows,
         pc' \in [Requests -> {"idle"} \union Working \union Finished],
         input' \in [Requests -> Body],
         seen' \in [Requests -> SeenType]
  PROVE  TypeOK'
BY DEF TypeOK, rows, work, funds

LEMMA ReadType ==
  ASSUME TypeOK, NEW r \in Requests, NEW ok, NEW label \in Pcs, NEW what \in SeenType,
         Read(r, ok, label, what)
  PROVE  TypeOK'
<1>1. CASE ok
  <2>1. pc' \in [Requests -> {"idle"} \union Working \union Finished] /\ input' \in [Requests -> Body]
        /\ seen' \in [Requests -> SeenType]
    BY <1>1 DEF Read, Goto, TypeOK, Pcs
  <2>. QED  BY <1>1, <2>1, FrameType DEF Read
<1>2. CASE ~ok
  <2>1. Finish(r, "failed") /\ UNCHANGED rows
    BY <1>2 DEF Read
  <2>. QED  BY <2>1, FinishType, FrameType DEF Pcs, Finished
<1>. QED  BY <1>1, <1>2

LEMMA Named ==
  ASSUME PathOK, NEW r \in Requests
  PROVE  /\ pc[r] \in {"createInvoice", "insertInvoice", "lockEntries", "readUnpaid", "cancel",
                       "readDraft", "submit", "readBalance", "pay", "readCredited", "credit",
                       "readRetainer", "readTarget", "apply"}
              => input[r].invoice \in Invoices
         /\ pc[r] \in {"readDraft", "submit", "readApproval", "decide", "reroute", "issue", "post", "unsubmit"}
              => input[r].approval \in Approvals
         /\ pc[r] \in {"readCredited", "credit", "readNote", "readNoted", "voidCredit"}
              => input[r].note \in CreditNotes
         /\ pc[r] \in {"readRetainer", "readTarget", "apply", "readRelease", "release"}
              => input[r].retainer \in Retainers
BY BodyNames DEF PathOK, OfInvoice

LEMMA TwoNumbers ==
  /\ \A a, b \in Int : Min({a, b}) \in Int
  /\ \A a \in Int : Max({a, 0}) \in Nat
<1>1. ASSUME NEW a \in Int, NEW b \in Int PROVE Min({a, b}) \in Int
  <2>1. \E x \in {a, b} : \A y \in {a, b} : x <= y
    OBVIOUS
  <2>. QED  BY <2>1 DEF Min
<1>2. ASSUME NEW a \in Int PROVE Max({a, 0}) \in Nat
  <2>1. \E x \in {a, 0} : \A y \in {a, 0} : x >= y
    OBVIOUS
  <2>2. Max({a, 0}) \in {a, 0} /\ \A y \in {a, 0} : Max({a, 0}) >= y
    BY <2>1 DEF Max
  <2>. QED  BY <2>2
<1>. QED  BY <1>1, <1>2

(* What a request is about to write exists, and so do the invoices of      *)
(* approvals, notes and journals.                                          *)
Known(i) == i \in Invoices /\ Exists(i)

SoundRows ==
  /\ \A p \in Approvals : approval[p].status # "ABSENT" => Known(approval[p].invoice)
  /\ \A n \in CreditNotes : creditNote[n].status # "ABSENT" => Known(creditNote[n].invoice)
  /\ \A e \in postings : Known(e.invoice)

Deciding == {"decide", "reroute", "issue", "post", "unsubmit"}
Writing == {"cancel", "submit", "pay", "credit", "apply"}
Voiding == {"readNoted", "voidCredit"}
Holds(r) ==
  /\ pc[r] \in Deciding => approval[input[r].approval].status # "ABSENT"
  /\ pc[r] \in Writing => Known(input[r].invoice)
  /\ pc[r] \in Voiding => /\ creditNote[input[r].note].status # "ABSENT"
                          /\ Known(seen[r].note.invoice)
  /\ pc[r] \in {"credit", "voidCredit"} => seen[r].invoice.status # "ABSENT"

Sound == SoundRows /\ \A r \in Requests : Holds(r)

LEMMA Updated ==
  ASSUME NEW row \in InvoiceRow, NEW status \in InvoiceStatus, NEW balance \in Int
  PROVE  /\ [row EXCEPT !.status = status, !.balance = balance] \in InvoiceRow
         /\ \A paid \in Int :
              [row EXCEPT !.paid = paid, !.balance = balance, !.status = status] \in InvoiceRow
         /\ \A credited \in Nat :
              [row EXCEPT !.credited = credited, !.balance = balance, !.status = status] \in InvoiceRow
BY DEF InvoiceRow

LEMMA UpdatedStatus ==
  ASSUME NEW row \in InvoiceRow, NEW status \in InvoiceStatus
  PROVE  [row EXCEPT !.status = status] \in InvoiceRow
BY DEF InvoiceRow

LEMMA Replaced ==
  ASSUME TypeOK, NEW i \in Invoices, NEW row \in InvoiceRow,
         invoice' = [invoice EXCEPT ![i] = row]
  PROVE  invoice' \in [Invoices -> InvoiceRow]
BY DEF TypeOK

LEMMA SeenTypes ==
  ASSUME NEW what \in SeenType
  PROVE  /\ \A S \in SUBSET Items : [what EXCEPT !.items = S] \in SeenType
         /\ \A n \in Nat : [what EXCEPT !.number = n] \in SeenType
         /\ \A row \in InvoiceRow : [what EXCEPT !.invoice = row] \in SeenType
         /\ \A row \in ApprovalRow : [what EXCEPT !.approval = row] \in SeenType
         /\ \A row \in NoteRow : [what EXCEPT !.note = row] \in SeenType
         /\ \A row \in RetainerRow : [what EXCEPT !.retainer = row] \in SeenType
BY DEF SeenType

LEMMA ReadsFrame ==
  ASSUME NEW r \in Requests,
         \/ ReadItems(r) \/ ReadLines(r) \/ CountInvoices(r) \/ ReadItem(r) \/ ReadVoided(r)
         \/ ReadUnpaid(r) \/ ReadDraft(r) \/ ReadApproval(r) \/ IssueOther(r) \/ ReadBalance(r)
         \/ ReadCredited(r) \/ ReadNote(r) \/ ReadNoted(r) \/ ReadRetainer(r) \/ ReadTarget(r)
         \/ ReadRelease(r)
  PROVE  UNCHANGED rows /\ UNCHANGED input
BY DEF ReadItems, ReadLines, CountInvoices, ReadItem, ReadVoided, ReadUnpaid, ReadDraft,
       ReadApproval, IssueOther, ReadBalance, ReadCredited, ReadNote, ReadNoted, ReadRetainer,
       ReadTarget, ReadRelease, Read, Finish

LEMMA ReadsType ==
  ASSUME TypeOK, PathOK, Sound, NEW r \in Requests,
         \/ ReadItems(r) \/ ReadLines(r) \/ CountInvoices(r) \/ ReadItem(r) \/ ReadVoided(r)
         \/ ReadUnpaid(r) \/ ReadDraft(r) \/ ReadApproval(r) \/ IssueOther(r) \/ ReadBalance(r)
         \/ ReadCredited(r) \/ ReadNote(r) \/ ReadNoted(r) \/ ReadRetainer(r) \/ ReadTarget(r)
         \/ ReadRelease(r)
  PROVE  TypeOK'
<1>. DEFINE what == seen[r]
<1>1. what \in SeenType
  BY DEF TypeOK
<1>2. Working \subseteq Pcs /\ Finished \subseteq Pcs
  BY DEF Pcs
<1>3. ASSUME Finish(r, "done") /\ UNCHANGED rows PROVE TypeOK'
  BY <1>3, <1>2, FinishType, FrameType DEF Finished
<1>10. CASE ReadItems(r)
  <2>1. [seen[r] EXCEPT !.items = {x \in input[r].items \ voided :
                                       x \in TimeEntries => billedTo[x] = None}] \in SeenType
    BY <1>1, <1>10, SeenTypes, BodyNames DEF ReadItems, TypeOK
  <2>2. "readLines" \in Pcs
    BY <1>2 DEF Working
  <2>. QED  BY <1>10, <2>1, <2>2, ReadType DEF ReadItems
<1>11. CASE ReadLines(r)
  <2>1. [seen[r] EXCEPT !.items = @ \ (Expenses \intersect UNION {lines[i] : i \in Invoices})] \in SeenType
    BY <1>1, <1>11, SeenTypes DEF ReadLines, SeenType
  <2>2. "count" \in Pcs
    BY <1>2 DEF Working
  <2>. QED  BY <1>11, <2>1, <2>2, ReadType DEF ReadLines
<1>12. CASE CountInvoices(r)
  <2>1. Cardinality({i \in Invoices : Exists(i)}) \in Nat
    BY FiniteInvoices, FS_Subset, FS_CardinalityType
  <2>2. [seen[r] EXCEPT !.number = 1 + Cardinality({i \in Invoices : Exists(i)})] \in SeenType
    BY <1>1, <2>1, SeenTypes
  <2>3. (IF input[r].kind = "RAISE" THEN "createInvoice" ELSE "insertInvoice") \in Pcs
    BY <1>2 DEF Working
  <2>. QED  BY <1>12, <2>2, <2>3, ReadType DEF CountInvoices
<1>13. CASE ReadItem(r)
  <2>1. PICK x \in input[r].items :
          Read(r, x \notin voided /\ (x \in TimeEntries => billedTo[x] = None),
               IF x \in TimeEntries THEN "void" ELSE "readVoided", seen[r])
    BY <1>13 DEF ReadItem
  <2>2. (IF x \in TimeEntries THEN "void" ELSE "readVoided") \in Pcs
    BY <1>2 DEF Working
  <2>. QED  BY <1>1, <2>1, <2>2, ReadType
<1>14. CASE ReadVoided(r)
  BY <1>1, <1>2, <1>14, ReadType DEF ReadVoided, Working
<1>15. CASE ReadUnpaid(r)
  BY <1>1, <1>2, <1>3, <1>15, ReadType DEF ReadUnpaid, Working
<1>16. CASE ReadDraft(r)
  BY <1>1, <1>2, <1>16, ReadType DEF ReadDraft, Working
<1>17. CASE ReadApproval(r)
  <2>1. [seen[r] EXCEPT !.approval = approval[input[r].approval]] \in SeenType
    BY <1>1, <1>17, Named, SeenTypes DEF ReadApproval, TypeOK
  <2>2. (IF input[r].kind \in Decisions THEN "decide" ELSE "reroute") \in Pcs
    BY <1>2 DEF Working
  <2>. QED  BY <1>17, <2>1, <2>2, ReadType DEF ReadApproval
<1>18. CASE IssueOther(r)
  BY <1>1, <1>2, <1>18, ReadType DEF IssueOther, Working
<1>19. CASE ReadBalance(r)
  <2>1. [seen[r] EXCEPT !.invoice = invoice[input[r].invoice]] \in SeenType
    BY <1>1, <1>19, Named, SeenTypes DEF ReadBalance, TypeOK
  <2>2. "pay" \in Pcs
    BY <1>2 DEF Working
  <2>. QED  BY <1>19, <2>1, <2>2, ReadType DEF ReadBalance
<1>20. CASE ReadCredited(r)
  <2>1. [seen[r] EXCEPT !.invoice = invoice[input[r].invoice]] \in SeenType
    BY <1>1, <1>20, Named, SeenTypes DEF ReadCredited, TypeOK
  <2>2. "credit" \in Pcs
    BY <1>2 DEF Working
  <2>. QED  BY <1>20, <2>1, <2>2, ReadType DEF ReadCredited
<1>21. CASE ReadNote(r)
  <2>1. [seen[r] EXCEPT !.note = creditNote[input[r].note]] \in SeenType
    BY <1>1, <1>21, Named, SeenTypes DEF ReadNote, TypeOK
  <2>2. "readNoted" \in Pcs
    BY <1>2 DEF Working
  <2>. QED  BY <1>21, <2>1, <2>2, ReadType, <1>3 DEF ReadNote
<1>22. CASE ReadNoted(r)
  <2>1. [seen[r] EXCEPT !.invoice = invoice[seen[r].note.invoice]] \in SeenType
    BY <1>1, <1>22, SeenTypes DEF ReadNoted, TypeOK, Sound, SoundRows, Holds, Deciding, Writing, Voiding, Known
  <2>2. "voidCredit" \in Pcs
    BY <1>2 DEF Working
  <2>. QED  BY <1>22, <2>1, <2>2, ReadType DEF ReadNoted
<1>23. CASE ReadRetainer(r)
  <2>1. [seen[r] EXCEPT !.retainer = retainer[input[r].retainer]] \in SeenType
    BY <1>1, <1>23, Named, SeenTypes DEF ReadRetainer, TypeOK
  <2>2. "readTarget" \in Pcs
    BY <1>2 DEF Working
  <2>. QED  BY <1>23, <2>1, <2>2, ReadType DEF ReadRetainer
<1>24. CASE ReadTarget(r)
  <2>1. [seen[r] EXCEPT !.invoice = invoice[input[r].invoice]] \in SeenType
    BY <1>1, <1>24, Named, SeenTypes DEF ReadTarget, TypeOK
  <2>2. "apply" \in Pcs
    BY <1>2 DEF Working
  <2>. QED  BY <1>24, <2>1, <2>2, ReadType DEF ReadTarget
<1>25. CASE ReadRelease(r)
  BY <1>1, <1>2, <1>3, <1>25, ReadType DEF ReadRelease, Working
<1>. QED  BY <1>10, <1>11, <1>12, <1>13, <1>14, <1>15, <1>16, <1>17, <1>18, <1>19, <1>20, <1>21, <1>22, <1>23, <1>24, <1>25

LEMMA WritesType ==
  ASSUME TypeOK, PathOK, Sound, NEW r \in Requests,
         \/ CreateInvoice(r) \/ RejectNumber(r) \/ InsertInvoice(r) \/ LockBilled(r) \/ Void(r)
         \/ Cancel(r) \/ SubmitInvoice(r) \/ Decide(r) \/ Reroute(r) \/ IssueWaiting(r)
         \/ PostOther(r) \/ Unsubmit(r) \/ Pay(r) \/ Credit(r) \/ VoidCredit(r) \/ Apply(r)
         \/ Release(r) \/ Abort(r)
  PROVE  TypeOK'
<1>1. seen[r] \in SeenType /\ input[r].items \subseteq Items /\ input[r].amount \in Nat
  BY BodyNames DEF TypeOK
<1>2. Working \subseteq Pcs /\ Finished \subseteq Pcs
  BY DEF Pcs
<1>3. ASSUME NEW label \in Pcs, Finish(r, label)
      PROVE  /\ pc' \in [Requests -> {"idle"} \union Working \union Finished]
             /\ input' \in [Requests -> Body]
             /\ seen' \in [Requests -> SeenType]
  BY <1>3, FinishType
<1>4. "done" \in Pcs /\ "failed" \in Pcs
  BY <1>2 DEF Finished
<1>10. CASE CreateInvoice(r)
  <2>1. Finish(r, "done")
    BY <1>10 DEF CreateInvoice
  <2>2. <<"MATTER", seen[r].number>> \in Number /\ seen[r].items \in SUBSET Items
    BY <1>1 DEF SeenType, Number
  <2>3. input[r].invoice \in Invoices
    BY <1>10, Named DEF CreateInvoice
  <2>4. NewInvoice(<<"MATTER", seen[r].number>>, seen[r].items) \in InvoiceRow
    BY <2>2, RowTypes
  <2>5. invoice' \in [Invoices -> InvoiceRow] /\ lines' \in [Invoices -> SUBSET Items]
    BY <1>10, <2>2, <2>3, <2>4 DEF CreateInvoice, Insert, TypeOK
  <2>6. billedTo' \in [TimeEntries -> Invoices \union {None}]
    BY <1>10, <2>3 DEF CreateInvoice, LockEntries, TypeOK
  <2>. QED  BY <1>10, <1>3, <1>4, <2>1, <2>2, <2>3, <2>4, <2>5, <2>6 DEF CreateInvoice, TypeOK, work, funds
<1>11. CASE RejectNumber(r)
  <2>1. Finish(r, "failed")
    BY <1>11 DEF RejectNumber
  <2>. QED  BY <1>11, <1>3, <1>4, <2>1 DEF RejectNumber, TypeOK, work, funds, rows
<1>12. CASE InsertInvoice(r)
  <2>1. pc' \in [Requests -> {"idle"} \union Working \union Finished] /\ UNCHANGED <<input, seen>>
    BY <1>12 DEF InsertInvoice, Goto, TypeOK, Working
  <2>2. <<"BILLING", seen[r].number>> \in Number
    BY <1>1 DEF SeenType, Number
  <2>3. input[r].invoice \in Invoices
    BY <1>12, Named DEF InsertInvoice
  <2>4. NewInvoice(<<"BILLING", seen[r].number>>, input[r].items) \in InvoiceRow
    BY <1>1, <2>2, RowTypes
  <2>5. invoice' \in [Invoices -> InvoiceRow] /\ lines' \in [Invoices -> SUBSET Items]
    BY <1>12, <1>1, <2>3, <2>4 DEF InsertInvoice, Insert, TypeOK
  <2>. QED  BY <1>12, <2>1, <2>5 DEF InsertInvoice, TypeOK, work, funds
<1>13. CASE LockBilled(r)
  <2>1. Finish(r, "done")
    BY <1>13 DEF LockBilled
  <2>2. billedTo' \in [TimeEntries -> Invoices \union {None}]
    BY <1>13, Named DEF LockBilled, LockEntries, TypeOK
  <2>. QED  BY <1>13, <1>3, <1>4, <2>1, <2>2 DEF LockBilled, TypeOK, work, funds
<1>14. CASE Void(r)
  <2>1. Finish(r, "done")
    BY <1>14 DEF Void
  <2>2. voided' \subseteq Items
    BY <1>14, <1>1 DEF Void, TypeOK
  <2>. QED  BY <1>14, <1>3, <1>4, <2>1, <2>2 DEF Void, TypeOK, work, funds
<1>15. CASE Cancel(r)
  <2>1. Finish(r, "done")
    BY <1>15 DEF Cancel
  <2>2. input[r].invoice \in Invoices
    BY <1>15, Named DEF Cancel
  <2>3. invoice' \in [Invoices -> InvoiceRow]
    <3>. DEFINE status == "CANCELLED"
                balance == 0
                row == [invoice[input[r].invoice] EXCEPT !.status = status, !.balance = balance]
    <3>1. status \in InvoiceStatus /\ balance \in Int /\ invoice[input[r].invoice] \in InvoiceRow
      BY <2>2 DEF InvoiceStatus, TypeOK
    <3>2. invoice' = [invoice EXCEPT ![input[r].invoice] = row]
      BY <1>15 DEF Cancel
    <3>3. row \in InvoiceRow
      <4>. HIDE DEF status, balance
      <4>. QED  BY <3>1, Updated
    <3>. HIDE DEF row
    <3>. QED  BY <2>2, <3>2, <3>3, Replaced
  <2>4. billedTo' \in [TimeEntries -> Invoices \union {None}] /\ lines' \in [Invoices -> SUBSET Items]
    BY <1>15, <2>2 DEF Cancel, TypeOK
  <2>. QED  BY <1>15, <1>3, <1>4, <2>1, <2>2, <2>3, <2>4 DEF Cancel, TypeOK, work, funds
<1>16. CASE SubmitInvoice(r)
  <2>1. Finish(r, "done")
    BY <1>16 DEF SubmitInvoice
  <2>2. input[r].invoice \in Invoices /\ input[r].approval \in Approvals
    BY <1>16, Named DEF SubmitInvoice
  <2>3. invoice' \in [Invoices -> InvoiceRow]
    BY <1>16, <2>2 DEF SubmitInvoice, TypeOK, InvoiceRow, InvoiceStatus
  <2>4. [NoApproval EXCEPT !.status = "PENDING", !.invoice = input[r].invoice] \in ApprovalRow
    BY <2>2, RowTypes DEF ApprovalRow, Open
  <2>5. approval' \in [Approvals -> ApprovalRow]
    BY <1>16, <2>2, <2>4 DEF SubmitInvoice, TypeOK
  <2>. QED  BY <1>16, <1>3, <1>4, <2>1, <2>2, <2>3, <2>4, <2>5 DEF SubmitInvoice, TypeOK, work, funds
<1>17. CASE Decide(r)
  <2>1. Finish(r, Hook(input[r].kind)) /\ Hook(input[r].kind) \in Pcs
    BY <1>17, <1>2, <1>4 DEF Decide, Hook, Working
  <2>2. input[r].approval \in Approvals /\ input[r].user \in Users \union {None}
    BY <1>17, Named, BodyNames DEF Decide
  <2>3. seen[r].approval.approvedBy \in Users \union {None}
    BY <1>1 DEF SeenType, ApprovalRow
  <2>4. approval' \in [Approvals -> ApprovalRow]
    BY <1>17, <2>2, <2>3, SMTT(30) DEF Decide, TypeOK, ApprovalRow
  <2>5. UNCHANGED <<work, invoice, funds, postings>>
    BY <1>17 DEF Decide
  <2>. QED  BY <1>3, <2>1, <2>4, <2>5 DEF TypeOK, work, funds
<1>18. CASE Reroute(r)
  <2>1. Finish(r, "done")
    BY <1>18 DEF Reroute
  <2>2. input[r].approval \in Approvals /\ input[r].target \in Users \union {None} /\ input[r].kind \in Reroutes
    BY <1>18, Named, BodyNames DEF Reroute, PathOK
  <2>3. Rerouted(approval[input[r].approval], input[r].kind, input[r].target) \in ApprovalRow
    <3>1. approval[input[r].approval] \in ApprovalRow
      BY <2>2 DEF TypeOK
    <3>2. input[r].kind \in {"ESCALATE", "DELEGATE", "REASSIGN"}
      BY <2>2 DEF Reroutes
    <3>4. CASE input[r].kind = "ESCALATE"
      BY <2>2, <3>1, <3>4 DEF Rerouted, ApprovalRow, Open
    <3>5. CASE input[r].kind = "DELEGATE"
      BY <2>2, <3>1, <3>5 DEF Rerouted, ApprovalRow, Open
    <3>6. CASE input[r].kind = "REASSIGN"
      BY <2>2, <3>1, <3>6 DEF Rerouted, ApprovalRow, Open
    <3>. QED  BY <3>2, <3>4, <3>5, <3>6
  <2>4. approval' \in [Approvals -> ApprovalRow]
    BY <1>18, <2>2, <2>3 DEF Reroute, TypeOK
  <2>. QED  BY <1>18, <1>3, <1>4, <2>1, <2>2, <2>3, <2>4 DEF Reroute, TypeOK, work, funds
<1>19. CASE IssueWaiting(r)
  <2>1. Finish(r, "done")
    BY <1>19 DEF IssueWaiting
  <2>2. approval[input[r].approval].invoice \in Invoices
    BY <1>19, Named DEF IssueWaiting, Sound, SoundRows, Holds, Deciding, Writing, Voiding, Known
  <2>3. invoice' \in [Invoices -> InvoiceRow]
    <3>. DEFINE status == "INVOICED"
                i == approval[input[r].approval].invoice
                row == [invoice[i] EXCEPT !.status = status]
    <3>1. status \in InvoiceStatus /\ invoice[i] \in InvoiceRow
      BY <2>2 DEF InvoiceStatus, TypeOK
    <3>2. invoice' = [invoice EXCEPT ![i] = row]
      BY <1>19 DEF IssueWaiting
    <3>3. row \in InvoiceRow
      <4>. HIDE DEF status, i
      <4>. QED  BY <3>1, UpdatedStatus
    <3>. HIDE DEF row
    <3>. QED  BY <2>2, <3>2, <3>3, Replaced
  <2>4. postings' \subseteq [invoice : Invoices, amount : Int]
    <3>1. invoice[approval[input[r].approval].invoice].balance \in Int
      BY <2>2 DEF TypeOK, InvoiceRow
    <3>2. PostIssued(approval[input[r].approval].invoice)
      BY <1>19 DEF IssueWaiting
    <3>. QED  BY <2>2, <3>1, <3>2 DEF PostIssued, TypeOK
  <2>. QED  BY <1>19, <1>3, <1>4, <2>1, <2>2, <2>3, <2>4 DEF IssueWaiting, TypeOK, work, funds
<1>20. CASE PostOther(r)
  <2>1. Finish(r, "done")
    BY <1>20 DEF PostOther
  <2>2. approval[input[r].approval].invoice \in Invoices
    BY <1>20, Named DEF PostOther, Sound, SoundRows, Holds, Deciding, Writing, Voiding, Known
  <2>3. postings' \subseteq [invoice : Invoices, amount : Int]
    <3>1. invoice[approval[input[r].approval].invoice].balance \in Int
      BY <2>2 DEF TypeOK, InvoiceRow
    <3>2. PostIssued(approval[input[r].approval].invoice)
      BY <1>20 DEF PostOther
    <3>. QED  BY <2>2, <3>1, <3>2 DEF PostIssued, TypeOK
  <2>. QED  BY <1>20, <1>3, <1>4, <2>1, <2>2, <2>3 DEF PostOther, TypeOK, work, funds
<1>21. CASE Unsubmit(r)
  <2>1. Finish(r, "done")
    BY <1>21 DEF Unsubmit
  <2>2. approval[input[r].approval].invoice \in Invoices
    BY <1>21, Named DEF Unsubmit, Sound, SoundRows, Holds, Deciding, Writing, Voiding, Known
  <2>3. invoice' \in [Invoices -> InvoiceRow]
    BY <1>21, <2>2 DEF Unsubmit, TypeOK, InvoiceRow, InvoiceStatus
  <2>. QED  BY <1>21, <1>3, <1>4, <2>1, <2>2, <2>3 DEF Unsubmit, TypeOK, work, funds
<1>22. CASE Pay(r)
  <2>1. Finish(r, "done")
    BY <1>22 DEF Pay
  <2>2. input[r].invoice \in Invoices
    BY <1>22, Named DEF Pay
  <2>3. seen[r].invoice \in InvoiceRow
    BY <1>1 DEF SeenType
  <2>4. seen[r].invoice.paid + Min({input[r].amount, seen[r].invoice.balance}) \in Int
    BY <1>1, <2>3, TwoNumbers DEF InvoiceRow
  <2>5. Max({seen[r].invoice.total - (seen[r].invoice.paid + Min({input[r].amount, seen[r].invoice.balance})), 0}) \in Nat
    <3>1. seen[r].invoice.total - (seen[r].invoice.paid + Min({input[r].amount, seen[r].invoice.balance})) \in Int
      BY <2>3, <2>4 DEF InvoiceRow
    <3>. QED  BY <3>1, TwoNumbers
  <2>6. invoice' \in [Invoices -> InvoiceRow]
    <3>. DEFINE status == IF seen[r].invoice.paid + Min({input[r].amount, seen[r].invoice.balance})
                               >= seen[r].invoice.total THEN "PAID" ELSE "PARTIALLY_PAID"
                paid == seen[r].invoice.paid + Min({input[r].amount, seen[r].invoice.balance})
                balance == Max({seen[r].invoice.total - paid, 0})
                row == [invoice[input[r].invoice] EXCEPT !.paid = paid, !.balance = balance,
                                                         !.status = status]
    <3>1. status \in InvoiceStatus /\ invoice[input[r].invoice] \in InvoiceRow
      BY <2>2 DEF InvoiceStatus, TypeOK
    <3>2. paid \in Int /\ balance \in Int
      BY <2>4, <2>5
    <3>3. invoice' = [invoice EXCEPT ![input[r].invoice] = row]
      BY <1>22 DEF Pay
    <3>4. row \in InvoiceRow
      <4>. HIDE DEF status, paid, balance
      <4>. QED  BY <3>1, <3>2, Updated
    <3>. HIDE DEF row
    <3>. QED  BY <2>2, <3>3, <3>4, Replaced
  <2>. QED  BY <1>22, <1>3, <1>4, <2>1, <2>2, <2>3, <2>4, <2>5, <2>6 DEF Pay, TypeOK, work, funds
<1>23. CASE Credit(r)
  <2>1. Finish(r, "done")
    BY <1>23 DEF Credit
  <2>2. input[r].invoice \in Invoices /\ input[r].note \in CreditNotes
    BY <1>23, Named DEF Credit
  <2>3. seen[r].invoice \in InvoiceRow
    BY <1>1 DEF SeenType
  <2>4. Max({seen[r].invoice.balance - input[r].amount, 0}) \in Nat
    <3>1. seen[r].invoice.balance - input[r].amount \in Int
      BY <1>1, <2>3 DEF InvoiceRow
    <3>. QED  BY <3>1, TwoNumbers
  <2>5. invoice' \in [Invoices -> InvoiceRow]
    <3>1. seen[r].invoice.credited + input[r].amount \in Nat /\ seen[r].invoice.status \in InvoiceStatus
      BY <1>1, <2>3 DEF InvoiceRow
    <3>. DEFINE balance == Max({seen[r].invoice.balance - input[r].amount, 0})
                status == IF balance = 0 THEN "CREDITED" ELSE seen[r].invoice.status
                credited == seen[r].invoice.credited + input[r].amount
                row == [invoice[input[r].invoice] EXCEPT !.credited = credited, !.balance = balance,
                                                         !.status = status]
    <3>2. status \in InvoiceStatus /\ invoice[input[r].invoice] \in InvoiceRow
      BY <2>2, <3>1 DEF InvoiceStatus, TypeOK
    <3>3. credited \in Nat /\ balance \in Int
      BY <2>4, <3>1
    <3>4. invoice' = [invoice EXCEPT ![input[r].invoice] = row]
      BY <1>23 DEF Credit
    <3>5. row \in InvoiceRow
      <4>. HIDE DEF status, credited, balance
      <4>. QED  BY <3>2, <3>3, Updated
    <3>. HIDE DEF row
    <3>. QED  BY <2>2, <3>4, <3>5, Replaced
  <2>6. creditNote' \in [CreditNotes -> NoteRow]
    BY <1>23, <1>1, <2>2 DEF Credit, TypeOK, NoteRow
  <2>. QED  BY <1>23, <1>3, <1>4, <2>1, <2>2, <2>3, <2>4, <2>5, <2>6 DEF Credit, TypeOK, work, funds
<1>24. CASE VoidCredit(r)
  <2>1. Finish(r, "done")
    BY <1>24 DEF VoidCredit
  <2>2. seen[r].note.invoice \in Invoices /\ input[r].note \in CreditNotes
    BY <1>24, Named DEF VoidCredit, Sound, SoundRows, Holds, Deciding, Writing, Voiding, Known
  <2>3. seen[r].invoice \in InvoiceRow
    BY <1>1 DEF SeenType
  <2>4. seen[r].note.amount \in Nat
    BY <1>1 DEF SeenType, NoteRow
  <2>5. Max({seen[r].invoice.credited - seen[r].note.amount, 0}) \in Nat
    BY <2>3, <2>4, TwoNumbers DEF InvoiceRow
  <2>6. invoice' \in [Invoices -> InvoiceRow]
    <3>1. seen[r].invoice.balance + seen[r].note.amount \in Int /\ seen[r].invoice.status \in InvoiceStatus
      BY <2>3, <2>4 DEF InvoiceRow
    <3>. DEFINE balance == seen[r].invoice.balance + seen[r].note.amount
                status == IF seen[r].invoice.status = "CREDITED" THEN "PARTIALLY_PAID"
                                                                 ELSE seen[r].invoice.status
                credited == Max({seen[r].invoice.credited - seen[r].note.amount, 0})
                row == [invoice[seen[r].note.invoice] EXCEPT !.credited = credited,
                                                  !.balance = balance, !.status = status]
    <3>2. status \in InvoiceStatus /\ invoice[seen[r].note.invoice] \in InvoiceRow
      BY <2>2, <3>1 DEF InvoiceStatus, TypeOK
    <3>3. credited \in Nat /\ balance \in Int
      BY <2>5, <3>1
    <3>4. invoice' = [invoice EXCEPT ![seen[r].note.invoice] = row]
      BY <1>24 DEF VoidCredit
    <3>5. row \in InvoiceRow
      <4>. HIDE DEF status, credited, balance
      <4>. QED  BY <3>2, <3>3, Updated
    <3>. HIDE DEF row
    <3>. QED  BY <2>2, <3>4, <3>5, Replaced
  <2>7. creditNote' \in [CreditNotes -> NoteRow]
    BY <1>24, <2>2 DEF VoidCredit, TypeOK, NoteRow
  <2>. QED  BY <1>24, <1>3, <1>4, <2>1, <2>2, <2>3, <2>4, <2>5, <2>6, <2>7 DEF VoidCredit, TypeOK, work, funds
<1>25. CASE Apply(r)
  <2>1. Finish(r, "done")
    BY <1>25 DEF Apply
  <2>2. input[r].invoice \in Invoices /\ input[r].retainer \in Retainers
    BY <1>25, Named DEF Apply
  <2>3. seen[r].invoice \in InvoiceRow
    BY <1>1 DEF SeenType
  <2>4. seen[r].retainer \in RetainerRow
    BY <1>1 DEF SeenType
  <2>5. invoice' \in [Invoices -> InvoiceRow]
    <3>1. seen[r].invoice.balance - input[r].amount \in Int /\ seen[r].invoice.paid + input[r].amount \in Int
      BY <1>1, <2>3 DEF InvoiceRow
    <3>. DEFINE balance == seen[r].invoice.balance - input[r].amount
                status == IF balance = 0 THEN "PAID" ELSE "PARTIALLY_PAID"
                paid == seen[r].invoice.paid + input[r].amount
                row == [invoice[input[r].invoice] EXCEPT !.paid = paid, !.balance = balance,
                                                         !.status = status]
    <3>2. status \in InvoiceStatus /\ invoice[input[r].invoice] \in InvoiceRow
      BY <2>2 DEF InvoiceStatus, TypeOK
    <3>3. paid \in Int /\ balance \in Int
      BY <3>1
    <3>4. invoice' = [invoice EXCEPT ![input[r].invoice] = row]
      BY <1>25 DEF Apply
    <3>5. row \in InvoiceRow
      <4>. HIDE DEF status, paid, balance
      <4>. QED  BY <3>2, <3>3, Updated
    <3>. HIDE DEF row
    <3>. QED  BY <2>2, <3>4, <3>5, Replaced
  <2>6. retainer' \in [Retainers -> RetainerRow]
    BY <1>25, <1>1, <2>2, <2>4 DEF Apply, TypeOK, RetainerRow
  <2>7. applied' \subseteq [by : Requests, retainer : Retainers, invoice : Invoices, amount : Nat]
    BY <1>25, <1>1, <2>2 DEF Apply, TypeOK
  <2>. QED  BY <1>25, <1>3, <1>4, <2>1, <2>2, <2>3, <2>4, <2>5, <2>6, <2>7 DEF Apply, TypeOK, work, funds
<1>26. CASE Release(r)
  <2>1. Finish(r, "done")
    BY <1>26 DEF Release
  <2>2. retainer' \in [Retainers -> RetainerRow]
    BY <1>26, Named DEF Release, TypeOK, RetainerRow
  <2>. QED  BY <1>26, <1>3, <1>4, <2>1, <2>2 DEF Release, TypeOK, work, funds
<1>27. CASE Abort(r)
  <2>1. Finish(r, "failed")
    BY <1>27 DEF Abort
  <2>. QED  BY <1>27, <1>3, <1>4, <2>1 DEF Abort, TypeOK, work, funds, rows
<1>. QED  BY <1>10, <1>11, <1>12, <1>13, <1>14, <1>15, <1>16, <1>17, <1>18, <1>19, <1>20, <1>21, <1>22, <1>23, <1>24, <1>25, <1>26, <1>27

LEMMA TypeStep ==
  ASSUME TypeOK, PathOK, Sound, NEW r \in Requests, Step(r)
  PROVE  TypeOK'
<1>1. CASE Begin(r)
  <2>1. PathOK' /\ UNCHANGED <<rows, input, seen>>
    BY <1>1, PathStep DEF Begin
  <2>. QED  BY <2>1, FrameType DEF PathOK, TypeOK
<1>. QED  BY <1>1, ReadsType, WritesType DEF Step

-------------------------------------------------------------------------------
(* Which steps write which rows, and lead to a statement that writes.      *)
LEMMA Changes ==
  ASSUME TypeOK, PathOK, NEW r \in Requests, Step(r)
  PROVE  /\ \/ UNCHANGED invoice
            \/ CreateInvoice(r) \/ InsertInvoice(r) \/ Cancel(r) \/ SubmitInvoice(r) \/ IssueWaiting(r)
            \/ Unsubmit(r) \/ Pay(r) \/ Credit(r) \/ VoidCredit(r) \/ Apply(r)
         /\ UNCHANGED approval \/ SubmitInvoice(r) \/ Decide(r) \/ Reroute(r)
         /\ UNCHANGED creditNote \/ Credit(r) \/ VoidCredit(r)
         /\ UNCHANGED postings \/ IssueWaiting(r) \/ PostOther(r)
         /\ UNCHANGED input
         /\ \A q \in Requests \ {r} : pc'[q] = pc[q] /\ seen'[q] = seen[q]
         /\ \/ pc'[r] \notin Deciding \union Writing \union Voiding
            \/ ReadUnpaid(r) \/ ReadDraft(r) \/ ReadApproval(r) \/ Decide(r) \/ IssueOther(r)
            \/ ReadBalance(r) \/ ReadCredited(r) \/ ReadNote(r) \/ ReadNoted(r) \/ ReadTarget(r)
<1>1. CASE Begin(r)
  <2>1. input[r].kind \in Kinds
    BY DEF PathOK, Body
  <2>2. FirstStep[input[r].kind] \notin Deciding \union Writing \union Voiding
    BY <2>1, FirstStepIs, ZenonT(60) DEF Kinds, Deciding, Writing, Voiding
  <2>3. pc' = [pc EXCEPT ![r] = FirstStep[input[r].kind]] /\ UNCHANGED <<rows, input, seen>>
    BY <1>1 DEF Begin
  <2>. QED  BY <2>2, <2>3 DEF rows, work, funds, TypeOK
<1>2. CASE ReadItems(r)
  BY <1>2 DEF ReadItems, Read, Finish, Goto, rows, work, funds, TypeOK, Deciding, Writing, Voiding
<1>3. CASE ReadLines(r)
  BY <1>3 DEF ReadLines, Read, Finish, Goto, rows, work, funds, TypeOK, Deciding, Writing, Voiding
<1>4. CASE CountInvoices(r)
  BY <1>4 DEF CountInvoices, Read, Finish, Goto, rows, work, funds, TypeOK, Deciding, Writing, Voiding
<1>5. CASE CreateInvoice(r)
  BY <1>5 DEF CreateInvoice, Read, Finish, Goto, rows, work, funds, TypeOK, Deciding, Writing, Voiding
<1>6. CASE RejectNumber(r)
  BY <1>6 DEF RejectNumber, Read, Finish, Goto, rows, work, funds, TypeOK, Deciding, Writing, Voiding
<1>7. CASE InsertInvoice(r)
  BY <1>7 DEF InsertInvoice, Read, Finish, Goto, rows, work, funds, TypeOK, Deciding, Writing, Voiding
<1>8. CASE LockBilled(r)
  BY <1>8 DEF LockBilled, Read, Finish, Goto, rows, work, funds, TypeOK, Deciding, Writing, Voiding
<1>9. CASE ReadItem(r)
  BY <1>9 DEF ReadItem, Read, Finish, Goto, rows, work, funds, TypeOK, Deciding, Writing, Voiding
<1>10. CASE ReadVoided(r)
  BY <1>10 DEF ReadVoided, Read, Finish, Goto, rows, work, funds, TypeOK, Deciding, Writing, Voiding
<1>11. CASE Void(r)
  BY <1>11 DEF Void, Read, Finish, Goto, rows, work, funds, TypeOK, Deciding, Writing, Voiding
<1>12. CASE ReadUnpaid(r)
  BY <1>12 DEF ReadUnpaid, Read, Finish, Goto, rows, work, funds, TypeOK, Deciding, Writing, Voiding
<1>13. CASE Cancel(r)
  BY <1>13 DEF Cancel, Read, Finish, Goto, rows, work, funds, TypeOK, Deciding, Writing, Voiding
<1>14. CASE ReadDraft(r)
  BY <1>14 DEF ReadDraft, Read, Finish, Goto, rows, work, funds, TypeOK, Deciding, Writing, Voiding
<1>15. CASE SubmitInvoice(r)
  BY <1>15 DEF SubmitInvoice, Read, Finish, Goto, rows, work, funds, TypeOK, Deciding, Writing, Voiding
<1>16. CASE ReadApproval(r)
  BY <1>16 DEF ReadApproval, Read, Finish, Goto, rows, work, funds, TypeOK, Deciding, Writing, Voiding
<1>17. CASE Decide(r)
  BY <1>17 DEF Decide, Hook, Read, Finish, Goto, rows, work, funds, TypeOK, Deciding, Writing, Voiding
<1>18. CASE Reroute(r)
  BY <1>18 DEF Reroute, Read, Finish, Goto, rows, work, funds, TypeOK, Deciding, Writing, Voiding
<1>19. CASE IssueWaiting(r)
  BY <1>19 DEF IssueWaiting, Read, Finish, Goto, rows, work, funds, TypeOK, Deciding, Writing, Voiding
<1>20. CASE IssueOther(r)
  BY <1>20 DEF IssueOther, Read, Finish, Goto, rows, work, funds, TypeOK, Deciding, Writing, Voiding
<1>21. CASE PostOther(r)
  BY <1>21 DEF PostOther, Read, Finish, Goto, rows, work, funds, TypeOK, Deciding, Writing, Voiding
<1>22. CASE Unsubmit(r)
  BY <1>22 DEF Unsubmit, Read, Finish, Goto, rows, work, funds, TypeOK, Deciding, Writing, Voiding
<1>23. CASE ReadBalance(r)
  BY <1>23 DEF ReadBalance, Read, Finish, Goto, rows, work, funds, TypeOK, Deciding, Writing, Voiding
<1>24. CASE Pay(r)
  BY <1>24 DEF Pay, Read, Finish, Goto, rows, work, funds, TypeOK, Deciding, Writing, Voiding
<1>25. CASE ReadCredited(r)
  BY <1>25 DEF ReadCredited, Read, Finish, Goto, rows, work, funds, TypeOK, Deciding, Writing, Voiding
<1>26. CASE Credit(r)
  BY <1>26 DEF Credit, Read, Finish, Goto, rows, work, funds, TypeOK, Deciding, Writing, Voiding
<1>27. CASE ReadNote(r)
  BY <1>27 DEF ReadNote, Read, Finish, Goto, rows, work, funds, TypeOK, Deciding, Writing, Voiding
<1>28. CASE ReadNoted(r)
  BY <1>28 DEF ReadNoted, Read, Finish, Goto, rows, work, funds, TypeOK, Deciding, Writing, Voiding
<1>29. CASE VoidCredit(r)
  BY <1>29 DEF VoidCredit, Read, Finish, Goto, rows, work, funds, TypeOK, Deciding, Writing, Voiding
<1>30. CASE ReadRetainer(r)
  BY <1>30 DEF ReadRetainer, Read, Finish, Goto, rows, work, funds, TypeOK, Deciding, Writing, Voiding
<1>31. CASE ReadTarget(r)
  BY <1>31 DEF ReadTarget, Read, Finish, Goto, rows, work, funds, TypeOK, Deciding, Writing, Voiding
<1>32. CASE Apply(r)
  BY <1>32 DEF Apply, Read, Finish, Goto, rows, work, funds, TypeOK, Deciding, Writing, Voiding
<1>33. CASE ReadRelease(r)
  BY <1>33 DEF ReadRelease, Read, Finish, Goto, rows, work, funds, TypeOK, Deciding, Writing, Voiding
<1>34. CASE Release(r)
  BY <1>34 DEF Release, Read, Finish, Goto, rows, work, funds, TypeOK, Deciding, Writing, Voiding
<1>35. CASE Abort(r)
  BY <1>35 DEF Abort, Read, Finish, Goto, rows, work, funds, TypeOK, Deciding, Writing, Voiding
<1>. QED  BY <1>1, <1>2, <1>3, <1>4, <1>5, <1>6, <1>7, <1>8, <1>9, <1>10, <1>11, <1>12, <1>13, <1>14, <1>15, <1>16, <1>17, <1>18, <1>19, <1>20, <1>21, <1>22, <1>23, <1>24, <1>25, <1>26, <1>27, <1>28, <1>29, <1>30, <1>31, <1>32, <1>33, <1>34, <1>35 DEF Step

(* The rows a request goes on with are there: none is ever removed.        *)
LEMMA RowsStay ==
  ASSUME TypeOK, PathOK, Sound, NEW r \in Requests, Step(r), NEW i, Known(i)
  PROVE  Known(i)'
<1>0. invoice[i].status # "ABSENT" /\ i \in Invoices
  BY DEF Known, Exists
<1>1. CASE UNCHANGED invoice
  BY <1>0, <1>1 DEF Known, Exists
<1>2. CASE CreateInvoice(r)
  BY <1>0, <1>2 DEF CreateInvoice, Insert, Known, Exists, TypeOK
<1>3. CASE InsertInvoice(r)
  BY <1>0, <1>3 DEF InsertInvoice, Insert, Known, Exists, TypeOK
<1>4. CASE Cancel(r)
  BY <1>0, <1>4 DEF Cancel, Known, Exists, TypeOK, InvoiceRow
<1>5. CASE SubmitInvoice(r)
  BY <1>0, <1>5 DEF SubmitInvoice, Known, Exists, TypeOK, InvoiceRow
<1>6. CASE IssueWaiting(r)
  BY <1>0, <1>6 DEF IssueWaiting, Known, Exists, TypeOK, InvoiceRow
<1>7. CASE Unsubmit(r)
  BY <1>0, <1>7 DEF Unsubmit, Known, Exists, TypeOK, InvoiceRow
<1>8. CASE Pay(r)
  BY <1>0, <1>8 DEF Pay, Known, Exists, TypeOK, InvoiceRow
<1>9. CASE Credit(r)
  BY <1>0, <1>9 DEF Credit, Known, Exists, TypeOK, InvoiceRow, Sound, Holds
<1>10. CASE VoidCredit(r)
  BY <1>0, <1>10 DEF VoidCredit, Known, Exists, TypeOK, InvoiceRow, Sound, Holds
<1>11. CASE Apply(r)
  BY <1>0, <1>11 DEF Apply, Known, Exists, TypeOK, InvoiceRow
<1>. QED  BY <1>1, <1>2, <1>3, <1>4, <1>5, <1>6, <1>7, <1>8, <1>9, <1>10, <1>11, Changes

LEMMA OthersStay ==
  ASSUME TypeOK, PathOK, Sound, NEW r \in Requests, Step(r)
  PROVE  /\ \A p \in Approvals : approval[p].status # "ABSENT" => approval'[p].status # "ABSENT"
         /\ \A n \in CreditNotes : creditNote[n].status # "ABSENT" => creditNote'[n].status # "ABSENT"
<1>1. ASSUME NEW p \in Approvals, approval[p].status # "ABSENT"
      PROVE  approval'[p].status # "ABSENT"
  <2>1. CASE UNCHANGED approval
    BY <1>1, <2>1
  <2>2. CASE SubmitInvoice(r)
    BY <1>1, <2>2 DEF SubmitInvoice, TypeOK, NoApproval
  <2>3. CASE Decide(r)
    BY <1>1, <2>3 DEF Decide, TypeOK, ApprovalRow
  <2>4. CASE Reroute(r)
    BY <1>1, <2>4 DEF Reroute, Rerouted, Reroutes, PathOK, TypeOK, ApprovalRow
  <2>. QED  BY <2>1, <2>2, <2>3, <2>4, Changes
<1>2. ASSUME NEW n \in CreditNotes, creditNote[n].status # "ABSENT"
      PROVE  creditNote'[n].status # "ABSENT"
  <2>1. CASE UNCHANGED creditNote
    BY <1>2, <2>1
  <2>2. CASE Credit(r)
    BY <1>2, <2>2 DEF Credit, TypeOK
  <2>3. CASE VoidCredit(r)
    BY <1>2, <2>3 DEF VoidCredit, TypeOK, NoteRow
  <2>. QED  BY <2>1, <2>2, <2>3, Changes
<1>. QED  BY <1>1, <1>2

LEMMA SoundRowsStep ==
  ASSUME TypeOK, PathOK, Sound, NEW r \in Requests, Step(r)
  PROVE  SoundRows'
<1>. DEFINE There(i) == i \in Invoices /\ invoice'[i].status # "ABSENT"
<1>1. ASSUME NEW i, Known(i) PROVE There(i)
  BY <1>1, RowsStay DEF Known, Exists
<1>. HIDE DEF There
<1>2. \A p \in Approvals : approval'[p].status # "ABSENT" => There(approval'[p].invoice)
  <2>1. CASE UNCHANGED approval
    BY <1>1, <2>1 DEF Sound, SoundRows
  <2>2. CASE SubmitInvoice(r)
    <3>1. There(input[r].invoice)
      BY <1>1, <2>2 DEF Sound, Holds, SubmitInvoice, Writing
    <3>. QED  BY <1>1, <2>2, <3>1 DEF SubmitInvoice, TypeOK, NoApproval, Sound, SoundRows
  <2>3. CASE Decide(r)
    <3>1. \A p \in Approvals : approval'[p].invoice = approval[p].invoice
      BY <2>3 DEF Decide, TypeOK, ApprovalRow
    <3>2. \A p \in Approvals : approval'[p].status # "ABSENT" => approval[p].status # "ABSENT"
      BY <2>3 DEF Decide, TypeOK, Sound, Holds, Deciding
    <3>. QED  BY <1>1, <3>1, <3>2 DEF Sound, SoundRows
  <2>4. CASE Reroute(r)
    <3>1. \A p \in Approvals : approval'[p].invoice = approval[p].invoice
      BY <2>4 DEF Reroute, Rerouted, Reroutes, PathOK, TypeOK, ApprovalRow
    <3>2. \A p \in Approvals : approval'[p].status # "ABSENT" => approval[p].status # "ABSENT"
      BY <2>4 DEF Reroute, TypeOK, Sound, Holds, Deciding
    <3>. QED  BY <1>1, <3>1, <3>2 DEF Sound, SoundRows
  <2>. QED  BY <2>1, <2>2, <2>3, <2>4, Changes
<1>3. \A n \in CreditNotes : creditNote'[n].status # "ABSENT" => There(creditNote'[n].invoice)
  <2>1. CASE UNCHANGED creditNote
    BY <1>1, <2>1 DEF Sound, SoundRows
  <2>2. CASE Credit(r)
    <3>1. There(input[r].invoice)
      BY <1>1, <2>2 DEF Sound, Holds, Credit, Writing
    <3>. QED  BY <1>1, <2>2, <3>1 DEF Credit, TypeOK, Sound, SoundRows
  <2>3. CASE VoidCredit(r)
    <3>1. \A n \in CreditNotes : creditNote'[n].invoice = creditNote[n].invoice
      BY <2>3 DEF VoidCredit, TypeOK, NoteRow
    <3>2. \A n \in CreditNotes : creditNote'[n].status # "ABSENT" => creditNote[n].status # "ABSENT"
      BY <2>3 DEF VoidCredit, TypeOK, Sound, Holds, Voiding
    <3>. QED  BY <1>1, <3>1, <3>2 DEF Sound, SoundRows
  <2>. QED  BY <2>1, <2>2, <2>3, Changes
<1>4. \A e \in postings' : There(e.invoice)
  <2>1. CASE UNCHANGED postings
    BY <1>1, <2>1 DEF Sound, SoundRows
  <2>2. CASE IssueWaiting(r) \/ PostOther(r)
    <3>1. Known(approval[input[r].approval].invoice)
      BY <2>2, Named DEF IssueWaiting, PostOther, Sound, SoundRows, Holds, Deciding
    <3>2. PostIssued(approval[input[r].approval].invoice)
      BY <2>2 DEF IssueWaiting, PostOther
    <3>. QED  BY <1>1, <3>1, <3>2 DEF PostIssued, Sound, SoundRows
  <2>. QED  BY <2>1, <2>2, Changes
<1>. QED  BY <1>2, <1>3, <1>4 DEF SoundRows, There, Known, Exists

LEMMA SoundStep ==
  ASSUME TypeOK, PathOK, Sound, NEW r \in Requests, Step(r)
  PROVE  Sound'
<1>. DEFINE There(i) == i \in Invoices /\ invoice'[i].status # "ABSENT"
<1>1. ASSUME NEW i, Known(i) PROVE There(i)
  BY <1>1, RowsStay DEF Known, Exists
<1>2. ASSUME NEW q \in Requests, q # r PROVE Holds(q)'
  <2>1. pc'[q] = pc[q] /\ seen'[q] = seen[q] /\ input'[q] = input[q]
    BY <1>2, Changes
  <2>2. Holds(q)
    BY DEF Sound
  <2>3. pc[q] \in Writing => There(input[q].invoice)
    BY <1>1, <2>2 DEF Holds
  <2>4. pc[q] \in Voiding => There(seen[q].note.invoice)
    BY <1>1, <2>2 DEF Holds
  <2>5. pc[q] \in Deciding => approval'[input[q].approval].status # "ABSENT"
    BY <2>2, OthersStay, Named DEF Holds, Deciding
  <2>6. pc[q] \in Voiding => creditNote'[input[q].note].status # "ABSENT"
    BY <2>2, OthersStay, Named DEF Holds, Voiding
  <2>. QED  BY <2>1, <2>2, <2>3, <2>4, <2>5, <2>6 DEF Holds, Known, Exists
<1>3. Holds(r)'
  <2>1. CASE pc'[r] \notin Deciding \union Writing \union Voiding
    BY <2>1 DEF Holds, Writing, Voiding
  <2>2. CASE ReadUnpaid(r)
    BY <2>2, Named DEF ReadUnpaid, Read, Finish, Goto, rows, TypeOK, PathOK, Holds, Known, Exists,
                       Deciding, Writing, Voiding
  <2>3. CASE ReadDraft(r)
    BY <2>3, Named DEF ReadDraft, Read, Finish, Goto, rows, TypeOK, PathOK, Holds, Known, Exists,
                       Deciding, Writing, Voiding
  <2>4. CASE ReadApproval(r)
    BY <2>4, Named DEF ReadApproval, Open, Read, Finish, Goto, rows, TypeOK, PathOK, Holds,
                       Deciding, Writing, Voiding
  <2>5. CASE Decide(r)
    BY <2>5, Named DEF Decide, Hook, Finish, Goto, TypeOK, PathOK, Holds, Deciding, Writing, Voiding
  <2>6. CASE IssueOther(r)
    BY <2>6 DEF IssueOther, Read, Goto, rows, TypeOK, PathOK, Holds, Sound, Deciding, Writing, Voiding
  <2>7. CASE ReadBalance(r)
    BY <2>7, Named DEF ReadBalance, Read, Finish, Goto, rows, TypeOK, PathOK, Holds, Known, Exists,
                       Deciding, Writing, Voiding
  <2>8. CASE ReadCredited(r)
    BY <2>8, Named DEF ReadCredited, Read, Finish, Goto, rows, TypeOK, PathOK, Holds, Known, Exists,
                       SeenType, Deciding, Writing, Voiding
  <2>9. CASE ReadNote(r)
    <3>1. input[r].note \in CreditNotes /\ UNCHANGED <<invoice, creditNote, input>>
      BY <2>9, Named, ReadsFrame DEF ReadNote, rows, funds
    <3>2. CASE creditNote[input[r].note].status = "ISSUED"
      <4>1. pc'[r] = "readNoted" /\ seen'[r].note = creditNote[input[r].note]
        BY <2>9, <3>2 DEF ReadNote, Read, Goto, TypeOK, SeenType
      <4>2. There(creditNote[input[r].note].invoice)
        BY <1>1, <3>1, <3>2 DEF Sound, SoundRows
      <4>. QED  BY <3>1, <3>2, <4>1, <4>2 DEF Holds, Known, Exists, Deciding, Writing, Voiding
    <3>3. CASE creditNote[input[r].note].status # "ISSUED"
      BY <2>9, <3>3 DEF ReadNote, Read, Finish, Goto, TypeOK, Holds, Deciding, Writing, Voiding
    <3>. QED  BY <3>2, <3>3
  <2>10. CASE ReadNoted(r)
    <3>1. UNCHANGED <<invoice, creditNote, input>>
      BY <2>10, ReadsFrame DEF rows, funds
    <3>2. Known(seen[r].note.invoice) /\ creditNote[input[r].note].status # "ABSENT"
      BY <2>10 DEF ReadNoted, Sound, Holds, Voiding
    <3>3. pc'[r] = "voidCredit" /\ seen'[r].note = seen[r].note
          /\ seen'[r].invoice = invoice[seen[r].note.invoice]
      BY <2>10 DEF ReadNoted, Read, Goto, TypeOK, SeenType
    <3>. QED  BY <3>1, <3>2, <3>3 DEF Holds, Known, Exists, Deciding, Writing, Voiding
  <2>11. CASE ReadTarget(r)
    BY <2>11, Named DEF ReadTarget, Read, Finish, Goto, rows, TypeOK, PathOK, Holds, Known, Exists,
                       Deciding, Writing, Voiding
  <2>. QED  BY <2>1, <2>2, <2>3, <2>4, <2>5, <2>6, <2>7, <2>8, <2>9, <2>10, <2>11, Changes
<1>. QED  BY <1>2, <1>3, SoundRowsStep DEF Sound

-------------------------------------------------------------------------------
LEMMA OpeningNumbers ==
  ASSUME NEW f \in [Opened -> 1..Cardinality(Opened)], NEW i \in Opened
  PROVE  <<"MATTER", f[i]>> \in Number
<1>1. Cardinality(Opened) \in Nat
  BY FiniteInvoices, FS_Subset, FS_CardinalityType DEF Opened
<1>2. f[i] \in Nat
  BY <1>1
<1>. QED  BY <1>2 DEF Number

LEMMA InitIsSound == Init => TypeOK /\ PathOK /\ Sound
<1>. SUFFICES ASSUME Init PROVE TypeOK /\ PathOK /\ Sound
  OBVIOUS
<1>1. PICK f \in [Opened -> 1..Cardinality(Opened)] :
        invoice = [i \in Invoices |->
            IF i \notin Opened THEN Absent
            ELSE [NewInvoice(<<"MATTER", f[i]>>, OpeningLines[i])
                    EXCEPT !.status = IF i \in Issued THEN "INVOICED" ELSE @]]
  BY DEF Init
<1>2. \A i \in Opened :
        /\ invoice[i] \in InvoiceRow
        /\ invoice[i].status # "ABSENT"
  <2>. SUFFICES ASSUME NEW i \in Opened
       PROVE  invoice[i] \in InvoiceRow /\ invoice[i].status # "ABSENT"
    OBVIOUS
  <2>. DEFINE row == NewInvoice(<<"MATTER", f[i]>>, OpeningLines[i])
              status == IF i \in Issued THEN "INVOICED" ELSE "DRAFT"
  <2>1. row \in InvoiceRow
    BY OpeningNumbers, RowTypes, ConstantsAssumption DEF Opened
  <2>2. row.status = "DRAFT"
    BY DEF NewInvoice
  <2>3. invoice[i] = [row EXCEPT !.status = status]
    BY <1>1, <2>1, <2>2 DEF Opened, InvoiceRow
  <2>4. status \in InvoiceStatus /\ status # "ABSENT"
    BY DEF InvoiceStatus
  <2>5. [row EXCEPT !.status = status].status = status
    BY <2>1 DEF InvoiceRow
  <2>. HIDE DEF row, status
  <2>. QED  BY <2>1, <2>3, <2>4, <2>5, UpdatedStatus
<1>3. invoice \in [Invoices -> InvoiceRow]
  BY <1>1, <1>2, RowTypes
<1>4. pc = [r \in Requests |-> "idle"] /\ input \in [Requests -> Body]
  BY ConstantsAssumption DEF Init
<1>5. postings = {[invoice |-> i, amount |-> invoice[i].balance] : i \in Opened \intersect Issued}
  BY DEF Init
<1>6. TypeOK
  <2>1. billedTo \in [TimeEntries -> Invoices \union {None}] /\ voided \subseteq Items
        /\ lines \in [Invoices -> SUBSET Items]
    BY ConstantsAssumption DEF Init, Opened
  <2>2. approval \in [Approvals -> ApprovalRow] /\ creditNote \in [CreditNotes -> NoteRow]
        /\ retainer \in [Retainers -> RetainerRow]
    BY RowTypes, ConstantsAssumption DEF Init, RetainerRow
  <2>3. postings \subseteq [invoice : Invoices, amount : Int]
    BY <1>2, <1>5 DEF Opened, InvoiceRow
  <2>4. seen \in [Requests -> SeenType] /\ applied = {}
    BY RowTypes DEF Init
  <2>. QED  BY <1>3, <1>4, <2>1, <2>2, <2>3, <2>4 DEF TypeOK
<1>7. PathOK
  BY <1>4 DEF PathOK
<1>8. Sound
  <2>1. \A e \in postings : Known(e.invoice)
    BY <1>2, <1>5 DEF Known, Exists, Opened
  <2>2. /\ \A p \in Approvals : approval[p].status = "ABSENT"
        /\ \A n \in CreditNotes : creditNote[n].status = "ABSENT"
    BY DEF Init, NoApproval, NoNote
  <2>. QED  BY <1>4, <2>1, <2>2 DEF Sound, SoundRows, Holds, Deciding, Writing, Voiding
<1>. QED  BY <1>6, <1>7, <1>8

LEMMA StutterIsSound ==
  ASSUME TypeOK, PathOK, Sound, UNCHANGED vars
  PROVE  TypeOK' /\ PathOK' /\ Sound'
<1>1. UNCHANGED <<billedTo, voided, lines, invoice, approval, creditNote, retainer, applied,
                  postings, pc, input, seen>>
  BY DEF vars, rows, work, funds
<1>2. TypeOK'
  BY <1>1 DEF TypeOK
<1>3. PathOK'
  BY <1>1 DEF PathOK
<1>4. Sound'
  BY <1>1 DEF Sound, SoundRows, Holds, Known, Exists
<1>. QED  BY <1>2, <1>3, <1>4

(* Every row keeps its shape, and every request runs the statements of its *)
(* route on rows that are there.                                           *)
THEOREM RoutesAreSound == Spec => [](TypeOK /\ PathOK /\ Sound)
<1>1. Init => TypeOK /\ PathOK /\ Sound
  BY InitIsSound
<1>2. TypeOK /\ PathOK /\ Sound /\ [Next]_vars => (TypeOK /\ PathOK /\ Sound)'
  BY TypeStep, PathStep, SoundStep, StutterIsSound DEF Next, Quiescent
<1>. QED  BY <1>1, <1>2, PTL DEF Spec

(* TypeOK holds for any number of rows, requests and bodies. *)
THEOREM TypeCorrect == Spec => []TypeOK
BY RoutesAreSound, PTL

-------------------------------------------------------------------------------
(* What is due is posted.  A request that credits an invoice writes back   *)
(* the status it has read: that the status was due then is remembered.     *)
Remembers(r) ==
  /\ pc[r] = "credit" /\ seen[r].invoice.status = "INVOICED" => Posted(input[r].invoice)
  /\ pc[r] = "voidCredit" /\ seen[r].invoice.status = "INVOICED" => Posted(seen[r].note.invoice)
PostedOK == IssuedIsPosted /\ \A r \in Requests : Remembers(r)

LEMMA PostingsStay ==
  ASSUME TypeOK, PathOK, NEW r \in Requests, Step(r)
  PROVE  postings \subseteq postings'
<1>1. CASE IssueWaiting(r) \/ PostOther(r)
  BY <1>1 DEF IssueWaiting, PostOther, PostIssued
<1>. QED  BY <1>1, Changes

(* Where the status of an invoice that is due comes from.                  *)
LEMMA BecomesDue ==
  ASSUME TypeOK, PathOK, NEW r \in Requests, Step(r), NEW i \in Invoices,
         invoice'[i].status = "INVOICED"
  PROVE  \/ invoice[i].status = "INVOICED"
         \/ IssueWaiting(r) /\ i = approval[input[r].approval].invoice
         \/ Credit(r) /\ i = input[r].invoice /\ seen[r].invoice.status = "INVOICED"
         \/ VoidCredit(r) /\ i = seen[r].note.invoice /\ seen[r].invoice.status = "INVOICED"
<1>1. CASE UNCHANGED invoice
  BY <1>1
<1>2. CASE CreateInvoice(r)
  BY <1>2 DEF CreateInvoice, Insert, NewInvoice, TypeOK
<1>3. CASE InsertInvoice(r)
  BY <1>3 DEF InsertInvoice, Insert, NewInvoice, TypeOK
<1>4. CASE Cancel(r)
  BY <1>4 DEF Cancel, TypeOK, InvoiceRow
<1>5. CASE SubmitInvoice(r)
  BY <1>5 DEF SubmitInvoice, TypeOK, InvoiceRow
<1>6. CASE IssueWaiting(r)
  BY <1>6 DEF IssueWaiting, TypeOK
<1>7. CASE Unsubmit(r)
  BY <1>7 DEF Unsubmit, TypeOK, InvoiceRow
<1>8. CASE Pay(r)
  BY <1>8 DEF Pay, TypeOK, InvoiceRow
<1>9. CASE Credit(r)
  <2>. DEFINE j == input[r].invoice
              balance == Max({seen[r].invoice.balance - input[r].amount, 0})
  <2>0. invoice' = [invoice EXCEPT ![j] =
          [@ EXCEPT !.credited = seen[r].invoice.credited + input[r].amount, !.balance = balance,
                    !.status = IF balance = 0 THEN "CREDITED" ELSE seen[r].invoice.status]]
    BY <1>9 DEF Credit
  <2>. HIDE DEF balance
  <2>1. i = j => seen[r].invoice.status = "INVOICED"
    BY <2>0 DEF TypeOK, InvoiceRow
  <2>2. i # j => invoice'[i] = invoice[i]
    BY <2>0 DEF TypeOK
  <2>. QED  BY <1>9, <2>1, <2>2
<1>10. CASE VoidCredit(r)
  <2>. DEFINE j == seen[r].note.invoice
              credited == Max({seen[r].invoice.credited - seen[r].note.amount, 0})
              balance == seen[r].invoice.balance + seen[r].note.amount
  <2>0. invoice' = [invoice EXCEPT ![j] =
          [@ EXCEPT !.credited = credited, !.balance = balance,
                    !.status = IF seen[r].invoice.status = "CREDITED" THEN "PARTIALLY_PAID"
                                                                  ELSE seen[r].invoice.status]]
    BY <1>10 DEF VoidCredit
  <2>. HIDE DEF balance, credited
  <2>1. i = j => seen[r].invoice.status = "INVOICED"
    BY <2>0 DEF TypeOK, InvoiceRow
  <2>2. i # j => invoice'[i] = invoice[i]
    BY <2>0 DEF TypeOK
  <2>. QED  BY <1>10, <2>1, <2>2
<1>11. CASE Apply(r)
  BY <1>11 DEF Apply, TypeOK, InvoiceRow
<1>. QED  BY <1>1, <1>2, <1>3, <1>4, <1>5, <1>6, <1>7, <1>8, <1>9, <1>10, <1>11, Changes

LEMMA IssuedStep ==
  ASSUME TypeOK, PathOK, Sound, PostedOK, NEW r \in Requests, Step(r)
  PROVE  IssuedIsPosted'
<1>. SUFFICES ASSUME NEW i \in Invoices, invoice'[i].status = "INVOICED"
              PROVE  Posted(i)'
  BY DEF IssuedIsPosted
<1>1. Posted(i) => Posted(i)'
  BY PostingsStay DEF Posted
<1>2. CASE IssueWaiting(r) /\ i = approval[input[r].approval].invoice
  <2>1. PostIssued(i)
    BY <1>2 DEF IssueWaiting
  <2>2. ASSUME ~Posted(i) PROVE Posted(i)'
    <3>1. [invoice |-> i, amount |-> invoice[i].balance] \in postings'
      BY <2>1, <2>2 DEF PostIssued
    <3>. QED  BY <3>1 DEF Posted
  <2>. QED  BY <1>1, <2>2
<1>3. CASE \/ Credit(r) /\ i = input[r].invoice /\ seen[r].invoice.status = "INVOICED"
           \/ VoidCredit(r) /\ i = seen[r].note.invoice /\ seen[r].invoice.status = "INVOICED"
  BY <1>1, <1>3 DEF Credit, VoidCredit, PostedOK, Remembers
<1>4. CASE invoice[i].status = "INVOICED"
  BY <1>1, <1>4 DEF PostedOK, IssuedIsPosted
<1>. QED  BY <1>2, <1>3, <1>4, BecomesDue

LEMMA RemembersStep ==
  ASSUME TypeOK, PathOK, Sound, PostedOK, NEW r \in Requests, Step(r)
  PROVE  \A q \in Requests : Remembers(q)'
<1>0. ASSUME NEW i, Posted(i) PROVE \E e \in postings' : e.invoice = i
  BY <1>0, PostingsStay DEF Posted
<1>1. ASSUME NEW q \in Requests, q # r PROVE Remembers(q)'
  <2>1. pc'[q] = pc[q] /\ seen'[q] = seen[q] /\ input'[q] = input[q]
    BY <1>1, Changes
  <2>2. Remembers(q)
    BY DEF PostedOK
  <2>. QED  BY <1>0, <2>1, <2>2 DEF Remembers, Posted
<1>2. Remembers(r)'
  <2>1. CASE pc'[r] \notin {"credit", "voidCredit"}
    BY <2>1 DEF Remembers
  <2>2. CASE ReadCredited(r)
    <3>1. input[r].invoice \in Invoices /\ UNCHANGED input
      BY <2>2, Named, ReadsFrame DEF ReadCredited
    <3>2. pc'[r] = "credit" => seen'[r].invoice = invoice[input[r].invoice]
      BY <2>2 DEF ReadCredited, Read, Finish, Goto, TypeOK, SeenType
    <3>3. pc'[r] # "voidCredit"
      BY <2>2 DEF ReadCredited, Read, Finish, Goto, TypeOK
    <3>. QED  BY <1>0, <3>1, <3>2, <3>3 DEF Remembers, Posted, PostedOK, IssuedIsPosted
  <2>3. CASE ReadNoted(r)
    <3>1. seen[r].note.invoice \in Invoices
      BY <2>3 DEF ReadNoted, Sound, Holds, Voiding, Known
    <3>2. pc'[r] = "voidCredit" /\ seen'[r].note = seen[r].note
          /\ seen'[r].invoice = invoice[seen[r].note.invoice]
      BY <2>3 DEF ReadNoted, Read, Goto, TypeOK, SeenType
    <3>. QED  BY <1>0, <3>1, <3>2 DEF Remembers, Posted, PostedOK, IssuedIsPosted
  <2>4. CASE \/ ReadUnpaid(r) \/ ReadDraft(r) \/ ReadApproval(r) \/ Decide(r) \/ IssueOther(r)
             \/ ReadBalance(r) \/ ReadNote(r) \/ ReadTarget(r)
    <3>1. pc'[r] \notin {"credit", "voidCredit"}
      BY <2>4 DEF ReadUnpaid, ReadDraft, ReadApproval, Decide, Hook, IssueOther, ReadBalance,
                  ReadNote, ReadTarget, Read, Finish, Goto, TypeOK
    <3>. QED  BY <2>1, <3>1
  <2>. QED  BY <2>1, <2>2, <2>3, <2>4, Changes DEF Writing, Voiding
<1>. QED  BY <1>1, <1>2

LEMMA InitiallyDue ==
  ASSUME Init, NEW i \in Invoices, invoice[i].status = "INVOICED"
  PROVE  i \in Opened \intersect Issued
<1>1. PICK f \in [Opened -> 1..Cardinality(Opened)] :
        invoice = [j \in Invoices |->
          IF j \notin Opened THEN Absent
          ELSE [NewInvoice(<<"MATTER", f[j]>>, OpeningLines[j])
                  EXCEPT !.status = IF j \in Issued THEN "INVOICED" ELSE @]]
  BY DEF Init
<1>2. i \in Opened
  BY <1>1 DEF Absent, NewInvoice
<1>. QED  BY <1>1, <1>2 DEF NewInvoice

LEMMA InitIsPosted == Init => PostedOK
<1>. SUFFICES ASSUME Init PROVE PostedOK
  OBVIOUS
<1>1. ASSUME NEW i \in Invoices, invoice[i].status = "INVOICED" PROVE i \in Opened \intersect Issued
  BY <1>1, InitiallyDue
<1>2. ASSUME NEW i \in Opened \intersect Issued PROVE Posted(i)
  <2>1. [invoice |-> i, amount |-> invoice[i].balance] \in postings
    BY DEF Init
  <2>. QED  BY <2>1 DEF Posted
<1>3. \A r \in Requests : pc[r] = "idle"
  BY DEF Init
<1>. QED  BY <1>1, <1>2, <1>3 DEF PostedOK, IssuedIsPosted, Remembers

(* No step, on any number of rows, leaves an invoice due that has no       *)
(* journal.                                                                *)
THEOREM DueIsPosted == Spec => []IssuedIsPosted
<1>1. Init => PostedOK
  BY InitIsPosted
<1>2. TypeOK /\ PathOK /\ Sound /\ PostedOK /\ [Next]_vars => PostedOK'
  <2>. SUFFICES ASSUME TypeOK, PathOK, Sound, PostedOK, [Next]_vars PROVE PostedOK'
    OBVIOUS
  <2>1. CASE UNCHANGED vars
    BY <2>1 DEF vars, rows, work, PostedOK, IssuedIsPosted, Remembers, Posted
  <2>2. ASSUME NEW r \in Requests, Step(r) PROVE PostedOK'
    BY <2>2, IssuedStep, RemembersStep DEF PostedOK
  <2>. QED  BY <2>1, <2>2 DEF Next, Quiescent
<1>3. PostedOK => IssuedIsPosted
  BY DEF PostedOK
<1>. QED  BY <1>1, <1>2, <1>3, RoutesAreSound, PTL DEF Spec

-------------------------------------------------------------------------------
(* The total of an invoice is set when it is inserted, and not moved.      *)
LEMMA TotalsStay ==
  ASSUME TypeOK, PathOK, NEW r \in Requests, Step(r), NEW i \in Invoices, Exists(i)
  PROVE  invoice'[i].total = invoice[i].total
<1>1. CASE UNCHANGED invoice
  BY <1>1
<1>2. CASE CreateInvoice(r)
  BY <1>2 DEF CreateInvoice, Insert, Exists, TypeOK
<1>3. CASE InsertInvoice(r)
  BY <1>3 DEF InsertInvoice, Insert, Exists, TypeOK
<1>4. CASE Cancel(r)
  BY <1>4 DEF Cancel, TypeOK, InvoiceRow
<1>5. CASE SubmitInvoice(r)
  BY <1>5 DEF SubmitInvoice, TypeOK, InvoiceRow
<1>6. CASE IssueWaiting(r)
  BY <1>6 DEF IssueWaiting, TypeOK, InvoiceRow
<1>7. CASE Unsubmit(r)
  BY <1>7 DEF Unsubmit, TypeOK, InvoiceRow
<1>8. CASE Pay(r)
  BY <1>8 DEF Pay, TypeOK, InvoiceRow
<1>9. CASE Credit(r)
  BY <1>9 DEF Credit, TypeOK, InvoiceRow
<1>10. CASE VoidCredit(r)
  BY <1>10 DEF VoidCredit, TypeOK, InvoiceRow
<1>11. CASE Apply(r)
  BY <1>11 DEF Apply, TypeOK, InvoiceRow
<1>. QED  BY <1>1, <1>2, <1>3, <1>4, <1>5, <1>6, <1>7, <1>8, <1>9, <1>10, <1>11, Changes

LEMMA PostedInFullStep ==
  ASSUME TypeOK, PathOK, Sound, PostedInFull, NEW r \in Requests, Step(r)
  PROVE  PostedInFull'
<1>1. \A e \in postings : e.invoice \in Invoices /\ Exists(e.invoice)
  BY DEF Sound, SoundRows, Known
<1>2. \A e \in postings : e.amount = invoice'[e.invoice].total
  BY <1>1, TotalsStay DEF PostedInFull
<1>3. CASE UNCHANGED postings
  BY <1>2, <1>3 DEF PostedInFull
<1>4. CASE IssueWaiting(r) \/ PostOther(r)
  <2>. DEFINE i == approval[input[r].approval].invoice
              new == [invoice |-> i, amount |-> invoice[i].balance]
  <2>1. i \in Invoices /\ Exists(i)
    BY <1>4, Named DEF IssueWaiting, PostOther, Sound, SoundRows, Holds, Deciding, Known
  <2>2. PostIssued(i)
    BY <1>4 DEF IssueWaiting, PostOther
  <2>3. CASE Posted(i)
    BY <1>3, <2>2, <2>3 DEF PostIssued
  <2>4. CASE ~Posted(i)
    <3>1. postings' = postings \union {new} /\ invoice[i].balance = invoice[i].total
      BY <2>2, <2>4 DEF PostIssued
    <3>2. new.invoice = i /\ new.amount = invoice'[i].total
      BY <2>1, <3>1, TotalsStay
    <3>3. \A e \in postings : e.invoice # i
      BY <2>4 DEF Posted
    <3>. HIDE DEF new, i
    <3>. QED  BY <1>2, <3>1, <3>2, <3>3 DEF PostedInFull
  <2>. QED  BY <2>3, <2>4
<1>. QED  BY <1>3, <1>4, Changes

LEMMA InitIsPostedInFull == Init => PostedInFull
<1>. SUFFICES ASSUME Init PROVE PostedInFull
  OBVIOUS
<1>1. \A i \in Opened \intersect Issued : invoice[i].balance = invoice[i].total
  BY DEF Init, NewInvoice, Opened
<1>2. postings = {[invoice |-> i, amount |-> invoice[i].balance] : i \in Opened \intersect Issued}
  BY DEF Init
<1>. QED  BY <1>1, <1>2 DEF PostedInFull

(* The journal of an invoice is one, and carries its total, although it is *)
(* written from the balance and by as many requests as there are approvals. *)
THEOREM ReceivableIsTotal == Spec => []PostedInFull
<1>1. Init => PostedInFull
  BY InitIsPostedInFull
<1>2. TypeOK /\ PathOK /\ Sound /\ PostedInFull /\ [Next]_vars => PostedInFull'
  <2>. SUFFICES ASSUME TypeOK, PathOK, Sound, PostedInFull, [Next]_vars PROVE PostedInFull'
    OBVIOUS
  <2>1. CASE UNCHANGED vars
    BY <2>1 DEF vars, rows, PostedInFull
  <2>2. ASSUME NEW r \in Requests, Step(r) PROVE PostedInFull'
    BY <2>2, PostedInFullStep
  <2>. QED  BY <2>1, <2>2 DEF Next, Quiescent
<1>. QED  BY <1>1, <1>2, RoutesAreSound, PTL DEF Spec

-------------------------------------------------------------------------------
(***************************************************************************)
(* Items.  An entry is locked with its line, or, where a form bills it, by *)
(* a statement of its own, before which the invoice may be cancelled.      *)
(***************************************************************************)
LockedOrEmptied ==
  \A e \in TimeEntries, i \in Invoices : billedTo[e] = i => e \in lines[i] \/ lines[i] = {}

(* Only an invoice that is there has lines or entries; what a form is about *)
(* to lock are its lines, or it has none left.                             *)
LockedInv ==
  /\ LockedOrEmptied
  /\ \A e \in TimeEntries, i \in Invoices : billedTo[e] = i => Exists(i)
  /\ \A i \in Invoices : lines[i] # {} => Exists(i)
  /\ \A r \in Requests : pc[r] = "lockEntries" =>
       Exists(input[r].invoice) /\ lines[input[r].invoice] \in {{}, input[r].items}

(* Where requests handle items, and which steps lead there.                *)
Handling == {"readLines", "count", "createInvoice", "insertInvoice", "lockEntries", "void"}

LEMMA ItemSteps ==
  ASSUME TypeOK, PathOK, NEW r \in Requests, Step(r)
  PROVE  /\ \/ UNCHANGED work
            \/ CreateInvoice(r) \/ InsertInvoice(r) \/ LockBilled(r) \/ Void(r) \/ Cancel(r)
         /\ \/ pc'[r] \notin Handling
            \/ Begin(r) \/ ReadItems(r) \/ ReadLines(r) \/ CountInvoices(r) \/ InsertInvoice(r)
            \/ ReadItem(r) \/ ReadVoided(r)
         /\ Begin(r) \/ pc[r] \in Working
         /\ pc'[r] # "idle"
<1>1. CASE Begin(r)
  <2>1. input[r].kind \in Kinds
    BY DEF PathOK, Body
  <2>2. FirstStep[input[r].kind] \in Working
    BY <2>1, FirstStepIs
  <2>. QED  BY <1>1, <2>2 DEF Begin, rows, work, TypeOK, Working
<1>2. CASE \/ ReadItems(r) \/ ReadLines(r) \/ CountInvoices(r) \/ ReadItem(r) \/ ReadVoided(r)
  <2>1. UNCHANGED work
    BY <1>2, ReadsFrame DEF rows
  <2>. QED  BY <1>2, <2>1 DEF ReadItems, ReadLines, CountInvoices, ReadItem, ReadVoided, Read, Goto,
                              Finish, TypeOK, Working
<1>3. CASE \/ ReadUnpaid(r) \/ ReadDraft(r) \/ ReadApproval(r) \/ IssueOther(r) \/ ReadBalance(r)
  <2>1. UNCHANGED work
    BY <1>3, ReadsFrame DEF rows
  <2>. QED  BY <1>3, <2>1 DEF ReadUnpaid, ReadDraft, ReadApproval, IssueOther, ReadBalance, Read,
                              Goto, Finish, TypeOK, Working, Handling
<1>4. CASE \/ ReadCredited(r) \/ ReadNote(r) \/ ReadNoted(r) \/ ReadRetainer(r) \/ ReadTarget(r)
           \/ ReadRelease(r)
  <2>1. UNCHANGED work
    BY <1>4, ReadsFrame DEF rows
  <2>. QED  BY <1>4, <2>1 DEF ReadCredited, ReadNote, ReadNoted, ReadRetainer, ReadTarget,
                              ReadRelease, Read, Goto, Finish, TypeOK, Working, Handling
<1>5. CASE CreateInvoice(r) \/ LockBilled(r) \/ Void(r) \/ Cancel(r) \/ InsertInvoice(r)
  BY <1>5 DEF CreateInvoice, LockBilled, Void, Cancel, InsertInvoice, Goto, Finish, TypeOK, Working,
              Handling
<1>6. CASE RejectNumber(r) \/ Abort(r)
  BY <1>6 DEF RejectNumber, Abort, Goto, Finish, TypeOK, rows, Working, Handling
<1>7. CASE SubmitInvoice(r) \/ Reroute(r) \/ IssueWaiting(r) \/ PostOther(r) \/ Unsubmit(r) \/ Pay(r)
  BY <1>7 DEF SubmitInvoice, Reroute, IssueWaiting, PostOther, Unsubmit, Pay, Goto, Finish, TypeOK,
              Working, Handling
<1>8. CASE Credit(r) \/ VoidCredit(r) \/ Apply(r) \/ Release(r)
  BY <1>8 DEF Credit, VoidCredit, Apply, Release, Goto, Finish, TypeOK, Working, Handling
<1>9. CASE Decide(r)
  BY <1>9 DEF Decide, Hook, Goto, Finish, TypeOK, Working, Handling
<1>. QED  BY <1>1, <1>2, <1>3, <1>4, <1>5, <1>6, <1>7, <1>8, <1>9 DEF Step

LEMMA Stutters ==
  ASSUME UNCHANGED vars
  PROVE  /\ UNCHANGED <<billedTo, voided, lines, invoice, pc, input, seen>>
BY DEF vars, rows, work

(* Inserting an invoice: its lines are new, those of the others stay, and  *)
(* no entry was locked for it before.                                      *)
LEMMA InsertLines ==
  ASSUME TypeOK, LockedInv, NEW r \in Requests, NEW format, NEW items \in SUBSET Items,
         Insert(r, format, items), input[r].invoice \in Invoices
  PROVE  /\ lines'[input[r].invoice] = items
         /\ \A i \in Invoices : i # input[r].invoice => lines'[i] = lines[i]
         /\ ~Exists(input[r].invoice) /\ invoice'[input[r].invoice].status # "ABSENT"
         /\ \A e \in TimeEntries : billedTo[e] # input[r].invoice
<1>1. invoice'[input[r].invoice].status # "ABSENT" /\ ~Exists(input[r].invoice)
  BY DEF Insert, NewInvoice, TypeOK
<1>2. lines'[input[r].invoice] = items /\ \A i \in Invoices : i # input[r].invoice => lines'[i] = lines[i]
  BY DEF Insert, TypeOK
<1>3. \A e \in TimeEntries : billedTo[e] # input[r].invoice
  BY <1>1 DEF LockedInv
<1>. QED  BY <1>1, <1>2, <1>3

LEMMA LockedStep ==
  ASSUME TypeOK, PathOK, Sound, LockedInv, NEW r \in Requests, Step(r)
  PROVE  LockedInv'
<1>. DEFINE j == input[r].invoice
            Lines == \A i \in Invoices : lines'[i] # {} => invoice'[i].status # "ABSENT"
            Locks == \A e \in TimeEntries, i \in Invoices :
                       billedTo'[e] = i => /\ e \in lines'[i] \/ lines'[i] = {}
                                           /\ invoice'[i].status # "ABSENT"
            Forms == \A q \in Requests : q # r /\ pc[q] = "lockEntries" =>
                       /\ invoice'[input[q].invoice].status # "ABSENT"
                       /\ lines'[input[q].invoice] \in {{}, input[q].items}
            Own == pc'[r] = "lockEntries" =>
                     invoice'[j].status # "ABSENT" /\ lines'[j] \in {{}, input[r].items}
<1>1. input' = input /\ \A q \in Requests \ {r} : pc'[q] = pc[q]
  BY Changes
<1>2. \A i \in Invoices : Exists(i) => invoice'[i].status # "ABSENT"
  BY RowsStay DEF Known, Exists
<1>3. \A q \in Requests : pc[q] = "lockEntries" =>
        /\ Exists(input[q].invoice) /\ lines[input[q].invoice] \in {{}, input[q].items}
        /\ input[q].invoice \in Invoices
  BY Named DEF LockedInv
<1>4. input[r].items \in SUBSET Items /\ seen[r].items \in SUBSET Items
  BY BodyNames DEF TypeOK, SeenType
<1>5. Own
  <2>1. CASE Begin(r)
    <3>1. input[r].kind \in Kinds
      BY DEF PathOK, Body
    <3>2. FirstStep[input[r].kind] # "lockEntries"
      BY <3>1, FirstStepIs DEF Kinds, Decisions, Reroutes
    <3>. QED  BY <2>1, <3>2 DEF Begin, TypeOK
  <2>2. CASE ReadItems(r) \/ ReadLines(r) \/ CountInvoices(r) \/ ReadItem(r) \/ ReadVoided(r)
    BY <2>2 DEF ReadItems, ReadLines, CountInvoices, ReadItem, ReadVoided, Read, Goto, Finish, TypeOK
  <2>3. CASE InsertInvoice(r)
    <3>1. j \in Invoices /\ Insert(r, "BILLING", input[r].items)
      BY <2>3, Named DEF InsertInvoice
    <3>. QED  BY <1>4, <3>1, InsertLines
  <2>. QED  BY <2>1, <2>2, <2>3, ItemSteps DEF Handling
<1>6. Lines /\ Locks /\ Forms
  <2>1. CASE UNCHANGED work
    BY <1>2, <1>3, <2>1 DEF work, LockedInv, LockedOrEmptied
  <2>2. ASSUME NEW format, NEW items \in SUBSET Items, Insert(r, format, items), j \in Invoices,
               billedTo' = billedTo \/ LockEntries(items, j)
        PROVE  Lines /\ Locks /\ Forms
    <3>1. /\ lines'[j] = items /\ \A i \in Invoices : i # j => lines'[i] = lines[i]
          /\ ~Exists(j) /\ invoice'[j].status # "ABSENT"
          /\ \A e \in TimeEntries : billedTo[e] # j
      BY <2>2, InsertLines
    <3>2. \A e \in TimeEntries : billedTo'[e] = billedTo[e] \/ (billedTo'[e] = j /\ e \in items)
      BY <2>2 DEF LockEntries
    <3>. HIDE DEF j
    <3>3. Lines
      BY <1>2, <3>1 DEF LockedInv
    <3>4. Locks
      <4>. SUFFICES ASSUME NEW e \in TimeEntries, NEW i \in Invoices, billedTo'[e] = i
                    PROVE  (e \in lines'[i] \/ lines'[i] = {}) /\ invoice'[i].status # "ABSENT"
        OBVIOUS
      <4>1. CASE i = j
        BY <3>1, <3>2, <4>1
      <4>2. CASE i # j
        BY <1>2, <3>1, <3>2, <4>2 DEF LockedInv, LockedOrEmptied
      <4>. QED  BY <4>1, <4>2
    <3>5. Forms
      BY <1>2, <1>3, <3>1
    <3>. QED  BY <3>3, <3>4, <3>5
  <2>3. CASE CreateInvoice(r)
    <3>1. j \in Invoices /\ Insert(r, "MATTER", seen[r].items) /\ LockEntries(seen[r].items, j)
      BY <2>3, Named DEF CreateInvoice
    <3>. QED  BY <1>4, <2>2, <3>1
  <2>4. CASE InsertInvoice(r)
    <3>1. j \in Invoices /\ Insert(r, "BILLING", input[r].items) /\ billedTo' = billedTo
      BY <2>4, Named DEF InsertInvoice
    <3>. QED  BY <1>4, <2>2, <3>1
  <2>5. CASE LockBilled(r)
    <3>1. lines' = lines /\ pc[r] = "lockEntries" /\ LockEntries(input[r].items, j)
      BY <2>5 DEF LockBilled
    <3>2. \A e \in TimeEntries : billedTo'[e] = IF e \in input[r].items THEN j ELSE billedTo[e]
      BY <3>1 DEF LockEntries
    <3>. QED  BY <1>2, <1>3, <3>1, <3>2 DEF LockedInv, LockedOrEmptied
  <2>6. CASE Void(r)
    BY <1>2, <1>3, <2>6 DEF Void, LockedInv, LockedOrEmptied
  <2>7. CASE Cancel(r)
    <3>1. j \in Invoices /\ None \notin Invoices
      BY <2>7, Named, ConstantsAssumption DEF Cancel
    <3>2. \A e \in TimeEntries : billedTo'[e] = IF billedTo[e] = j THEN None ELSE billedTo[e]
      BY <2>7 DEF Cancel
    <3>3. lines'[j] = {} /\ \A i \in Invoices : i # j => lines'[i] = lines[i]
      BY <2>7, <3>1 DEF Cancel, TypeOK
    <3>. HIDE DEF j
    <3>. QED  BY <1>2, <1>3, <3>1, <3>2, <3>3 DEF LockedInv, LockedOrEmptied
  <2>. QED  BY <2>1, <2>3, <2>4, <2>5, <2>6, <2>7, ItemSteps
<1>. QED  BY <1>1, <1>5, <1>6 DEF LockedInv, LockedOrEmptied, Exists

LEMMA LockedInit == Init => LockedInv
<1>. SUFFICES ASSUME Init PROVE LockedInv
  OBVIOUS
<1>1. ASSUME NEW i \in Opened PROVE Exists(i)
  <2>1. PICK f \in [Opened -> 1..Cardinality(Opened)] :
          invoice = [k \in Invoices |->
            IF k \notin Opened THEN Absent
            ELSE [NewInvoice(<<"MATTER", f[k]>>, OpeningLines[k])
                    EXCEPT !.status = IF k \in Issued THEN "INVOICED" ELSE @]]
    BY DEF Init
  <2>. QED  BY <2>1 DEF Exists, NewInvoice, Opened
<1>2. ASSUME NEW e \in TimeEntries, NEW i \in Invoices, billedTo[e] = i
      PROVE  e \in lines[i] /\ i \in Opened
  <2>1. billedTo[e] \in {None} \union Opened
    BY DEF Init
  <2>2. i \in Opened
    BY <1>2, <2>1, ConstantsAssumption
  <2>3. (billedTo[e] = i) = (e \in OpeningLines[i]) /\ lines = OpeningLines
    BY <2>2 DEF Init
  <2>. QED  BY <1>2, <2>2, <2>3
<1>3. \A i \in Invoices : lines[i] # {} => i \in Opened
  BY DEF Init, Opened
<1>. QED  BY <1>1, <1>2, <1>3 DEF Init, LockedInv, LockedOrEmptied

(* However forms, raised invoices and cancellations overlap and fail, an   *)
(* entry that is locked is a line of the invoice it is locked for, or that *)
(* invoice has no line left: no entry is held by an invoice that charges   *)
(* for other items only.                                                   *)
THEOREM LockedIsBilled == Spec => []LockedOrEmptied
<1>1. TypeOK /\ PathOK /\ Sound /\ LockedInv /\ [Next]_vars => LockedInv'
  <2>. SUFFICES ASSUME TypeOK, PathOK, Sound, LockedInv, [Next]_vars PROVE LockedInv'
    OBVIOUS
  <2>1. CASE UNCHANGED vars
    BY <2>1, Stutters DEF LockedInv, LockedOrEmptied, Exists
  <2>. QED  BY <2>1, LockedStep DEF Next, Quiescent
<1>2. LockedInv => LockedOrEmptied
  BY DEF LockedInv
<1>. QED  BY <1>1, <1>2, LockedInit, RoutesAreSound, PTL DEF Spec

-------------------------------------------------------------------------------
(***************************************************************************)
(* Approvals.  Two who read an open approval may both write it; what holds *)
(* of every decision is what the request has read before it.               *)
(***************************************************************************)
AnsweredYes(r) ==
  /\ input[r].kind = "APPROVE" /\ pc[r] = "done"
  /\ approval[input[r].approval].status # "ABSENT"
ApprovedFor(i) == \E r \in Requests : AnsweredYes(r) /\ approval[input[r].approval].invoice = i
DueWasApproved == \A i \in Invoices \ Issued : invoice[i].status = "INVOICED" => ApprovedFor(i)

(* Who is about to decide has read an approval that was open, and open to  *)
(* him; only who approved is led to the invoice.                           *)
DecidesAsRead(r) ==
  /\ pc[r] = "decide" => seen[r].approval.status \in Open /\ HasAuthority(seen[r].approval, input[r].user)
  /\ pc[r] = "issue" => input[r].kind = "APPROVE"
DecidedWithAuthority == \A r \in Requests : DecidesAsRead(r)

(* The status a credit writes back may be the one an approval gave.        *)
RemembersApproved(r) ==
  /\ pc[r] = "credit" /\ seen[r].invoice.status = "INVOICED" /\ input[r].invoice \notin Issued
       => ApprovedFor(input[r].invoice)
  /\ pc[r] = "voidCredit" /\ seen[r].invoice.status = "INVOICED" /\ seen[r].note.invoice \notin Issued
       => ApprovedFor(seen[r].note.invoice)
ApprovedInv ==
  /\ DueWasApproved
  /\ DecidedWithAuthority
  /\ \A r \in Requests : RemembersApproved(r)

(* An approval that is there stays the approval of its invoice.            *)
LEMMA ApprovalStays ==
  ASSUME TypeOK, PathOK, Sound, NEW r \in Requests, Step(r), NEW p \in Approvals,
         approval[p].status # "ABSENT"
  PROVE  approval'[p].status # "ABSENT" /\ approval'[p].invoice = approval[p].invoice
<1>1. approval'[p].status # "ABSENT"
  BY OthersStay
<1>2. approval'[p].invoice = approval[p].invoice
  <2>1. CASE UNCHANGED approval
    BY <2>1
  <2>2. CASE SubmitInvoice(r)
    BY <2>2 DEF SubmitInvoice, TypeOK
  <2>3. CASE Decide(r)
    BY <2>3 DEF Decide, TypeOK, ApprovalRow
  <2>4. CASE Reroute(r)
    BY <2>4 DEF Reroute, Rerouted, Reroutes, PathOK, TypeOK, ApprovalRow
  <2>. QED  BY <2>1, <2>2, <2>3, <2>4, Changes
<1>. QED  BY <1>1, <1>2

LEMMA ApprovedStays ==
  ASSUME TypeOK, PathOK, Sound, NEW r \in Requests, Step(r), NEW i, ApprovedFor(i)
  PROVE  ApprovedFor(i)'
<1>1. PICK q \in Requests : AnsweredYes(q) /\ approval[input[q].approval].invoice = i
  BY DEF ApprovedFor
<1>2. q # r
  BY <1>1, ItemSteps DEF AnsweredYes, Begin, Working
<1>3. input'[q] = input[q] /\ pc'[q] = "done"
  BY <1>1, <1>2, Changes DEF AnsweredYes
<1>4. input[q].approval \in Approvals
  BY <1>1 DEF AnsweredYes, PathOK, Body, Decisions
<1>5. AnsweredYes(q)' /\ approval'[input[q].approval].invoice = i
  BY <1>1, <1>3, <1>4, ApprovalStays DEF AnsweredYes
<1>. QED  BY <1>3, <1>5 DEF ApprovedFor

LEMMA DecidesStep ==
  ASSUME TypeOK, PathOK, Sound, ApprovedInv, NEW r \in Requests, Step(r)
  PROVE  DecidedWithAuthority'
<1>1. input' = input /\ \A q \in Requests \ {r} : pc'[q] = pc[q] /\ seen'[q] = seen[q]
  BY Changes
<1>2. ASSUME NEW q \in Requests \ {r} PROVE DecidesAsRead(q)'
  <2>1. DecidesAsRead(q)
    BY DEF ApprovedInv, DecidedWithAuthority
  <2>. QED  BY <1>1, <2>1 DEF DecidesAsRead, HasAuthority, Addressees
<1>3. DecidesAsRead(r)'
  <2>1. CASE ReadApproval(r)
    <3>. DEFINE row == approval[input[r].approval]
    <3>1. /\ pc'[r] = "decide" => row.status \in Open /\ input[r].kind \in Decisions
          /\ pc'[r] = "decide" /\ input[r].kind # "ESCALATE" => HasAuthority(row, input[r].user)
          /\ pc'[r] = "decide" => seen'[r].approval = row
          /\ pc'[r] # "issue"
      BY <2>1 DEF ReadApproval, Read, Goto, Finish, TypeOK, SeenType
    <3>. HIDE DEF row
    <3>2. pc'[r] = "decide" => HasAuthority(row, input[r].user)
      BY <3>1 DEF Decisions
    <3>. QED  BY <1>1, <3>1, <3>2 DEF DecidesAsRead, HasAuthority, Addressees
  <2>2. CASE Decide(r)
    <3>1. pc'[r] = Hook(input[r].kind)
      BY <2>2 DEF Decide, Finish, Goto, TypeOK
    <3>. QED  BY <1>1, <3>1 DEF DecidesAsRead, Hook
  <2>3. CASE pc'[r] \notin {"decide", "issue"}
    BY <2>3 DEF DecidesAsRead
  <2>4. CASE \/ ReadUnpaid(r) \/ ReadDraft(r) \/ IssueOther(r) \/ ReadBalance(r) \/ ReadCredited(r)
             \/ ReadNote(r) \/ ReadNoted(r) \/ ReadTarget(r)
    BY <2>3, <2>4 DEF ReadUnpaid, ReadDraft, IssueOther, ReadBalance, ReadCredited, ReadNote, ReadNoted,
                      ReadTarget, Read, Goto, Finish, TypeOK
  <2>. QED  BY <2>1, <2>2, <2>3, <2>4, Changes DEF Deciding
<1>. QED  BY <1>2, <1>3 DEF DecidedWithAuthority

LEMMA RemembersApprovedStep ==
  ASSUME TypeOK, PathOK, Sound, ApprovedInv, NEW r \in Requests, Step(r)
  PROVE  \A q \in Requests : RemembersApproved(q)'
<1>0. ASSUME NEW i, ApprovedFor(i) PROVE ApprovedFor(i)'
  BY <1>0, ApprovedStays
<1>1. ASSUME NEW q \in Requests, q # r PROVE RemembersApproved(q)'
  <2>1. pc'[q] = pc[q] /\ seen'[q] = seen[q] /\ input'[q] = input[q]
    BY <1>1, Changes
  <2>2. RemembersApproved(q)
    BY DEF ApprovedInv
  <2>. QED  BY <1>0, <2>1, <2>2 DEF RemembersApproved, ApprovedFor, AnsweredYes
<1>2. RemembersApproved(r)'
  <2>1. CASE pc'[r] \notin {"credit", "voidCredit"}
    BY <2>1 DEF RemembersApproved
  <2>2. CASE ReadCredited(r)
    <3>1. input[r].invoice \in Invoices /\ UNCHANGED input
      BY <2>2, Named, ReadsFrame DEF ReadCredited
    <3>2. pc'[r] = "credit" => seen'[r].invoice = invoice[input[r].invoice]
      BY <2>2 DEF ReadCredited, Read, Finish, Goto, TypeOK, SeenType
    <3>3. pc'[r] # "voidCredit"
      BY <2>2 DEF ReadCredited, Read, Finish, Goto, TypeOK
    <3>4. pc'[r] = "credit" /\ seen'[r].invoice.status = "INVOICED" /\ input[r].invoice \notin Issued
            => ApprovedFor(input[r].invoice)
      BY <3>1, <3>2 DEF ApprovedInv, DueWasApproved
    <3>. QED  BY <1>0, <3>1, <3>3, <3>4 DEF RemembersApproved, ApprovedFor, AnsweredYes
  <2>3. CASE ReadNoted(r)
    <3>1. seen[r].note.invoice \in Invoices
      BY <2>3 DEF ReadNoted, Sound, Holds, Voiding, Known
    <3>2. pc'[r] = "voidCredit" /\ seen'[r].note = seen[r].note
          /\ seen'[r].invoice = invoice[seen[r].note.invoice]
      BY <2>3 DEF ReadNoted, Read, Goto, TypeOK, SeenType
    <3>3. seen'[r].invoice.status = "INVOICED" /\ seen[r].note.invoice \notin Issued
            => ApprovedFor(seen[r].note.invoice)
      BY <3>1, <3>2 DEF ApprovedInv, DueWasApproved
    <3>. QED  BY <1>0, <3>2, <3>3 DEF RemembersApproved, ApprovedFor, AnsweredYes
  <2>4. CASE \/ ReadUnpaid(r) \/ ReadDraft(r) \/ ReadApproval(r) \/ Decide(r) \/ IssueOther(r)
             \/ ReadBalance(r) \/ ReadNote(r) \/ ReadTarget(r)
    <3>1. pc'[r] \notin {"credit", "voidCredit"}
      BY <2>4 DEF ReadUnpaid, ReadDraft, ReadApproval, Decide, Hook, IssueOther, ReadBalance,
                  ReadNote, ReadTarget, Read, Finish, Goto, TypeOK
    <3>. QED  BY <2>1, <3>1
  <2>. QED  BY <2>1, <2>2, <2>3, <2>4, Changes DEF Writing, Voiding
<1>. QED  BY <1>1, <1>2

LEMMA DueStep ==
  ASSUME TypeOK, PathOK, Sound, ApprovedInv, NEW r \in Requests, Step(r)
  PROVE  DueWasApproved'
<1>. SUFFICES ASSUME NEW i \in Invoices \ Issued, invoice'[i].status = "INVOICED"
              PROVE  ApprovedFor(i)'
  BY DEF DueWasApproved
<1>1. ApprovedFor(i) => ApprovedFor(i)'
  BY ApprovedStays
<1>2. CASE IssueWaiting(r) /\ i = approval[input[r].approval].invoice
  <2>1. /\ approval' = approval /\ input' = input /\ pc'[r] = "done"
        /\ input[r].kind = "APPROVE" /\ approval[input[r].approval].status # "ABSENT"
    BY <1>2 DEF IssueWaiting, Finish, Goto, TypeOK, ApprovedInv, DecidedWithAuthority, DecidesAsRead,
                Sound, Holds, Deciding
  <2>. QED  BY <1>2, <2>1 DEF ApprovedFor, AnsweredYes
<1>3. CASE \/ Credit(r) /\ i = input[r].invoice /\ seen[r].invoice.status = "INVOICED"
           \/ VoidCredit(r) /\ i = seen[r].note.invoice /\ seen[r].invoice.status = "INVOICED"
  BY <1>1, <1>3 DEF Credit, VoidCredit, ApprovedInv, RemembersApproved
<1>4. CASE invoice[i].status = "INVOICED"
  BY <1>1, <1>4 DEF ApprovedInv, DueWasApproved
<1>. QED  BY <1>2, <1>3, <1>4, BecomesDue

LEMMA ApprovedInit == Init => ApprovedInv
<1>. SUFFICES ASSUME Init PROVE ApprovedInv
  OBVIOUS
<1>1. DueWasApproved
  BY InitiallyDue DEF DueWasApproved
<1>2. \A r \in Requests : pc[r] = "idle"
  BY DEF Init
<1>. QED  BY <1>1, <1>2 DEF ApprovedInv, DecidedWithAuthority, DecidesAsRead, RemembersApproved

(* However submissions, decisions, credits and failures overlap, an invoice *)
(* becomes due only by the answered approval of a request about it, and    *)
(* whoever is about to decide has read the approval open and open to him.  *)
THEOREM DueWasDecided == Spec => [](DueWasApproved /\ DecidedWithAuthority)
<1>1. TypeOK /\ PathOK /\ Sound /\ ApprovedInv /\ [Next]_vars => ApprovedInv'
  <2>. SUFFICES ASSUME TypeOK, PathOK, Sound, ApprovedInv, [Next]_vars PROVE ApprovedInv'
    OBVIOUS
  <2>1. CASE UNCHANGED vars
    BY <2>1 DEF vars, rows, ApprovedInv, DueWasApproved, ApprovedFor, AnsweredYes, DecidedWithAuthority,
                DecidesAsRead, RemembersApproved, HasAuthority, Addressees
  <2>. QED  BY <2>1, DueStep, DecidesStep, RemembersApprovedStep DEF Next, Quiescent, ApprovedInv
<1>2. ApprovedInv => DueWasApproved /\ DecidedWithAuthority
  BY DEF ApprovedInv
<1>. QED  BY <1>1, <1>2, ApprovedInit, RoutesAreSound, PTL DEF Spec

-------------------------------------------------------------------------------
(***************************************************************************)
(* Balances.  Three services compute them, each from the row it has read   *)
(* and in its own way.                                                     *)
(***************************************************************************)
NoneIsNegative == \A i \in Invoices : invoice[i].balance >= 0

(* In the row, and in what a request remembers of it.                      *)
Positive ==
  /\ NoneIsNegative
  /\ \A r \in Requests :
       seen[r].invoice.balance >= 0 /\ (pc[r] = "apply" => input[r].amount <= seen[r].invoice.balance)

LEMMA Extremes ==
  ASSUME NEW a \in Int, NEW b \in Int
  PROVE  Min({a, b}) \in {a, b} /\ Max({a, b}) \in {a, b} /\ Max({a, b}) >= b
<1>1. \E x \in {a, b} : \A y \in {a, b} : x <= y
  OBVIOUS
<1>2. \E x \in {a, b} : \A y \in {a, b} : x >= y
  OBVIOUS
<1>3. Max({a, b}) \in {a, b} /\ \A y \in {a, b} : Max({a, b}) >= y
  BY <1>2 DEF Max
<1>4. Min({a, b}) \in {a, b}
  BY <1>1 DEF Min
<1>. QED  BY <1>3, <1>4

(* What a request remembers of an invoice, it has read, or nothing.        *)
LEMMA Remembered ==
  ASSUME TypeOK, PathOK, Sound, NEW r \in Requests, Step(r)
  PROVE  \/ seen'[r].invoice \in {seen[r].invoice, Absent}
         \/ \E i \in Invoices : seen'[r].invoice = invoice[i]
<1>1. CASE UNCHANGED seen
  BY <1>1
<1>2. CASE \E label : Finish(r, label)
  BY <1>2 DEF Finish, TypeOK, Nothing
<1>3. CASE ReadItems(r) \/ ReadLines(r) \/ CountInvoices(r) \/ ReadItem(r) \/ ReadVoided(r)
  BY <1>1, <1>2, <1>3 DEF ReadItems, ReadLines, CountInvoices, ReadItem, ReadVoided, Read, TypeOK, SeenType
<1>4. CASE ReadUnpaid(r) \/ ReadDraft(r) \/ ReadApproval(r) \/ IssueOther(r) \/ ReadNote(r)
           \/ ReadRetainer(r) \/ ReadRelease(r)
  BY <1>1, <1>2, <1>4 DEF ReadUnpaid, ReadDraft, ReadApproval, IssueOther, ReadNote, ReadRetainer,
                          ReadRelease, Read, TypeOK, SeenType
<1>5. CASE ReadBalance(r) \/ ReadCredited(r) \/ ReadTarget(r)
  <2>1. input[r].invoice \in Invoices
    BY <1>5, Named DEF ReadBalance, ReadCredited, ReadTarget
  <2>. QED  BY <1>2, <1>5, <2>1 DEF ReadBalance, ReadCredited, ReadTarget, Read, TypeOK, SeenType
<1>6. CASE ReadNoted(r)
  <2>1. seen[r].note.invoice \in Invoices
    BY <1>6 DEF ReadNoted, Sound, Holds, Voiding, Known
  <2>. QED  BY <1>6, <2>1 DEF ReadNoted, Read, TypeOK, SeenType
<1>7. CASE Begin(r) \/ InsertInvoice(r)
  BY <1>1, <1>7 DEF Begin, InsertInvoice
<1>8. CASE \/ CreateInvoice(r) \/ RejectNumber(r) \/ LockBilled(r) \/ Void(r) \/ Cancel(r)
           \/ SubmitInvoice(r) \/ Decide(r) \/ Reroute(r) \/ IssueWaiting(r) \/ PostOther(r)
           \/ Unsubmit(r) \/ Pay(r) \/ Credit(r) \/ VoidCredit(r) \/ Apply(r) \/ Release(r) \/ Abort(r)
  BY <1>2, <1>8 DEF CreateInvoice, RejectNumber, LockBilled, Void, Cancel, SubmitInvoice, Decide,
                    Reroute, IssueWaiting, PostOther, Unsubmit, Pay, Credit, VoidCredit, Apply,
                    Release, Abort
<1>. QED  BY <1>3, <1>4, <1>5, <1>6, <1>7, <1>8 DEF Step

(* The balances a step writes.                                             *)
LEMMA BalanceSteps ==
  ASSUME TypeOK, PathOK, Sound, Positive, NEW r \in Requests, Step(r), NEW i \in Invoices
  PROVE  invoice'[i].balance >= 0
<1>0. invoice[i].balance >= 0
  BY DEF Positive, NoneIsNegative
<1>1. seen[r].invoice \in InvoiceRow /\ input[r].amount \in Nat /\ seen[r].invoice.balance >= 0
      /\ seen[r].note.amount \in Nat /\ seen[r].items \in SUBSET Items /\ input[r].items \in SUBSET Items
  BY BodyNames DEF TypeOK, SeenType, NoteRow, Positive
<1>2. CASE UNCHANGED invoice
  BY <1>0, <1>2
<1>3. CASE CreateInvoice(r)
  <2>1. Price[seen[r].items] \in Nat
    BY <1>1, ConstantsAssumption
  <2>. QED  BY <1>0, <1>3, <2>1 DEF CreateInvoice, Insert, NewInvoice, TypeOK
<1>4. CASE InsertInvoice(r)
  <2>1. Price[input[r].items] \in Nat
    BY <1>1, ConstantsAssumption
  <2>. QED  BY <1>0, <1>4, <2>1 DEF InsertInvoice, Insert, NewInvoice, TypeOK
<1>5. CASE Cancel(r)
  BY <1>0, <1>5 DEF Cancel, TypeOK, InvoiceRow
<1>6. CASE SubmitInvoice(r)
  BY <1>0, <1>6 DEF SubmitInvoice, TypeOK, InvoiceRow
<1>7. CASE IssueWaiting(r)
  BY <1>0, <1>7 DEF IssueWaiting, TypeOK, InvoiceRow
<1>8. CASE Unsubmit(r)
  BY <1>0, <1>8 DEF Unsubmit, TypeOK, InvoiceRow
<1>9. CASE Pay(r)
  <2>. DEFINE paid == seen[r].invoice.paid + Min({input[r].amount, seen[r].invoice.balance})
              left == seen[r].invoice.total - paid
              balance == Max({left, 0})
              status == IF paid >= seen[r].invoice.total THEN "PAID" ELSE "PARTIALLY_PAID"
  <2>1. invoice' = [invoice EXCEPT ![input[r].invoice] =
                      [@ EXCEPT !.paid = paid, !.balance = balance, !.status = status]]
    BY <1>9 DEF Pay
  <2>2. left \in Int
    <3>1. Min({input[r].amount, seen[r].invoice.balance}) \in Int
      BY <1>1, TwoNumbers DEF InvoiceRow
    <3>. QED  BY <1>1, <3>1 DEF InvoiceRow
  <2>. HIDE DEF left, paid, status
  <2>3. balance >= 0
    BY <2>2, Extremes
  <2>. HIDE DEF balance
  <2>. QED  BY <1>0, <2>1, <2>3 DEF TypeOK, InvoiceRow
<1>10. CASE Credit(r)
  <2>. DEFINE left == seen[r].invoice.balance - input[r].amount
              balance == Max({left, 0})
              status == IF balance = 0 THEN "CREDITED" ELSE seen[r].invoice.status
              credited == seen[r].invoice.credited + input[r].amount
  <2>1. invoice' = [invoice EXCEPT ![input[r].invoice] =
                      [@ EXCEPT !.credited = credited, !.balance = balance, !.status = status]]
    BY <1>10 DEF Credit
  <2>2. left \in Int
    BY <1>1 DEF InvoiceRow
  <2>. HIDE DEF left, status, credited
  <2>3. balance >= 0
    BY <2>2, Extremes
  <2>. HIDE DEF balance
  <2>. QED  BY <1>0, <2>1, <2>3 DEF TypeOK, InvoiceRow
<1>11. CASE VoidCredit(r)
  <2>. DEFINE balance == seen[r].invoice.balance + seen[r].note.amount
              status == IF seen[r].invoice.status = "CREDITED" THEN "PARTIALLY_PAID"
                                                               ELSE seen[r].invoice.status
              credited == Max({seen[r].invoice.credited - seen[r].note.amount, 0})
  <2>1. invoice' = [invoice EXCEPT ![seen[r].note.invoice] =
                      [@ EXCEPT !.credited = credited, !.balance = balance, !.status = status]]
    BY <1>11 DEF VoidCredit
  <2>2. balance >= 0
    BY <1>1 DEF InvoiceRow
  <2>. HIDE DEF balance, status, credited
  <2>. QED  BY <1>0, <2>1, <2>2 DEF TypeOK, InvoiceRow
<1>12. CASE Apply(r)
  <2>. DEFINE balance == seen[r].invoice.balance - input[r].amount
              status == IF balance = 0 THEN "PAID" ELSE "PARTIALLY_PAID"
              paid == seen[r].invoice.paid + input[r].amount
  <2>1. invoice' = [invoice EXCEPT ![input[r].invoice] =
                      [@ EXCEPT !.paid = paid, !.balance = balance, !.status = status]]
    BY <1>12 DEF Apply
  <2>2. balance >= 0
    BY <1>1, <1>12 DEF Apply, Positive, InvoiceRow
  <2>. HIDE DEF balance, status, paid
  <2>. QED  BY <1>0, <2>1, <2>2 DEF TypeOK, InvoiceRow
<1>. QED  BY <1>2, <1>3, <1>4, <1>5, <1>6, <1>7, <1>8, <1>9, <1>10, <1>11, <1>12, Changes

LEMMA PositiveStep ==
  ASSUME TypeOK, PathOK, Sound, Positive, NEW r \in Requests, Step(r)
  PROVE  Positive'
<1>1. input' = input /\ \A q \in Requests \ {r} : pc'[q] = pc[q] /\ seen'[q] = seen[q]
  BY Changes
<1>2. seen'[r].invoice.balance >= 0
  <2>1. Absent.balance >= 0
    BY ConstantsAssumption DEF Absent, NewInvoice
  <2>. QED  BY <2>1, Remembered DEF Positive, NoneIsNegative
<1>3. pc'[r] = "apply" => input[r].amount <= seen'[r].invoice.balance
  <2>1. CASE ReadTarget(r)
    BY <2>1 DEF ReadTarget, Read, Goto, Finish, TypeOK, SeenType
  <2>2. CASE \/ ReadUnpaid(r) \/ ReadDraft(r) \/ ReadApproval(r) \/ Decide(r) \/ IssueOther(r)
             \/ ReadBalance(r) \/ ReadCredited(r) \/ ReadNote(r) \/ ReadNoted(r)
    <3>1. pc'[r] # "apply"
      BY <2>2 DEF ReadUnpaid, ReadDraft, ReadApproval, Decide, Hook, IssueOther, ReadBalance,
                  ReadCredited, ReadNote, ReadNoted, Read, Finish, Goto, TypeOK
    <3>. QED  BY <3>1
  <2>. QED  BY <2>1, <2>2, Changes DEF Writing
<1>. QED  BY <1>1, <1>2, <1>3, BalanceSteps DEF Positive, NoneIsNegative

(* Whatever is paid, credited or applied, in whatever order and from rows  *)
(* however old, no balance is negative.                                    *)
THEOREM BalancesStayPositive == Spec => []NoneIsNegative
<1>1. Init => Positive
  <2>. SUFFICES ASSUME Init PROVE Positive
    OBVIOUS
  <2>1. PICK f \in [Opened -> 1..Cardinality(Opened)] :
          invoice = [j \in Invoices |->
            IF j \notin Opened THEN Absent
            ELSE [NewInvoice(<<"MATTER", f[j]>>, OpeningLines[j])
                    EXCEPT !.status = IF j \in Issued THEN "INVOICED" ELSE @]]
    BY DEF Init
  <2>2. \A S \in SUBSET Items : Price[S] \in Nat
    BY ConstantsAssumption
  <2>3. \A i \in Invoices : invoice[i].balance >= 0
    BY <2>1, <2>2, ConstantsAssumption DEF Absent, NewInvoice
  <2>4. \A r \in Requests : pc[r] = "idle" /\ seen[r] = Nothing
    BY DEF Init
  <2>5. Nothing.invoice.balance >= 0
    BY <2>2 DEF Nothing, Absent, NewInvoice
  <2>. QED  BY <2>3, <2>4, <2>5 DEF Positive, NoneIsNegative
<1>2. TypeOK /\ PathOK /\ Sound /\ Positive /\ [Next]_vars => Positive'
  <2>. SUFFICES ASSUME TypeOK, PathOK, Sound, Positive, [Next]_vars PROVE Positive'
    OBVIOUS
  <2>1. CASE UNCHANGED vars
    BY <2>1, Stutters DEF Positive, NoneIsNegative
  <2>. QED  BY <2>1, PositiveStep DEF Next, Quiescent
<1>3. Positive => NoneIsNegative
  BY DEF Positive
<1>. QED  BY <1>1, <1>2, <1>3, RoutesAreSound, PTL DEF Spec

-------------------------------------------------------------------------------
(***************************************************************************)
(* Retainers.  An application reads the retainer and the invoice, and      *)
(* writes back what it made of both: two may spend the same amount.  The   *)
(* row still says how the retainer splits, and spends no more than is      *)
(* there to be spent.                                                      *)
(***************************************************************************)
AppliedFrom(t) == AppliedOf({a \in applied : a.retainer = t})

RetainerSplits ==
  /\ \A t \in Retainers : /\ retainer[t].applied + retainer[t].unapplied = RetainerAmount[t]
                          /\ retainer[t].unapplied >= 0
                          /\ retainer[t].applied <= AppliedFrom(t)
  /\ \A a \in applied : a.amount <= RetainerAmount[a.retainer]

(* What a request remembers of the retainer splits as well.                *)
Splits(r) ==
  LET t == input[r].retainer
      row == seen[r].retainer
  IN pc[r] \in {"readTarget", "apply"} =>
       /\ row.applied + row.unapplied = RetainerAmount[t]
       /\ row.applied <= AppliedFrom(t)
       /\ input[r].amount <= row.unapplied
AppliedRows ==
  /\ IsFiniteSet(applied)
  /\ \A a \in applied : pc[a.by] = "done"
RetainerInv ==
  /\ AppliedRows
  /\ RetainerSplits
  /\ \A r \in Requests : Splits(r)

(* Sums over the rows of applications.                                     *)
(* Sums over the rows of applications.                                     *)
LEMMA AppliedSums ==
  ASSUME NEW S, IsFiniteSet(S), \A a \in S : a.amount \in Nat
  PROVE  /\ AppliedOf(S) \in Nat
         /\ \A a : a \notin S /\ a.amount \in Nat => AppliedOf(S \union {a}) = AppliedOf(S) + a.amount
<1>1. ASSUME NEW T, IsFiniteSet(T), \A a \in T : a.amount \in Nat
      PROVE  AppliedOf(T) = SumFunctionOnSet([a \in T |-> a.amount], T)
  BY DEF AppliedOf, SumFunction
<1>2. AppliedOf(S) \in Nat
  <2>. DEFINE f == [a \in S |-> a.amount]
  <2>1. \A a \in S : f[a] \in Nat
    OBVIOUS
  <2>. HIDE DEF f
  <2>2. SumFunctionOnSet(f, S) \in Nat
    BY <2>1, SumIsNat
  <2>. QED  BY <1>1, <2>2 DEF f
<1>3. ASSUME NEW a, a \notin S, a.amount \in Nat
      PROVE  AppliedOf(S \union {a}) = AppliedOf(S) + a.amount
  <2>. DEFINE f == [b \in S |-> b.amount]
              T == S \union {a}
              h == [b \in T |-> b.amount]
  <2>1. IsFiniteSet(T) /\ \A b \in T : b.amount \in Nat
    BY <1>3, FS_AddElement
  <2>2. \A b \in S \union {a} : h[b] \in Int
    BY <2>1
  <2>3. (\A b \in S : h[b] = f[b]) /\ h[a] = a.amount
    OBVIOUS
  <2>4. AppliedOf(T) = SumFunctionOnSet(h, T) /\ AppliedOf(S) = SumFunctionOnSet(f, S)
    <3>. HIDE DEF T
    <3>. QED  BY <1>1, <2>1
  <2>. HIDE DEF f, h
  <2>5. SumFunctionOnSet(h, S \union {a}) = SumFunctionOnSet(h, S) + h[a]
    BY <1>3, <2>2, SumAdd
  <2>6. SumFunctionOnSet(h, S) = SumFunctionOnSet(f, S)
    BY <2>3, SumCongruence
  <2>. QED  BY <2>3, <2>4, <2>5, <2>6
<1>. QED  BY <1>2, <1>3

LEMMA AppliedTypes ==
  ASSUME TypeOK, AppliedRows
  PROVE  \A t : IsFiniteSet({a \in applied : a.retainer = t}) /\ AppliedFrom(t) \in Nat
<1>1. \A a \in applied : a.amount \in Nat
  BY DEF TypeOK
<1>2. \A S \in SUBSET applied : IsFiniteSet(S)
  BY FS_Subset DEF AppliedRows
<1>. QED  BY <1>1, <1>2, AppliedSums DEF AppliedFrom

LEMMA NothingApplied == AppliedOf({}) = 0
<1>. DEFINE f == [a \in {} |-> a.amount]
<1>1. DOMAIN f = {} /\ AppliedOf({}) = SumFunction(f)
  BY DEF AppliedOf
<1>. HIDE DEF f
<1>. QED  BY <1>1, SumEmpty DEF SumFunction

(* Which steps move retainers, applications and what is paid, and which    *)
(* lead to a statement that does.                                          *)
LEMMA FundSteps ==
  ASSUME TypeOK, PathOK, Sound, NEW r \in Requests, Step(r)
  PROVE  /\ UNCHANGED <<retainer, applied>> \/ Apply(r) \/ Release(r)
         /\ pc'[r] = "readTarget" => ReadRetainer(r)
         /\ pc'[r] = "apply" => ReadTarget(r)
         /\ pc'[r] = "pay" => ReadBalance(r)
<1>1. CASE Begin(r)
  <2>1. input[r].kind \in Kinds
    BY DEF PathOK, Body
  <2>2. FirstStep[input[r].kind] \notin {"readTarget", "apply", "pay"}
    BY <2>1, FirstStepIs DEF Kinds
  <2>. QED  BY <1>1, <2>2 DEF Begin, rows, funds, TypeOK
<1>2. CASE \/ ReadItems(r) \/ ReadLines(r) \/ CountInvoices(r) \/ ReadItem(r) \/ ReadVoided(r)
  BY <1>2, ReadsFrame DEF rows, funds, ReadItems, ReadLines, CountInvoices, ReadItem, ReadVoided, Read,
                          Goto, Finish, TypeOK
<1>3. CASE \/ ReadUnpaid(r) \/ ReadDraft(r) \/ ReadApproval(r) \/ IssueOther(r) \/ ReadBalance(r)
  BY <1>3, ReadsFrame DEF rows, funds, ReadUnpaid, ReadDraft, ReadApproval, IssueOther, ReadBalance, Read,
                          Goto, Finish, TypeOK
<1>4. CASE \/ ReadCredited(r) \/ ReadNote(r) \/ ReadNoted(r) \/ ReadRetainer(r) \/ ReadTarget(r)
           \/ ReadRelease(r)
  BY <1>4, ReadsFrame DEF rows, funds, ReadCredited, ReadNote, ReadNoted, ReadRetainer, ReadTarget,
                          ReadRelease, Read, Goto, Finish, TypeOK
<1>5. CASE CreateInvoice(r) \/ LockBilled(r) \/ Void(r) \/ Cancel(r) \/ InsertInvoice(r)
  BY <1>5 DEF CreateInvoice, LockBilled, Void, Cancel, InsertInvoice, Goto, Finish, TypeOK, funds
<1>6. CASE RejectNumber(r) \/ Abort(r)
  BY <1>6 DEF RejectNumber, Abort, Goto, Finish, TypeOK, rows, funds
<1>7. CASE SubmitInvoice(r) \/ Reroute(r) \/ IssueWaiting(r) \/ PostOther(r) \/ Unsubmit(r) \/ Pay(r)
  BY <1>7 DEF SubmitInvoice, Reroute, IssueWaiting, PostOther, Unsubmit, Pay, Goto, Finish, TypeOK, funds
<1>8. CASE Credit(r) \/ VoidCredit(r) \/ Apply(r) \/ Release(r)
  BY <1>8 DEF Credit, VoidCredit, Apply, Release, Goto, Finish, TypeOK
<1>9. CASE Decide(r)
  BY <1>9 DEF Decide, Hook, Goto, Finish, TypeOK, funds
<1>. QED  BY <1>1, <1>2, <1>3, <1>4, <1>5, <1>6, <1>7, <1>8, <1>9 DEF Step

(* What an application adds to the sum of its retainer.                    *)
LEMMA ApplyAdds ==
  ASSUME TypeOK, PathOK, Sound, AppliedRows, NEW r \in Requests, Apply(r)
  PROVE  /\ AppliedRows'
         /\ \A t : AppliedFrom(t)' = AppliedFrom(t) + (IF t = input[r].retainer THEN input[r].amount ELSE 0)
<1>. DEFINE new == [by |-> r, retainer |-> input[r].retainer, invoice |-> input[r].invoice,
                    amount |-> input[r].amount]
<1>1. applied' = applied \union {new} /\ pc[r] = "apply" /\ pc' = [pc EXCEPT ![r] = "done"]
  BY DEF Apply, Finish, Goto
<1>2. new.by = r /\ new.retainer = input[r].retainer /\ new.amount = input[r].amount
      /\ input[r].amount \in Nat
  BY BodyNames
<1>. HIDE DEF new
<1>3. new \notin applied
  BY <1>1, <1>2 DEF AppliedRows
<1>4. \A a \in applied : a.amount \in Nat
  BY DEF TypeOK
<1>5. ASSUME NEW S \in SUBSET applied
      PROVE  AppliedOf(S \union {new}) = AppliedOf(S) + input[r].amount
  <2>1. IsFiniteSet(S) /\ new \notin S /\ \A a \in S : a.amount \in Nat
    BY <1>3, <1>4, FS_Subset DEF AppliedRows
  <2>. QED  BY <1>2, <2>1, AppliedSums
<1>6. AppliedRows'
  <2>1. IsFiniteSet(applied')
    BY <1>1, FS_AddElement DEF AppliedRows
  <2>2. \A a \in applied' : pc'[a.by] = "done"
    BY <1>1, <1>2 DEF AppliedRows, TypeOK
  <2>. QED  BY <2>1, <2>2 DEF AppliedRows
<1>7. ASSUME NEW t
      PROVE  AppliedFrom(t)' = AppliedFrom(t) + (IF t = input[r].retainer THEN input[r].amount ELSE 0)
  <2>. DEFINE S == {a \in applied : a.retainer = t}
              T == {a \in applied' : a.retainer = t}
  <2>1. AppliedFrom(t)' = AppliedOf(T) /\ AppliedFrom(t) = AppliedOf(S) /\ AppliedFrom(t) \in Nat
    BY AppliedTypes DEF AppliedFrom, AppliedOf
  <2>2. CASE t = input[r].retainer
    <3>1. T = S \union {new}
      BY <1>1, <1>2, <2>2
    <3>2. AppliedOf(S \union {new}) = AppliedOf(S) + input[r].amount
      BY <1>5
    <3>. HIDE DEF S, T
    <3>. QED  BY <2>1, <2>2, <3>1, <3>2
  <2>3. CASE t # input[r].retainer
    <3>1. T = S
      BY <1>1, <1>2, <2>3
    <3>. HIDE DEF S, T
    <3>. QED  BY <2>1, <2>3, <3>1
  <2>. QED  BY <2>2, <2>3
<1>. QED  BY <1>6, <1>7

(* Steps that apply nothing leave retainers, applications and sums.        *)
LEMMA OtherKeeps ==
  ASSUME TypeOK, PathOK, Sound, RetainerInv, NEW r \in Requests, Step(r), ~Apply(r)
  PROVE  /\ AppliedRows'
         /\ applied' = applied
         /\ \A t : AppliedFrom(t)' = AppliedFrom(t)
         /\ \A t \in Retainers : /\ retainer'[t].applied = retainer[t].applied
                                 /\ retainer'[t].unapplied = retainer[t].unapplied
<1>1. applied' = applied
  BY FundSteps DEF Release
<1>2. \A t \in Retainers : /\ retainer'[t].applied = retainer[t].applied
                           /\ retainer'[t].unapplied = retainer[t].unapplied
  <2>1. CASE Release(r)
    BY <2>1, Named DEF Release, TypeOK, RetainerRow
  <2>. QED  BY <2>1, FundSteps
<1>3. AppliedRows'
  <2>1. ASSUME NEW a \in applied PROVE pc'[a.by] = "done"
    <3>1. pc[a.by] = "done" /\ a.by \in Requests
      BY DEF RetainerInv, AppliedRows, TypeOK
    <3>2. a.by # r
      BY <3>1, ItemSteps DEF Begin, Working
    <3>. QED  BY <3>1, <3>2, Changes
  <2>. QED  BY <1>1, <2>1 DEF AppliedRows, RetainerInv
<1>4. \A t : AppliedFrom(t)' = AppliedFrom(t)
  BY <1>1 DEF AppliedFrom, AppliedOf
<1>. QED  BY <1>1, <1>2, <1>3, <1>4

LEMMA ApplySplits ==
  ASSUME TypeOK, PathOK, Sound, RetainerInv, NEW r \in Requests, Apply(r)
  PROVE  RetainerSplits' /\ \A t : AppliedFrom(t) <= AppliedFrom(t)'
<1>. DEFINE s == input[r].retainer
            amount == input[r].amount
            row == seen[r].retainer
<1>1. /\ pc[r] = "apply" /\ s \in Retainers /\ amount \in Nat
      /\ row \in RetainerRow
  BY Named, BodyNames DEF Apply, TypeOK, SeenType
<1>2. row.applied + row.unapplied = RetainerAmount[s] /\ row.applied <= AppliedFrom(s)
      /\ amount <= row.unapplied
  BY <1>1 DEF RetainerInv, Splits
<1>3. /\ \A t : AppliedFrom(t) \in Nat
      /\ \A t : AppliedFrom(t)' = AppliedFrom(t) + (IF t = s THEN amount ELSE 0)
  BY ApplyAdds, AppliedTypes DEF RetainerInv
<1>4. /\ retainer'[s].unapplied = row.unapplied - amount
      /\ retainer'[s].applied = row.applied + amount
      /\ \A t \in Retainers : t # s => retainer'[t] = retainer[t]
  BY <1>1 DEF Apply, TypeOK
<1>5. \A a \in applied' : a \in applied \/ (a.amount = amount /\ a.retainer = s)
  BY DEF Apply
<1>6. row.applied \in Nat /\ row.unapplied \in Int
  BY <1>1 DEF RetainerRow
<1>. HIDE DEF s, amount, row
<1>7. ASSUME NEW t \in Retainers
      PROVE  /\ retainer'[t].applied + retainer'[t].unapplied = RetainerAmount[t]
             /\ retainer'[t].unapplied >= 0
             /\ retainer'[t].applied <= AppliedFrom(t)'
  <2>1. CASE t = s
    <3>1. AppliedFrom(t)' = AppliedFrom(t) + amount /\ AppliedFrom(t) \in Nat
      BY <1>3, <2>1
    <3>. QED  BY <1>1, <1>2, <1>4, <1>6, <2>1, <3>1
  <2>2. CASE t # s
    <3>1. AppliedFrom(t)' = AppliedFrom(t)
      BY <1>3, <2>2
    <3>. QED  BY <1>4, <2>2, <3>1 DEF RetainerInv, RetainerSplits
  <2>. QED  BY <2>1, <2>2
<1>8. ASSUME NEW a \in applied' PROVE a.amount <= RetainerAmount[a.retainer]
  <2>1. amount <= RetainerAmount[s]
    BY <1>1, <1>2, <1>6
  <2>. QED  BY <1>5, <2>1 DEF RetainerInv, RetainerSplits
<1>9. ASSUME NEW t PROVE AppliedFrom(t) <= AppliedFrom(t)'
  BY <1>1, <1>3
<1>. QED  BY <1>7, <1>8, <1>9 DEF RetainerSplits

LEMMA RetainerStep ==
  ASSUME TypeOK, PathOK, Sound, RetainerInv, NEW r \in Requests, Step(r)
  PROVE  RetainerInv'
<1>0. input' = input /\ \A q \in Requests \ {r} : pc'[q] = pc[q] /\ seen'[q] = seen[q]
  BY Changes
<1>1. \A t : AppliedFrom(t) <= AppliedFrom(t)' /\ AppliedFrom(t) \in Nat /\ AppliedFrom(t)' \in Nat
  <2>1. \A t : AppliedFrom(t) \in Nat
    BY AppliedTypes DEF RetainerInv
  <2>2. CASE Apply(r)
    <3>1. input[r].amount \in Nat
      BY BodyNames
    <3>2. \A t : AppliedFrom(t)' = AppliedFrom(t) + (IF t = input[r].retainer THEN input[r].amount ELSE 0)
      BY <2>2, ApplyAdds DEF RetainerInv
    <3>. QED  BY <2>1, <3>1, <3>2
  <2>3. CASE ~Apply(r)
    BY <2>1, <2>3, OtherKeeps
  <2>. QED  BY <2>2, <2>3
<1>2. AppliedRows' /\ RetainerSplits'
  <2>1. CASE Apply(r)
    BY <2>1, ApplyAdds, ApplySplits DEF RetainerInv
  <2>2. CASE ~Apply(r)
    <3>1. /\ AppliedRows' /\ applied' = applied
          /\ \A t : AppliedFrom(t)' = AppliedFrom(t)
          /\ \A t \in Retainers : /\ retainer'[t].applied = retainer[t].applied
                                  /\ retainer'[t].unapplied = retainer[t].unapplied
      BY <2>2, OtherKeeps
    <3>. QED  BY <3>1 DEF RetainerInv, RetainerSplits
  <2>. QED  BY <2>1, <2>2
<1>3. ASSUME NEW q \in Requests \ {r} PROVE Splits(q)'
  <2>1. Splits(q) /\ seen[q].retainer \in RetainerRow
    BY DEF RetainerInv, TypeOK, SeenType
  <2>2. pc'[q] = pc[q] /\ seen'[q] = seen[q] /\ input'[q] = input[q]
    BY <1>0
  <2>3. ASSUME seen[q].retainer.applied <= AppliedFrom(input[q].retainer)
        PROVE  seen[q].retainer.applied <= AppliedFrom(input[q].retainer)'
    <3>1. seen[q].retainer.applied \in Nat
      BY <2>1 DEF RetainerRow
    <3>. DEFINE t == input[q].retainer
    <3>2. AppliedFrom(t) <= AppliedFrom(input[q].retainer)' /\ AppliedFrom(t) \in Nat
          /\ AppliedFrom(input[q].retainer)' \in Nat
      BY <1>1, <2>2 DEF AppliedFrom
    <3>. QED  BY <2>3, <3>1, <3>2
  <2>. QED  BY <2>1, <2>2, <2>3 DEF Splits
<1>4. Splits(r)'
  <2>1. CASE ReadRetainer(r)
    <3>. DEFINE row == retainer[input[r].retainer]
    <3>1. /\ pc'[r] # "apply"
          /\ pc'[r] = "readTarget" => seen'[r].retainer = row /\ input[r].amount <= row.unapplied
      BY <2>1 DEF ReadRetainer, Read, Goto, Finish, TypeOK, SeenType
    <3>2. input[r].retainer \in Retainers /\ applied' = applied
      BY <2>1, Named, ReadsFrame DEF ReadRetainer, rows, funds
    <3>3. row.applied + row.unapplied = RetainerAmount[input[r].retainer]
          /\ row.applied <= AppliedFrom(input[r].retainer)
      BY <3>2 DEF RetainerInv, RetainerSplits
    <3>. QED  BY <1>0, <3>1, <3>2, <3>3 DEF Splits, AppliedFrom, AppliedOf
  <2>2. CASE ReadTarget(r)
    <3>1. pc[r] = "readTarget" /\ pc'[r] # "readTarget"
      BY <2>2 DEF ReadTarget, Read, Goto, Finish, TypeOK
    <3>2. pc'[r] = "apply" => seen'[r].retainer = seen[r].retainer
      BY <2>2 DEF ReadTarget, Read, Goto, Finish, TypeOK, SeenType
    <3>3. applied' = applied
      BY <2>2, ReadsFrame DEF rows, funds
    <3>. QED  BY <1>0, <3>1, <3>2, <3>3 DEF RetainerInv, Splits, AppliedFrom, AppliedOf
  <2>3. CASE pc'[r] \notin {"readTarget", "apply"}
    BY <2>3 DEF Splits
  <2>. QED  BY <2>1, <2>2, <2>3, FundSteps
<1>. QED  BY <1>2, <1>3, <1>4 DEF RetainerInv

LEMMA RetainerInit == Init => RetainerInv
<1>. SUFFICES ASSUME Init PROVE RetainerInv
  OBVIOUS
<1>1. /\ \A r \in Requests : pc[r] = "idle"
      /\ applied = {}
      /\ \A t \in Retainers : retainer[t].applied = 0 /\ retainer[t].unapplied = RetainerAmount[t]
  BY DEF Init
<1>2. \A t : {a \in applied : a.retainer = t} = {}
  BY <1>1
<1>3. \A t \in Retainers : AppliedFrom(t) = 0 /\ RetainerAmount[t] \in Nat
  BY <1>2, NothingApplied, ConstantsAssumption DEF AppliedFrom
<1>4. RetainerSplits
  BY <1>1, <1>3 DEF RetainerSplits
<1>. QED  BY <1>1, <1>4, FS_EmptySet DEF RetainerInv, AppliedRows, Splits

(* However applications and releases overlap and fail, a retainer is what  *)
(* its row says was applied and what it says is left, which is never       *)
(* negative; what the row says was applied is in the rows of applications, *)
(* none of which is of more than the retainer.                             *)
THEOREM RetainersAddUp == Spec => []RetainerSplits
<1>1. TypeOK /\ PathOK /\ Sound /\ RetainerInv /\ [Next]_vars => RetainerInv'
  <2>. SUFFICES ASSUME TypeOK, PathOK, Sound, RetainerInv, [Next]_vars PROVE RetainerInv'
    OBVIOUS
  <2>1. CASE UNCHANGED vars
    BY <2>1 DEF vars, rows, funds, RetainerInv, AppliedRows, RetainerSplits, Splits, AppliedOf, AppliedFrom
  <2>. QED  BY <2>1, RetainerStep DEF Next, Quiescent
<1>2. RetainerInv => RetainerSplits
  BY DEF RetainerInv
<1>. QED  BY <1>1, <1>2, RetainerInit, RoutesAreSound, PTL DEF Spec
===============================================================================
