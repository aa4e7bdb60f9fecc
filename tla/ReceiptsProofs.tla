----------------------------- MODULE ReceiptsProofs -----------------------------
(***************************************************************************)
(* Theorems about Receipts, for any number of receipts, invoices, refunds, *)
(* requests and parts, and any amounts.                                    *)
(***************************************************************************)
EXTENDS Receipts, SetSumsTheorems

(***************************************************************************)
(* The types the specification leaves out: rows, entries and transactions. *)
(***************************************************************************)
EntryTypes == {"RECEIPT", "ALLOCATION", "REFUND", "RECEIPT_REVERSAL", "ALLOCATION_REVERSAL"}
EntryType == [type : EntryTypes, receipt : ReceiptIds, about : ReceiptIds \union Invoices \union Refunds,
              amount : Nat, cleared : Nat]
PaidType == UNION {[D -> Nat] : D \in SUBSET Invoices}
TxType == [n : Nat, number : Nat, allocated : Nat, list : SUBSET RowType, gone : SUBSET RowType,
           todo : SUBSET Invoices, invoice : Invoices \union {Fresh.invoice}, paid : PaidType,
           draft : SUBSET EntryType]
Pcs == InTx \union Autocommit \union Finished \union {"idle"}

StateOK ==
  /\ TypeOK
  /\ input \in Workloads
  /\ allocations \subseteq RowType
  /\ IsFiniteSet(allocations)
  /\ journals \subseteq EntryType
  /\ tx \in [Requests -> TxType]
  /\ \A r \in Requests : IsFiniteSet(tx[r].draft)

(* A request only runs the statements of its kind of body, and the part it *)
(* is at is one of its body.                                               *)
Ends == {"idle", "done", "failed"}
Allocating == {"readDeposit", "allocateDeposits", "allocateReceivable", "postAllocation",
               "decrement", "recompute", "writeInvoice", "closeReceipt"}
Inserted == {"allocateDeposits", "allocateReceivable", "postAllocation", "decrement",
             "recompute", "writeInvoice"}
Closing == {"closeReceipt", "receiptBank", "receiptReceivable", "receiptDeposits", "postReceipt",
            "commit"}
PathOf ==
  [CREATE   |-> Ends \union Allocating
                 \union {"number", "insertReceipt", "readReceipt", "readInvoices", "receiptBank",
                         "receiptReceivable", "receiptDeposits", "postReceipt", "commit"},
   ALLOCATE |-> Ends \union Allocating \union {"readReceipt", "readInvoices", "commit"},
   REVERSE  |-> Ends \union {"readReversed", "listRows", "deleteRows", "reverseAllocation", "increment",
                             "recompute", "writeInvoice", "reverseReceipt", "markReversed",
                             "closeReversal", "commit"},
   REFUND   |-> Ends \union {"readRefundable", "insertRefund"},
   APPROVE  |-> Ends \union {"readPending", "decide"},
   REJECT   |-> Ends \union {"readPending", "decide"},
   PAY      |-> Ends \union {"readApproved", "refundDeposits", "checkPosting", "refundBank",
                             "postRefund", "deduct", "payRefund", "commit"}]

OnPath(p, in, t) ==
  /\ p \in PathOf[in.kind]
  /\ t.n <= Len(in.parts)
  /\ p \in {"readReceipt", "readInvoices"} => in.parts # <<>>
  /\ p = "readDeposit" => t.n < Len(in.parts)
  /\ p \notin Allocating \union {"receiptBank", "receiptReceivable", "receiptDeposits",
                                 "postReceipt", "commit"} => t.n = 0
  /\ in.kind \notin {"CREATE", "ALLOCATE"} => t.n = 0
  /\ in.kind \in {"CREATE", "ALLOCATE"} /\ p \in Closing => t.n = Len(in.parts)
  /\ \A a \in t.gone : a.receipt = in.receipt
  /\ in.kind # "REVERSE" =>
       /\ t.gone = {} /\ t.list = {} /\ t.todo = {}
       /\ p \in Inserted => t.n > 0 /\ t.invoice = in.parts[t.n].invoice

PathOK == \A r \in Requests : OnPath(pc[r], input[r], tx[r])

TypeInv == StateOK /\ PathOK

-------------------------------------------------------------------------------
(* What a request is about. *)
LEMMA BodyType ==
  ASSUME input \in Workloads, NEW r \in Requests
  PROVE  input[r] \in InputType /\ WellFormed(input[r])
BY ConstantsAssumption

LEMMA PartType ==
  ASSUME input \in Workloads, NEW r \in Requests, NEW k \in 1..Len(input[r].parts)
  PROVE  /\ input[r].parts[k] \in Part
         /\ input[r].parts[k].invoice \in Invoices
         /\ input[r].parts[k].amount \in Nat \ {0}
<1>1. input[r].parts \in Seq(Part)
  BY BodyType DEF InputType
<1>2. input[r].parts[k] \in Part
  BY <1>1
<1>. QED  BY <1>2 DEF Part

LEMMA OwnRowsType ==
  ASSUME input \in Workloads, NEW r \in Requests, tx[r].n \in Nat, tx[r].n <= Len(input[r].parts)
  PROVE  OwnRows(r) \subseteq RowType /\ IsFiniteSet(OwnRows(r))
<1>. DEFINE row(k) == [by |-> r, n |-> k, receipt |-> input[r].receipt,
                       invoice |-> input[r].parts[k].invoice, amount |-> input[r].parts[k].amount]
<1>1. input[r].receipt \in ReceiptIds /\ Len(input[r].parts) \in Nat
  BY BodyType DEF InputType
<1>2. ASSUME NEW k \in 1..tx[r].n PROVE row(k) \in RowType
  <2>1. k \in 1..Len(input[r].parts) /\ k \in Nat
    BY <1>1
  <2>. QED  BY <1>1, <2>1, PartType DEF RowType
<1>3. OwnRows(r) = {row(k) : k \in 1..tx[r].n}
  BY DEF OwnRows
<1>4. IsFiniteSet(1..tx[r].n)
  BY FS_Interval
<1>. DEFINE f == [k \in 1..tx[r].n |-> row(k)]
<1>5. OwnRows(r) = {f[k] : k \in 1..tx[r].n}
  BY <1>3
<1>. HIDE DEF row
<1>6. IsFiniteSet({f[k] : k \in 1..tx[r].n})
  BY <1>4, FiniteRange
<1>. QED  BY <1>2, <1>3, <1>5, <1>6

(* The amount of a finite set of rows. *)
LEMMA AppliedIsNat ==
  ASSUME NEW S, IsFiniteSet(S), \A a \in S : a.amount \in Nat
  PROVE  Applied(S) \in Nat
<1>. DEFINE f == [a \in S |-> a.amount]
<1>1. \A a \in S : f[a] \in Nat
  OBVIOUS
<1>2. DOMAIN f = S
  OBVIOUS
<1>. HIDE DEF f
<1>3. SumFunctionOnSet(f, S) \in Nat
  BY <1>1, SumIsNat
<1>. QED  BY <1>2, <1>3 DEF Applied, SumFunction, f

LEMMA FreshType ==
  ASSUME NEW in \in InputType
  PROVE  /\ Fresh \in TxType
         /\ Fresh.draft = {} /\ Fresh.n = 0 /\ Fresh.gone = {} /\ Fresh.list = {}
         /\ Fresh.todo = {} /\ Fresh.paid = <<>> /\ IsFiniteSet(Fresh.draft)
         /\ \A p \in Ends : OnPath(p, in, Fresh)
<1>1. IsFiniteSet({})
  BY FS_EmptySet
<1>2. <<>> \in [{} -> Nat] /\ {} \in SUBSET Invoices
  OBVIOUS
<1>3. <<>> \in PaidType
  BY <1>2 DEF PaidType
<1>4. /\ Fresh \in TxType
      /\ Fresh.draft = {} /\ Fresh.n = 0 /\ Fresh.gone = {} /\ Fresh.list = {}
      /\ Fresh.todo = {} /\ Fresh.paid = <<>>
  BY <1>3 DEF Fresh, TxType
<1>5. ASSUME NEW p \in Ends PROVE OnPath(p, in, Fresh)
  <2>1. Len(in.parts) \in Nat /\ in.kind \in Kinds
    BY DEF InputType
  <2>2. p \in PathOf[in.kind]
    BY <2>1, <1>5 DEF PathOf, Kinds
  <2>3. p \notin Inserted \union Closing \union {"readReceipt", "readInvoices", "readDeposit"}
    BY DEF Ends, Inserted, Closing
  <2>. QED  BY <1>4, <2>1, <2>2, <2>3 DEF OnPath
<1>. QED  BY <1>1, <1>4, <1>5

(* The entries and the rows that the constants give. *)
LEMMA EntriesType ==
  /\ \A rc \in ReceiptIds, c \in Nat : ReceiptEntry(rc, c) \in EntryType
  /\ \A a \in RowType : AllocationEntry(a) \in EntryType
  /\ \A f \in Refunds : RefundEntry(f) \in EntryType
  /\ \A e \in EntryType : ReversalOf(e) \in EntryType
  /\ \A e \in EntryType : ReceivableLine(e) \in Int /\ DepositLine(e) \in Int
<1>1. \A rc \in ReceiptIds, c \in Nat : ReceiptEntry(rc, c) \in EntryType
  BY ConstantsAssumption DEF ReceiptEntry, EntryType, EntryTypes
<1>2. \A a \in RowType : AllocationEntry(a) \in EntryType
  BY DEF AllocationEntry, RowType, EntryType, EntryTypes
<1>3. \A f \in Refunds : RefundEntry(f) \in EntryType
  BY ConstantsAssumption DEF RefundEntry, EntryType, EntryTypes
<1>4. \A e \in EntryType : ReversalOf(e) \in EntryType
  BY DEF ReversalOf, EntryType, EntryTypes
<1>5. \A e \in EntryType : ReceivableLine(e) \in Int /\ DepositLine(e) \in Int
  BY DEF ReceivableLine, DepositLine, EntryType, EntryTypes
<1>. QED  BY <1>1, <1>2, <1>3, <1>4, <1>5

LEMMA AmountOfRows ==
  ASSUME NEW S, IsFiniteSet(S), S \subseteq RowType, NEW T, T \subseteq S
  PROVE  IsFiniteSet(T) /\ Applied(T) \in Nat
<1>1. IsFiniteSet(T)
  BY FS_Subset
<1>2. \A a \in T : a.amount \in Nat
  BY DEF RowType
<1>. QED  BY <1>1, <1>2, AppliedIsNat

LEMMA InitTypeInv ==
  ASSUME Init
  PROVE  TypeInv
<1>. DEFINE allocated == [rc \in ReceiptIds |-> Applied(RowsOf(Opening, rc))]
<1>1. allocated \in [ReceiptIds -> Nat]
  <2>1. \A rc \in ReceiptIds : RowsOf(Opening, rc) \subseteq Opening
    BY DEF RowsOf
  <2>2. \A rc \in ReceiptIds : Applied(RowsOf(Opening, rc)) \in Nat
    BY <2>1, ConstantsAssumption, AmountOfRows
  <2>. QED  BY <2>2
<1>2. paidAmount \in [Invoices -> Nat]
  <2>1. \A i \in Invoices : RowsFor(Opening, i) \subseteq Opening
    BY DEF RowsFor
  <2>2. \A i \in Invoices : Applied(RowsFor(Opening, i)) \in Nat
    BY <2>1, ConstantsAssumption, AmountOfRows
  <2>. QED  BY <2>2 DEF Init
<1>3. receiptNumber \in [ReceiptIds -> Nat]
  <2>1. Cardinality(Posted) \in Nat
    BY ConstantsAssumption, FS_Subset, FS_CardinalityType
  <2>. QED  BY <2>1 DEF Init
<1>4. /\ receiptStatus = [rc \in ReceiptIds |->
                            IF rc \in Posted THEN StatusAt(rc, allocated[rc]) ELSE "ABSENT"]
      /\ unallocated = [rc \in ReceiptIds |->
                          IF rc \in Posted THEN Amount[rc] - allocated[rc] ELSE 0]
      /\ receivable = allocated /\ deposits = unallocated
  BY DEF Init
<1>. HIDE DEF allocated
<1>5. TypeOK
  <2>1. receiptStatus \in [ReceiptIds -> {"ABSENT", "RECEIVED", "PARTIALLY_ALLOCATED",
                                          "ALLOCATED", "REVERSED"}]
    BY <1>1, <1>4 DEF StatusAt
  <2>2. unallocated \in [ReceiptIds -> Int] /\ receivable \in [ReceiptIds -> Int]
    BY <1>1, <1>4, ConstantsAssumption
  <2>3. /\ refundStatus \in [Refunds -> {"ABSENT", "PENDING_APPROVAL", "APPROVED", "REJECTED", "PAID"}]
        /\ pc \in [Requests -> InTx \union Autocommit \union Finished \union {"idle"}]
        /\ rowLock \in [Rows -> Requests \union {NoRequest}]
    BY DEF Init
  <2>. QED  BY <1>2, <1>3, <1>4, <2>1, <2>2, <2>3 DEF TypeOK
<1>6. input \in Workloads
  BY DEF Init
<1>7. \A r \in Requests :
        /\ tx[r] = Fresh /\ pc[r] = "idle" /\ Fresh \in TxType /\ IsFiniteSet(Fresh.draft)
        /\ OnPath("idle", input[r], Fresh)
  BY <1>6, BodyType, FreshType DEF Init, Ends
<1>8. journals \subseteq EntryType
  <2>1. \A rc \in Posted : ReceiptEntry(rc, 0) \in EntryType
    BY EntriesType, ConstantsAssumption
  <2>2. \A a \in Opening : AllocationEntry(a) \in EntryType
    BY EntriesType, ConstantsAssumption
  <2>. QED  BY <2>1, <2>2 DEF Init
<1>9. StateOK
  <2>1. tx \in [Requests -> TxType]
    BY <1>7 DEF Init
  <2>2. allocations \subseteq RowType /\ IsFiniteSet(allocations)
    BY ConstantsAssumption DEF Init
  <2>. QED  BY <1>5, <1>6, <1>7, <1>8, <2>1, <2>2 DEF StateOK
<1>. QED  BY <1>7, <1>9 DEF TypeInv, PathOK

-------------------------------------------------------------------------------
(* A step of one request leaves the others alone. *)
Moves(r, label, seen) ==
  /\ pc' = [pc EXCEPT ![r] = label]
  /\ tx' = [tx EXCEPT ![r] = seen]
  /\ input' = input

LEMMA MoveOf ==
  ASSUME TypeInv, NEW r \in Requests, NEW label, NEW seen, Moves(r, label, seen)
  PROVE  /\ pc'[r] = label /\ tx'[r] = seen /\ input' = input
         /\ \A q \in Requests \ {r} : pc'[q] = pc[q] /\ tx'[q] = tx[q]
BY DEF TypeInv, StateOK, TypeOK, Moves

LEMMA MoveTypeInv ==
  ASSUME TypeInv, NEW r \in Requests, NEW label, NEW seen \in TxType,
         Moves(r, label, seen), IsFiniteSet(seen.draft), OnPath(label, input[r], seen)
  PROVE  /\ pc' \in [Requests -> Pcs] /\ tx' \in [Requests -> TxType] /\ input' \in Workloads
         /\ \A q \in Requests : IsFiniteSet(tx'[q].draft)
         /\ PathOK'
<1>1. label \in Pcs
  <2>1. input[r].kind \in Kinds
    BY BodyType DEF TypeInv, StateOK, InputType
  <2>. QED  BY <2>1 DEF OnPath, PathOf, Kinds, Pcs, Ends, Allocating, InTx, Autocommit, Finished
<1>2. pc' \in [Requests -> Pcs] /\ tx' \in [Requests -> TxType] /\ input' \in Workloads
  BY <1>1 DEF TypeInv, StateOK, TypeOK, Moves, Pcs
<1>3. /\ pc'[r] = label /\ tx'[r] = seen /\ input' = input
      /\ \A q \in Requests \ {r} : pc'[q] = pc[q] /\ tx'[q] = tx[q]
  BY MoveOf
<1>4. \A q \in Requests : IsFiniteSet(tx'[q].draft)
  BY <1>3 DEF TypeInv, StateOK
<1>5. \A q \in Requests : OnPath(pc'[q], input'[q], tx'[q])
  BY <1>3 DEF TypeInv, PathOK
<1>6. PathOK'
  BY <1>5 DEF PathOK
<1>. QED  BY <1>2, <1>4, <1>6

(* What a step leaves that writes nothing to the database. *)
Quiet(r) ==
  /\ \E label, seen : /\ seen \in TxType /\ IsFiniteSet(seen.draft)
                      /\ OnPath(label, input[r], seen)
                      /\ Moves(r, label, seen)
  /\ UNCHANGED money
  /\ rowLock' \in [Rows -> Requests \union {NoRequest}]

Passes(r, label, seen) ==
  Goto(r, label) /\ tx' = [tx EXCEPT ![r] = seen] /\ UNCHANGED <<money, input, rowLock>>

LEMMA AnswerMoves ==
  ASSUME TypeInv, NEW r \in Requests, NEW label, Answer(r, label)
  PROVE  Moves(r, label, Fresh) /\ rowLock' \in [Rows -> Requests \union {NoRequest}]
BY DEF Answer, Goto, FreeRows, Moves, TypeInv, StateOK, TypeOK

LEMMA RollbackQuiet ==
  ASSUME TypeInv, NEW r \in Requests, Rollback(r)
  PROVE  Quiet(r)
<1>1. Moves(r, "failed", Fresh) /\ rowLock' \in [Rows -> Requests \union {NoRequest}]
  BY AnswerMoves DEF Rollback
<1>2. Fresh \in TxType /\ IsFiniteSet(Fresh.draft) /\ OnPath("failed", input[r], Fresh)
  BY BodyType, FreshType DEF TypeInv, StateOK, Ends
<1>. QED  BY <1>1, <1>2 DEF Quiet, Rollback

LEMMA PassQuiet ==
  ASSUME TypeInv, NEW r \in Requests, NEW label, NEW seen, Passes(r, label, seen),
         seen \in TxType, IsFiniteSet(seen.draft), OnPath(label, input[r], seen)
  PROVE  Quiet(r)
<1>1. Moves(r, label, seen) /\ UNCHANGED money /\ rowLock' = rowLock
  BY DEF Passes, Goto, Moves
<1>. QED  BY <1>1 DEF Quiet, TypeInv, StateOK, TypeOK

LEMMA ReadQuiet ==
  ASSUME TypeInv, NEW r \in Requests, NEW label, Rollback(r) \/ Passes(r, label, tx[r]),
         OnPath(label, input[r], tx[r])
  PROVE  Quiet(r)
<1>1. tx[r] \in TxType /\ IsFiniteSet(tx[r].draft)
  BY DEF TypeInv, StateOK
<1>. QED  BY <1>1, RollbackQuiet, PassQuiet

LEMMA UpdateQuiet ==
  ASSUME TypeInv, NEW r \in Requests, NEW label, NEW row, Update(r, row, label),
         OnPath(label, input[r], tx[r])
  PROVE  Quiet(r)
<1>1. tx[r] \in TxType /\ IsFiniteSet(tx[r].draft) /\ tx = [tx EXCEPT ![r] = tx[r]]
  BY DEF TypeInv, StateOK
<1>2. Moves(r, label, tx[r]) /\ UNCHANGED money
  BY <1>1 DEF Update, Goto, Moves
<1>3. rowLock' \in [Rows -> Requests \union {NoRequest}]
  BY DEF Update, TypeInv, StateOK, TypeOK
<1>. QED  BY <1>1, <1>2, <1>3 DEF Quiet

LEMMA PostQuiet ==
  ASSUME TypeInv, NEW r \in Requests, NEW label, NEW e, NEW seen, Post(r, e, label, seen),
         e \in EntryType, seen \in TxType, IsFiniteSet(seen.draft), OnPath(label, input[r], seen)
  PROVE  Quiet(r)
<1>. DEFINE wrote == [seen EXCEPT !.draft = @ \union {e}]
<1>1. wrote \in TxType /\ IsFiniteSet(wrote.draft)
  BY FS_AddElement DEF TxType
<1>2. OnPath(label, input[r], wrote)
  BY <1>1 DEF OnPath, TxType
<1>3. Rollback(r) \/ Passes(r, label, wrote)
  BY DEF Post, Read, Passes
<1>. HIDE DEF wrote
<1>. QED  BY <1>1, <1>2, <1>3, RollbackQuiet, PassQuiet

(* The request at its step, as the invariant has it. *)
LEMMA AtStep ==
  ASSUME TypeInv, NEW r \in Requests
  PROVE  /\ OnPath(pc[r], input[r], tx[r])
         /\ input[r].kind \in Kinds /\ input[r].receipt \in ReceiptIds
         /\ Len(input[r].parts) \in Nat
         /\ input[r].kind = "ALLOCATE" => input[r].parts # <<>>
         /\ tx[r] \in TxType /\ IsFiniteSet(tx[r].draft)
         /\ tx[r].n \in Nat
BY BodyType DEF TypeInv, StateOK, PathOK, InputType, WellFormed, TxType

LEMMA SubmitQuiet ==
  ASSUME TypeInv, NEW r \in Requests, Submit(r)
  PROVE  Quiet(r)
<1>. DEFINE label == FirstStep[input[r].kind]
<1>1. /\ OnPath("idle", input[r], tx[r]) /\ input[r].kind \in Kinds /\ tx[r] \in TxType
      /\ input[r].kind = "ALLOCATE" => input[r].parts # <<>>
  BY AtStep DEF Submit
<1>2. /\ label \in PathOf[input[r].kind]
      /\ label \in {"readReceipt", "readInvoices"} => input[r].kind = "ALLOCATE"
      /\ label \notin Inserted \union Closing /\ label # "readDeposit"
  BY <1>1 DEF FirstStep, PathOf, Kinds, Inserted, Closing, Ends, Allocating
<1>3. tx[r].n = 0
  BY <1>1 DEF OnPath, Allocating
<1>4. OnPath(label, input[r], tx[r])
  <2>. HIDE DEF label
  <2>. QED  BY <1>1, <1>2, <1>3 DEF OnPath
<1>5. tx = [tx EXCEPT ![r] = tx[r]]
  BY DEF TypeInv, StateOK
<1>6. Passes(r, label, tx[r])
  BY <1>5 DEF Submit, Passes
<1>. HIDE DEF label
<1>. QED  BY <1>4, <1>6, ReadQuiet

LEMMA NextNumberQuiet ==
  ASSUME TypeInv, NEW r \in Requests, NextNumber(r)
  PROVE  Quiet(r)
<1>. DEFINE S == {receiptNumber[rc] : rc \in ReceiptIds}
            seen == [tx[r] EXCEPT !.number = 1 + Max(S)]
<1>1. OnPath("number", input[r], tx[r]) /\ tx[r] \in TxType /\ IsFiniteSet(tx[r].draft)
  BY AtStep DEF NextNumber
<1>2. Max(S) \in Nat
  <2>1. ReceiptIds # {} /\ IsFiniteSet(ReceiptIds) /\ receiptNumber \in [ReceiptIds -> Nat]
    BY AtStep, ConstantsAssumption DEF TypeInv, StateOK, TypeOK
  <2>2. PICK m \in ReceiptIds : \A y \in ReceiptIds : receiptNumber[m] >= receiptNumber[y]
    BY <2>1, LargestExists
  <2>3. \E x \in S : \A y \in S : x >= y
    BY <2>2
  <2>. QED  BY <2>1, <2>3 DEF Max
<1>3. Passes(r, "insertReceipt", seen)
  BY DEF NextNumber, Read, Passes
<1>4. seen \in TxType /\ IsFiniteSet(seen.draft)
  <2>. HIDE DEF S
  <2>. QED  BY <1>1, <1>2 DEF TxType
<1>5. OnPath("insertReceipt", input[r], seen)
  <2>1. "insertReceipt" \in PathOf[input[r].kind]
    BY <1>1, AtStep DEF OnPath, PathOf, Kinds, Ends, Allocating
  <2>2. seen.n = tx[r].n /\ seen.gone = tx[r].gone /\ seen.list = tx[r].list
        /\ seen.todo = tx[r].todo /\ seen.invoice = tx[r].invoice
    BY <1>1 DEF TxType
  <2>. HIDE DEF seen
  <2>. QED  BY <1>1, <2>1, <2>2 DEF OnPath, Inserted, Closing, Allocating
<1>. HIDE DEF seen
<1>. QED  BY <1>3, <1>4, <1>5, PassQuiet

LEMMA InsertReceiptQuiet ==
  ASSUME TypeInv, NEW r \in Requests, InsertReceipt(r)
  PROVE  Quiet(r)
<1>. DEFINE label == IF input[r].parts = <<>> THEN "receiptBank" ELSE "readReceipt"
<1>1. OnPath("insertReceipt", input[r], tx[r]) /\ input[r].kind \in Kinds
  BY AtStep DEF InsertReceipt
<1>2. OnPath(label, input[r], tx[r])
  BY <1>1 DEF OnPath, PathOf, Kinds, Ends, Allocating, Inserted, Closing
<1>3. Rollback(r) \/ Passes(r, label, tx[r])
  BY DEF InsertReceipt, Read, Passes
<1>. HIDE DEF label
<1>. QED  BY <1>2, <1>3, ReadQuiet

LEMMA PartsAmount ==
  ASSUME input \in Workloads, NEW r \in Requests
  PROVE  LET parts == input[r].parts IN SumFunction([k \in DOMAIN parts |-> parts[k].amount]) \in Nat
<1>. DEFINE D == 1..Len(input[r].parts)
            f == [k \in D |-> input[r].parts[k].amount]
<1>1. DOMAIN input[r].parts = D /\ Len(input[r].parts) \in Nat
  BY BodyType DEF InputType
<1>2. IsFiniteSet(D)
  BY <1>1, FS_Interval
<1>3. \A k \in D : f[k] \in Nat
  BY PartType
<1>4. DOMAIN f = D
  OBVIOUS
<1>. HIDE DEF f, D
<1>5. SumFunctionOnSet(f, D) \in Nat
  BY <1>2, <1>3, SumIsNat
<1>. QED  BY <1>1, <1>4, <1>5 DEF SumFunction, f

LEMMA ReadReceiptQuiet ==
  ASSUME TypeInv, NEW r \in Requests, ReadReceipt(r)
  PROVE  Quiet(r)
<1>. DEFINE rc == input[r].receipt
            parts == input[r].parts
            after == Applied(RowsOf(allocations, rc))
                       + SumFunction([k \in DOMAIN parts |-> parts[k].amount])
            seen == [tx[r] EXCEPT !.allocated = after]
<1>1. OnPath("readReceipt", input[r], tx[r]) /\ tx[r] \in TxType /\ IsFiniteSet(tx[r].draft)
  BY AtStep DEF ReadReceipt
<1>2. after \in Nat
  <2>1. RowsOf(allocations, rc) \subseteq allocations
    BY DEF RowsOf
  <2>2. Applied(RowsOf(allocations, rc)) \in Nat
    BY <2>1, AmountOfRows DEF TypeInv, StateOK
  <2>3. SumFunction([k \in DOMAIN parts |-> parts[k].amount]) \in Nat
    BY PartsAmount DEF TypeInv, StateOK
  <2>. QED  BY <2>2, <2>3
<1>3. Rollback(r) \/ Passes(r, "readInvoices", seen)
  BY DEF ReadReceipt, Read, Passes
<1>. HIDE DEF after
<1>4. seen \in TxType /\ IsFiniteSet(seen.draft)
  BY <1>1, <1>2 DEF TxType
<1>5. OnPath("readInvoices", input[r], seen)
  <2>1. "readInvoices" \in PathOf[input[r].kind]
    BY <1>1, AtStep DEF OnPath, PathOf, Kinds, Ends, Allocating
  <2>2. seen.n = tx[r].n /\ seen.gone = tx[r].gone /\ seen.list = tx[r].list
        /\ seen.todo = tx[r].todo /\ seen.invoice = tx[r].invoice
    BY <1>1 DEF TxType
  <2>. HIDE DEF seen
  <2>. QED  BY <1>1, <2>1, <2>2 DEF OnPath, Inserted, Closing, Allocating
<1>. HIDE DEF seen
<1>. QED  BY <1>3, <1>4, <1>5, RollbackQuiet, PassQuiet

LEMMA ReadInvoicesQuiet ==
  ASSUME TypeInv, NEW r \in Requests, ReadInvoices(r)
  PROVE  Quiet(r)
<1>1. /\ OnPath("readInvoices", input[r], tx[r]) /\ input[r].kind \in Kinds
      /\ Len(input[r].parts) > 0
  <2>1. OnPath("readInvoices", input[r], tx[r]) /\ input[r].kind \in Kinds
    BY AtStep DEF ReadInvoices
  <2>2. input[r].parts \in Seq(Part) /\ input[r].parts # <<>>
    BY <2>1, BodyType DEF OnPath, TypeInv, StateOK, InputType
  <2>. QED  BY <2>1, <2>2
<1>2. OnPath("readDeposit", input[r], tx[r])
  BY <1>1 DEF OnPath, PathOf, Kinds, Ends, Allocating, Inserted, Closing
<1>3. Rollback(r) \/ Passes(r, "readDeposit", tx[r])
  BY DEF ReadInvoices, Read, Passes
<1>. QED  BY <1>2, <1>3, ReadQuiet

LEMMA ReadDepositQuiet ==
  ASSUME TypeInv, NEW r \in Requests, ReadDeposit(r)
  PROVE  Quiet(r)
<1>. DEFINE n == tx[r].n + 1
            part == input[r].parts[n]
            seen == [tx[r] EXCEPT !.n = n, !.invoice = part.invoice]
<1>1. /\ OnPath("readDeposit", input[r], tx[r]) /\ tx[r] \in TxType /\ IsFiniteSet(tx[r].draft)
      /\ tx[r].n \in Nat /\ Len(input[r].parts) \in Nat /\ input[r].kind \in Kinds
  BY AtStep DEF ReadDeposit
<1>2. n \in 1..Len(input[r].parts) /\ n \in Nat
  BY <1>1 DEF OnPath
<1>3. part.invoice \in Invoices
  BY <1>2, PartType DEF TypeInv, StateOK
<1>4. Rollback(r) \/ \E label \in {"recompute", "allocateDeposits"} : Passes(r, label, seen)
  BY DEF ReadDeposit, Read, Passes
<1>5. seen \in TxType /\ IsFiniteSet(seen.draft)
  BY <1>1, <1>2, <1>3 DEF TxType
<1>6. ASSUME NEW label \in {"recompute", "allocateDeposits"}
      PROVE  OnPath(label, input[r], seen)
  <2>1. label \in PathOf[input[r].kind] /\ input[r].kind \in {"CREATE", "ALLOCATE"}
    BY <1>1 DEF OnPath, PathOf, Kinds, Ends, Allocating
  <2>2. seen.n = n /\ seen.gone = tx[r].gone /\ seen.list = tx[r].list
        /\ seen.todo = tx[r].todo /\ seen.invoice = input[r].parts[n].invoice
    BY <1>1 DEF TxType
  <2>. HIDE DEF seen, n
  <2>. QED  BY <1>1, <1>2, <2>1, <2>2 DEF OnPath, Inserted, Closing, Allocating
<1>. HIDE DEF seen
<1>. QED  BY <1>4, <1>5, <1>6, RollbackQuiet, PassQuiet

(* An account is updated if it is a system one, or left as it is.          *)
LEMMA EnsureOf ==
  ASSUME TypeInv, NEW r \in Requests, EnsureSystemAccount(r)
  PROVE  /\ pc[r] \in DOMAIN AccountCall /\ tx' = tx
         /\ pc'[r] = AccountCall[pc[r]][2]
         /\ \/ /\ AccountCall[pc[r]][1] \in SystemAccounts
               /\ Update(r, AccountCall[pc[r]][1], AccountCall[pc[r]][2])
            \/ /\ AccountCall[pc[r]][1] \notin SystemAccounts
               /\ Passes(r, AccountCall[pc[r]][2], tx[r])
BY DEF EnsureSystemAccount, Update, Read, Passes, Goto, TypeInv, StateOK, TypeOK

LEMMA EnsureQuiet ==
  ASSUME TypeInv, NEW r \in Requests, EnsureSystemAccount(r)
  PROVE  Quiet(r)
<1>. DEFINE label == AccountCall[pc[r]][2]
<1>1. OnPath(pc[r], input[r], tx[r]) /\ input[r].kind \in Kinds
  BY AtStep
<1>2. Update(r, AccountCall[pc[r]][1], label) \/ Passes(r, label, tx[r])
  BY EnsureOf
<1>3. pc[r] \in {"allocateDeposits", "allocateReceivable", "receiptBank", "receiptReceivable",
                 "receiptDeposits", "refundDeposits", "refundBank"}
  BY EnsureOf DEF AccountCall
<1>4. label = CASE pc[r] = "allocateDeposits"   -> "allocateReceivable"
                [] pc[r] = "allocateReceivable" -> "postAllocation"
                [] pc[r] = "receiptBank"        -> "receiptReceivable"
                [] pc[r] = "receiptReceivable"  -> "receiptDeposits"
                [] pc[r] = "receiptDeposits"    -> "postReceipt"
                [] pc[r] = "refundDeposits"     -> "checkPosting"
                [] pc[r] = "refundBank"         -> "postRefund"
  BY <1>3 DEF AccountCall
<1>. HIDE DEF label
<1>5. OnPath(label, input[r], tx[r])
  <2>1. label \in PathOf[input[r].kind]
    BY <1>1, <1>3, <1>4 DEF OnPath, PathOf, Kinds, Ends, Allocating
  <2>2. /\ label \notin {"readReceipt", "readInvoices", "readDeposit"}
        /\ label \in Inserted => pc[r] \in Inserted
        /\ label \in Closing => pc[r] \in Closing
        /\ label \notin Allocating \union {"receiptBank", "receiptReceivable", "receiptDeposits",
                                           "postReceipt", "commit"}
             => pc[r] \notin Allocating \union {"receiptBank", "receiptReceivable",
                                                "receiptDeposits", "postReceipt", "commit"}
    BY <1>3, <1>4 DEF Inserted, Closing, Allocating
  <2>. QED  BY <1>1, <2>1, <2>2 DEF OnPath
<1>. QED  BY <1>2, <1>5, UpdateQuiet, ReadQuiet

LEMMA PostAllocationQuiet ==
  ASSUME TypeInv, NEW r \in Requests, PostAllocation(r)
  PROVE  Quiet(r)
<1>1. /\ OnPath("postAllocation", input[r], tx[r]) /\ tx[r] \in TxType /\ IsFiniteSet(tx[r].draft)
      /\ tx[r].n \in Nat /\ input[r].kind \in Kinds
  BY AtStep DEF PostAllocation
<1>2. PICK a \in OwnRows(r) : Post(r, AllocationEntry(a), "decrement", tx[r])
  BY DEF PostAllocation
<1>3. OwnRows(r) \subseteq RowType
  BY <1>1, OwnRowsType DEF OnPath, TypeInv, StateOK
<1>4. AllocationEntry(a) \in EntryType
  BY <1>3, EntriesType
<1>5. OnPath("decrement", input[r], tx[r])
  BY <1>1 DEF OnPath, PathOf, Kinds, Ends, Allocating, Inserted, Closing
<1>. QED  BY <1>1, <1>2, <1>4, <1>5, PostQuiet

LEMMA VisibleType ==
  ASSUME TypeInv, NEW r \in Requests
  PROVE  /\ Visible(r) \subseteq RowType /\ IsFiniteSet(Visible(r))
         /\ OwnRows(r) \subseteq RowType /\ IsFiniteSet(OwnRows(r))
<1>1. OwnRows(r) \subseteq RowType /\ IsFiniteSet(OwnRows(r))
  BY AtStep, OwnRowsType DEF OnPath, TypeInv, StateOK
<1>2. allocations \ tx[r].gone \subseteq RowType /\ IsFiniteSet(allocations \ tx[r].gone)
  BY FS_Subset DEF TypeInv, StateOK
<1>3. IsFiniteSet((allocations \ tx[r].gone) \union OwnRows(r))
  BY <1>1, <1>2, FS_Union
<1>. QED  BY <1>1, <1>2, <1>3 DEF Visible

LEMMA RecomputeQuiet ==
  ASSUME TypeInv, NEW r \in Requests, Recompute(r)
  PROVE  Quiet(r)
<1>1. /\ OnPath("recompute", input[r], tx[r]) /\ tx[r] \in TxType /\ IsFiniteSet(tx[r].draft)
      /\ tx[r].n \in Nat /\ Len(input[r].parts) \in Nat /\ input[r].kind \in Kinds
  BY AtStep DEF Recompute
<1>. DEFINE seen(i) ==
       [tx[r] EXCEPT !.invoice = i, !.todo = @ \ {i},
                     !.paid = [j \in DOMAIN @ \union {i} |->
                                 IF j = i THEN Applied(RowsFor(Visible(r), i)) ELSE @[j]]]
<1>2. PICK i \in IF input[r].kind = "REVERSE" THEN tx[r].todo ELSE {tx[r].invoice} :
        Passes(r, "writeInvoice", seen(i))
  BY DEF Recompute, Read, Passes
<1>3. /\ i \in Invoices
      /\ input[r].kind # "REVERSE" => i = tx[r].invoice
  <2>1. CASE input[r].kind = "REVERSE"
    BY <1>1, <1>2, <2>1 DEF TxType
  <2>2. CASE input[r].kind # "REVERSE"
    <3>1. tx[r].n \in 1..Len(input[r].parts) /\ i = input[r].parts[tx[r].n].invoice /\ i = tx[r].invoice
      BY <1>1, <1>2, <2>2 DEF OnPath, Inserted, Closing
    <3>. QED  BY <3>1, PartType DEF TypeInv, StateOK
  <2>. QED  BY <2>1, <2>2
<1>4. Applied(RowsFor(Visible(r), i)) \in Nat
  <2>1. RowsFor(Visible(r), i) \subseteq Visible(r)
    BY DEF RowsFor
  <2>. QED  BY <2>1, VisibleType, AmountOfRows
<1>5. [j \in DOMAIN tx[r].paid \union {i} |->
         IF j = i THEN Applied(RowsFor(Visible(r), i)) ELSE tx[r].paid[j]] \in PaidType
  <2>1. PICK D \in SUBSET Invoices : tx[r].paid \in [D -> Nat]
    BY <1>1 DEF TxType, PaidType
  <2>2. [j \in DOMAIN tx[r].paid \union {i} |->
           IF j = i THEN Applied(RowsFor(Visible(r), i)) ELSE tx[r].paid[j]] \in [D \union {i} -> Nat]
    BY <1>4, <2>1
  <2>. QED  BY <1>3, <2>1, <2>2 DEF PaidType
<1>6. seen(i) \in TxType /\ IsFiniteSet(seen(i).draft)
  BY <1>1, <1>3, <1>5 DEF TxType
<1>7. OnPath("writeInvoice", input[r], seen(i))
  <2>1. "writeInvoice" \in PathOf[input[r].kind]
    BY <1>1 DEF OnPath, PathOf, Kinds, Ends, Allocating
  <2>2. seen(i).n = tx[r].n /\ seen(i).gone = tx[r].gone /\ seen(i).list = tx[r].list
        /\ seen(i).invoice = i /\ seen(i).todo \subseteq tx[r].todo
    BY <1>1 DEF TxType
  <2>. HIDE DEF seen
  <2>. QED  BY <1>1, <1>3, <2>1, <2>2 DEF OnPath, Inserted, Closing, Allocating
<1>. HIDE DEF seen
<1>. QED  BY <1>2, <1>6, <1>7, PassQuiet

LEMMA WriteInvoiceQuiet ==
  ASSUME TypeInv, NEW r \in Requests, WriteInvoice(r)
  PROVE  Quiet(r)
<1>. DEFINE label == IF input[r].kind = "REVERSE"
                     THEN IF tx[r].todo # {} THEN "recompute" ELSE "reverseReceipt"
                     ELSE IF tx[r].n < Len(input[r].parts) THEN "readDeposit" ELSE "closeReceipt"
<1>1. /\ OnPath("writeInvoice", input[r], tx[r]) /\ tx[r].n \in Nat
      /\ Len(input[r].parts) \in Nat /\ input[r].kind \in Kinds
  BY AtStep DEF WriteInvoice
<1>2. OnPath(label, input[r], tx[r])
  BY <1>1 DEF OnPath, PathOf, Kinds, Ends, Allocating, Inserted, Closing
<1>3. Update(r, tx[r].invoice, label)
  BY DEF WriteInvoice
<1>. HIDE DEF label
<1>. QED  BY <1>2, <1>3, UpdateQuiet

LEMMA UpdateReceiptQuiet ==
  ASSUME TypeInv, NEW r \in Requests, UpdateReceipt(r)
  PROVE  Quiet(r)
<1>1. /\ OnPath(pc[r], input[r], tx[r]) /\ input[r].kind \in Kinds
      /\ pc[r] \in {"decrement", "closeReceipt", "increment", "closeReversal", "deduct"}
  BY AtStep DEF UpdateReceipt
<1>2. CASE pc[r] = "decrement"
  <2>1. OnPath("recompute", input[r], tx[r])
    BY <1>1, <1>2 DEF OnPath, PathOf, Kinds, Ends, Allocating, Inserted, Closing
  <2>2. Update(r, input[r].receipt, "recompute")
    BY <1>2 DEF UpdateReceipt
  <2>. QED  BY <2>1, <2>2, UpdateQuiet
<1>3. CASE pc[r] = "increment"
  <2>1. OnPath("recompute", input[r], tx[r]) /\ OnPath("reverseAllocation", input[r], tx[r])
    BY <1>1, <1>3 DEF OnPath, PathOf, Kinds, Ends, Allocating, Inserted, Closing
  <2>2. \/ Update(r, input[r].receipt, "recompute")
        \/ Update(r, input[r].receipt, "reverseAllocation")
    BY <1>3 DEF UpdateReceipt
  <2>. QED  BY <2>1, <2>2, UpdateQuiet
<1>4. CASE pc[r] = "deduct"
  <2>1. OnPath("payRefund", input[r], tx[r])
    BY <1>1, <1>4 DEF OnPath, PathOf, Kinds, Ends, Allocating, Inserted, Closing
  <2>2. Update(r, input[r].receipt, "payRefund")
    BY <1>4 DEF UpdateReceipt
  <2>. QED  BY <2>1, <2>2, UpdateQuiet
<1>5. CASE pc[r] = "closeReceipt" /\ input[r].kind = "CREATE"
  <2>1. OnPath("receiptBank", input[r], tx[r])
    BY <1>1, <1>5 DEF OnPath, PathOf, Kinds, Ends, Allocating, Inserted, Closing
  <2>2. Update(r, input[r].receipt, "receiptBank")
    BY <1>5 DEF UpdateReceipt
  <2>. QED  BY <2>1, <2>2, UpdateQuiet
<1>6. CASE pc[r] = "closeReversal" \/ (pc[r] = "closeReceipt" /\ input[r].kind # "CREATE")
  <2>1. OnPath("commit", input[r], tx[r])
    BY <1>1, <1>6 DEF OnPath, PathOf, Kinds, Ends, Allocating, Inserted, Closing
  <2>2. Update(r, input[r].receipt, "commit")
    BY <1>6 DEF UpdateReceipt
  <2>. QED  BY <2>1, <2>2, UpdateQuiet
<1>. QED  BY <1>1, <1>2, <1>3, <1>4, <1>5, <1>6

LEMMA PostReceiptQuiet ==
  ASSUME TypeInv, NEW r \in Requests, PostReceipt(r)
  PROVE  Quiet(r)
<1>. DEFINE e == ReceiptEntry(input[r].receipt, Applied(OwnRows(r)))
<1>1. /\ OnPath("postReceipt", input[r], tx[r]) /\ tx[r] \in TxType /\ IsFiniteSet(tx[r].draft)
      /\ input[r].kind \in Kinds /\ input[r].receipt \in ReceiptIds
  BY AtStep DEF PostReceipt
<1>2. e \in EntryType
  <2>1. Applied(OwnRows(r)) \in Nat
    BY VisibleType, AmountOfRows
  <2>. QED  BY <1>1, <2>1, EntriesType
<1>3. OnPath("commit", input[r], tx[r])
  BY <1>1 DEF OnPath, PathOf, Kinds, Ends, Allocating, Inserted, Closing
<1>4. Post(r, e, "commit", tx[r])
  BY DEF PostReceipt
<1>. HIDE DEF e
<1>. QED  BY <1>1, <1>2, <1>3, <1>4, PostQuiet

(* The steps of a reversal. *)
LEMMA ListRowsQuiet ==
  ASSUME TypeInv, NEW r \in Requests, ListRows(r)
  PROVE  Quiet(r)
<1>. DEFINE rows == RowsOf(allocations, input[r].receipt)
            label == IF rows = {} THEN "reverseReceipt" ELSE "deleteRows"
            seen == [tx[r] EXCEPT !.list = rows]
<1>1. /\ OnPath("listRows", input[r], tx[r]) /\ tx[r] \in TxType /\ IsFiniteSet(tx[r].draft)
      /\ input[r].kind \in Kinds
  BY AtStep DEF ListRows
<1>2. rows \subseteq RowType
  BY DEF RowsOf, TypeInv, StateOK
<1>3. Passes(r, label, seen)
  BY DEF ListRows, Read, Passes
<1>. HIDE DEF rows
<1>4. seen \in TxType /\ IsFiniteSet(seen.draft)
  BY <1>1, <1>2 DEF TxType
<1>5. OnPath(label, input[r], seen)
  <2>1. label \in PathOf[input[r].kind] /\ input[r].kind = "REVERSE"
    BY <1>1 DEF OnPath, PathOf, Kinds, Ends, Allocating
  <2>2. seen.n = tx[r].n /\ seen.gone = tx[r].gone
    BY <1>1 DEF TxType
  <2>. HIDE DEF seen
  <2>. QED  BY <1>1, <2>1, <2>2 DEF OnPath, Allocating
<1>. HIDE DEF seen, label
<1>. QED  BY <1>3, <1>4, <1>5, PassQuiet

LEMMA DeleteRowsQuiet ==
  ASSUME TypeInv, NEW r \in Requests, DeleteRows(r)
  PROVE  Quiet(r)
<1>. DEFINE rows == RowsOf(allocations, input[r].receipt)
            left == {a.invoice : a \in tx[r].list}
            seen == [tx[r] EXCEPT !.gone = rows, !.todo = left]
<1>1. /\ OnPath("deleteRows", input[r], tx[r]) /\ tx[r] \in TxType /\ IsFiniteSet(tx[r].draft)
      /\ input[r].kind \in Kinds
  BY AtStep DEF DeleteRows
<1>2. rows \subseteq RowType /\ left \subseteq Invoices
  BY <1>1 DEF RowsOf, TypeInv, StateOK, TxType, RowType
<1>. rows = seen.gone /\ \A a \in rows : a.receipt = input[r].receipt
  BY <1>1 DEF RowsOf, TxType
<1>3. Passes(r, "reverseAllocation", seen)
  BY DEF DeleteRows, Read, Passes
<1>. HIDE DEF rows, left
<1>4. seen \in TxType /\ IsFiniteSet(seen.draft)
  BY <1>1, <1>2 DEF TxType
<1>5. OnPath("reverseAllocation", input[r], seen)
  <2>1. "reverseAllocation" \in PathOf[input[r].kind] /\ input[r].kind = "REVERSE"
    BY <1>1 DEF OnPath, PathOf, Kinds, Ends, Allocating
  <2>2. seen.n = tx[r].n
    BY <1>1 DEF TxType
  <2>. HIDE DEF seen
  <2>. QED  BY <1>1, <2>1, <2>2 DEF OnPath, Allocating
<1>. HIDE DEF seen
<1>. QED  BY <1>3, <1>4, <1>5, PassQuiet

LEMMA ReverseAllocationQuiet ==
  ASSUME TypeInv, NEW r \in Requests, ReverseAllocation(r)
  PROVE  Quiet(r)
<1>1. /\ OnPath("reverseAllocation", input[r], tx[r]) /\ tx[r] \in TxType /\ IsFiniteSet(tx[r].draft)
      /\ input[r].kind \in Kinds
  BY AtStep DEF ReverseAllocation
<1>. DEFINE left(a) == [tx[r] EXCEPT !.list = @ \ {a}]
<1>2. PICK a \in tx[r].list :
        \/ Post(r, ReversalOf(AllocationEntry(a)), "increment", left(a))
        \/ \E label \in {"recompute", "reverseAllocation"} : Passes(r, label, left(a))
  BY DEF ReverseAllocation, Read, Passes
<1>3. ReversalOf(AllocationEntry(a)) \in EntryType
  BY <1>1, EntriesType DEF TxType
<1>4. left(a) \in TxType /\ IsFiniteSet(left(a).draft)
  BY <1>1 DEF TxType
<1>5. ASSUME NEW label \in {"increment", "recompute", "reverseAllocation"}
      PROVE  OnPath(label, input[r], left(a))
  <2>1. label \in PathOf[input[r].kind] /\ input[r].kind = "REVERSE"
    BY <1>1 DEF OnPath, PathOf, Kinds, Ends, Allocating
  <2>2. left(a).n = tx[r].n /\ left(a).gone = tx[r].gone
    BY <1>1 DEF TxType
  <2>. HIDE DEF left
  <2>. QED  BY <1>1, <2>1, <2>2 DEF OnPath, Allocating
<1>. HIDE DEF left
<1>. QED  BY <1>2, <1>3, <1>4, <1>5, PostQuiet, PassQuiet

LEMMA ReverseReceiptQuiet ==
  ASSUME TypeInv, NEW r \in Requests, ReverseReceipt(r)
  PROVE  Quiet(r)
<1>1. /\ OnPath("reverseReceipt", input[r], tx[r]) /\ tx[r] \in TxType /\ IsFiniteSet(tx[r].draft)
      /\ input[r].kind \in Kinds
  BY AtStep DEF ReverseReceipt
<1>2. PICK e \in Entries(r) : \/ Passes(r, "markReversed", tx[r])
                              \/ Post(r, ReversalOf(e), "markReversed", tx[r])
  BY DEF ReverseReceipt, Read, Passes
<1>3. ReversalOf(e) \in EntryType
  BY <1>1, EntriesType DEF Entries, TypeInv, StateOK, TxType
<1>4. OnPath("markReversed", input[r], tx[r])
  BY <1>1 DEF OnPath, PathOf, Kinds, Ends, Allocating, Inserted, Closing
<1>. QED  BY <1>1, <1>2, <1>3, <1>4, PostQuiet, PassQuiet

(* The steps that only read. *)
LEMMA ReadOnlyQuiet ==
  ASSUME TypeInv, NEW r \in Requests,
         \/ ReadReversed(r) \/ MarkReversed(r) \/ ReadRefundable(r) \/ ReadPending(r)
         \/ ReadApproved(r) \/ CheckPosting(r)
  PROVE  Quiet(r)
<1>1. OnPath(pc[r], input[r], tx[r]) /\ input[r].kind \in Kinds
  BY AtStep
<1>2. /\ pc[r] = "readReversed"   => OnPath("listRows", input[r], tx[r])
      /\ pc[r] = "markReversed"   => OnPath("closeReversal", input[r], tx[r])
      /\ pc[r] = "readRefundable" => OnPath("insertRefund", input[r], tx[r])
      /\ pc[r] = "readPending"    => OnPath("decide", input[r], tx[r])
      /\ pc[r] = "readApproved"   => OnPath("refundDeposits", input[r], tx[r])
      /\ pc[r] = "checkPosting"   =>
           \A label \in {"deduct", "refundBank"} : OnPath(label, input[r], tx[r])
  BY <1>1 DEF OnPath, PathOf, Kinds, Ends, Allocating, Inserted, Closing
<1>3. CASE ReadReversed(r)
  <2>1. pc[r] = "readReversed" /\ (Rollback(r) \/ Passes(r, "listRows", tx[r]))
    BY <1>3 DEF ReadReversed, Read, Passes
  <2>. QED  BY <1>2, <2>1, ReadQuiet
<1>4. CASE MarkReversed(r)
  <2>1. pc[r] = "markReversed" /\ (Rollback(r) \/ Passes(r, "closeReversal", tx[r]))
    BY <1>4 DEF MarkReversed, Read, Passes
  <2>. QED  BY <1>2, <2>1, ReadQuiet
<1>5. CASE ReadRefundable(r)
  <2>1. pc[r] = "readRefundable" /\ (Rollback(r) \/ Passes(r, "insertRefund", tx[r]))
    BY <1>5 DEF ReadRefundable, Read, Passes
  <2>. QED  BY <1>2, <2>1, ReadQuiet
<1>6. CASE ReadPending(r)
  <2>1. pc[r] = "readPending" /\ (Rollback(r) \/ Passes(r, "decide", tx[r]))
    BY <1>6 DEF ReadPending, Read, Passes
  <2>. QED  BY <1>2, <2>1, ReadQuiet
<1>7. CASE ReadApproved(r)
  <2>1. pc[r] = "readApproved" /\ (Rollback(r) \/ Passes(r, "refundDeposits", tx[r]))
    BY <1>7 DEF ReadApproved, Read, Passes
  <2>. QED  BY <1>2, <2>1, ReadQuiet
<1>8. CASE CheckPosting(r)
  <2>1. /\ pc[r] = "checkPosting"
        /\ Rollback(r) \/ \E label \in {"deduct", "refundBank"} : Passes(r, label, tx[r])
    BY <1>8 DEF CheckPosting, Read, Passes
  <2>2. CASE Rollback(r)
    BY <2>2, RollbackQuiet
  <2>3. ASSUME NEW label \in {"deduct", "refundBank"}, Passes(r, label, tx[r])
        PROVE  Quiet(r)
    BY <1>2, <2>1, <2>3, ReadQuiet
  <2>. QED  BY <2>1, <2>2, <2>3
<1>. QED  BY <1>3, <1>4, <1>5, <1>6, <1>7, <1>8

LEMMA PayQuiet ==
  ASSUME TypeInv, NEW r \in Requests, PostRefund(r) \/ PayRefund(r)
  PROVE  Quiet(r)
<1>1. /\ OnPath(pc[r], input[r], tx[r]) /\ tx[r] \in TxType /\ IsFiniteSet(tx[r].draft)
      /\ input[r].kind \in Kinds
  BY AtStep
<1>2. CASE PostRefund(r)
  <2>1. input[r].kind = "PAY"
    BY <1>1, <1>2 DEF PostRefund, OnPath, PathOf, Kinds, Ends, Allocating
  <2>2. RefundEntry(input[r].refund) \in EntryType
    BY <2>1, BodyType, EntriesType DEF TypeInv, StateOK, WellFormed
  <2>3. OnPath("deduct", input[r], tx[r])
    BY <1>1, <1>2 DEF PostRefund, OnPath, PathOf, Kinds, Ends, Allocating, Inserted, Closing
  <2>. QED  BY <1>1, <1>2, <2>2, <2>3, PostQuiet DEF PostRefund
<1>3. CASE PayRefund(r)
  <2>1. OnPath("commit", input[r], tx[r])
    BY <1>1, <1>3 DEF PayRefund, OnPath, PathOf, Kinds, Ends, Allocating, Inserted, Closing
  <2>. QED  BY <1>3, <2>1, UpdateQuiet DEF PayRefund
<1>. QED  BY <1>2, <1>3

LEMMA AbortQuiet ==
  ASSUME TypeInv, NEW r \in Requests, Abort(r)
  PROVE  Quiet(r)
BY RollbackQuiet DEF Abort

-------------------------------------------------------------------------------
(* The three steps that write to the database. *)
LEMMA AnswerTypeInv ==
  ASSUME TypeInv, NEW r \in Requests, Answer(r, "done")
  PROVE  /\ Moves(r, "done", Fresh)
         /\ pc' \in [Requests -> Pcs] /\ tx' \in [Requests -> TxType] /\ input' \in Workloads
         /\ rowLock' \in [Rows -> Requests \union {NoRequest}]
         /\ \A q \in Requests : IsFiniteSet(tx'[q].draft)
         /\ PathOK'
<1>1. Moves(r, "done", Fresh) /\ rowLock' \in [Rows -> Requests \union {NoRequest}]
  BY AnswerMoves
<1>2. Fresh \in TxType /\ IsFiniteSet(Fresh.draft) /\ OnPath("done", input[r], Fresh)
  BY BodyType, FreshType DEF TypeInv, StateOK, Ends
<1>. QED  BY <1>1, <1>2, MoveTypeInv

LEMMA SetRefundTypeInv ==
  ASSUME TypeInv, NEW r \in Requests, InsertRefund(r) \/ Decide(r)
  PROVE  TypeInv'
<1>1. PICK status \in {"PENDING_APPROVAL", "APPROVED", "REJECTED"} : SetRefund(r, status)
  BY DEF InsertRefund, Decide
<1>2. /\ refundStatus' \in [Refunds -> {"ABSENT", "PENDING_APPROVAL", "APPROVED", "REJECTED", "PAID"}]
      /\ Answer(r, "done")
      /\ UNCHANGED <<receiptStatus, receiptNumber, unallocated, allocations, paidAmount,
                     journals, receivable, deposits>>
  BY <1>1 DEF SetRefund, TypeInv, StateOK, TypeOK
<1>3. /\ pc' \in [Requests -> Pcs] /\ tx' \in [Requests -> TxType] /\ input' \in Workloads
      /\ rowLock' \in [Rows -> Requests \union {NoRequest}]
      /\ \A q \in Requests : IsFiniteSet(tx'[q].draft)
      /\ PathOK'
  BY <1>2, AnswerTypeInv
<1>4. StateOK'
  BY <1>2, <1>3 DEF TypeInv, StateOK, TypeOK, Pcs
<1>. QED  BY <1>3, <1>4 DEF TypeInv

(* The lines of the entries of a transaction. *)
LEMMA LinesAreInt ==
  ASSUME TypeInv, NEW r \in Requests
  PROVE  /\ SumFunction([e \in tx[r].draft |-> ReceivableLine(e)]) \in Int
         /\ SumFunction([e \in tx[r].draft |-> DepositLine(e)]) \in Int
<1>. DEFINE D == tx[r].draft
            f == [e \in D |-> ReceivableLine(e)]
            g == [e \in D |-> DepositLine(e)]
<1>1. IsFiniteSet(D) /\ D \subseteq EntryType
  BY AtStep DEF TxType
<1>2. \A e \in D : f[e] \in Int /\ g[e] \in Int
  BY <1>1, EntriesType
<1>3. DOMAIN f = D /\ DOMAIN g = D
  OBVIOUS
<1>. HIDE DEF f, g, D
<1>4. SumFunctionOnSet(f, D) \in Int /\ SumFunctionOnSet(g, D) \in Int
  BY <1>1, <1>2, SumIsInt
<1>5. SumFunction(f) \in Int /\ SumFunction(g) \in Int
  BY <1>3, <1>4 DEF SumFunction
<1>. QED  BY <1>5 DEF f, g, D

LEMMA CommitTypeInv ==
  ASSUME TypeInv, NEW r \in Requests, Commit(r)
  PROVE  TypeInv'
<1>. DEFINE rc == input[r].receipt
<1>1. /\ OnPath("commit", input[r], tx[r]) /\ tx[r] \in TxType /\ IsFiniteSet(tx[r].draft)
      /\ input[r].kind \in Kinds /\ rc \in ReceiptIds
  BY AtStep DEF Commit
<1>2. input[r].kind \in {"CREATE", "ALLOCATE", "REVERSE", "PAY"}
  BY <1>1 DEF OnPath, PathOf, Kinds, Ends, Allocating
<1>3. /\ pc' \in [Requests -> Pcs] /\ tx' \in [Requests -> TxType] /\ input' \in Workloads
      /\ rowLock' \in [Rows -> Requests \union {NoRequest}]
      /\ \A q \in Requests : IsFiniteSet(tx'[q].draft)
      /\ PathOK'
  BY AnswerTypeInv DEF Commit
<1>4. /\ receiptStatus' \in [ReceiptIds -> {"ABSENT", "RECEIVED", "PARTIALLY_ALLOCATED",
                                            "ALLOCATED", "REVERSED"}]
      /\ unallocated' \in [ReceiptIds -> Int]
  <2>1. \E status \in {"ABSENT", "RECEIVED", "PARTIALLY_ALLOCATED", "ALLOCATED", "REVERSED"},
           left \in Int :
             /\ receiptStatus' = [receiptStatus EXCEPT ![rc] = status]
             /\ unallocated' = [unallocated EXCEPT ![rc] = left]
    <3>1. CASE input[r].kind = "REVERSE"
      BY <3>1 DEF Commit, PublishReceipt
    <3>2. CASE input[r].kind = "PAY"
      <4>1. input[r].refund \in Refunds
        BY <3>2, BodyType DEF WellFormed, TypeInv, StateOK
      <4>2. unallocated[rc] - RefundAmount[input[r].refund] \in Int
        BY <1>1, <4>1, ConstantsAssumption DEF TypeInv, StateOK, TypeOK
      <4>3. receiptStatus[rc] \in {"ABSENT", "RECEIVED", "PARTIALLY_ALLOCATED", "ALLOCATED", "REVERSED"}
        BY <1>1 DEF TypeInv, StateOK, TypeOK
      <4>. QED  BY <3>2, <4>2, <4>3 DEF Commit, PublishReceipt
    <3>3. CASE input[r].kind \in {"CREATE", "ALLOCATE"}
      <4>1. Amount[rc] - tx[r].allocated \in Int
        BY <1>1, ConstantsAssumption DEF TxType
      <4>2. StatusAt(rc, tx[r].allocated)
              \in {"ABSENT", "RECEIVED", "PARTIALLY_ALLOCATED", "ALLOCATED", "REVERSED"}
        BY DEF StatusAt
      <4>. QED  BY <3>3, <4>1, <4>2 DEF Commit, PublishReceipt
    <3>. QED  BY <1>2, <3>1, <3>2, <3>3
  <2>2. PICK status \in {"ABSENT", "RECEIVED", "PARTIALLY_ALLOCATED", "ALLOCATED", "REVERSED"},
             left \in Int :
               /\ receiptStatus' = [receiptStatus EXCEPT ![rc] = status]
               /\ unallocated' = [unallocated EXCEPT ![rc] = left]
    BY <2>1
  <2>3. /\ receiptStatus \in [ReceiptIds -> {"ABSENT", "RECEIVED", "PARTIALLY_ALLOCATED",
                                             "ALLOCATED", "REVERSED"}]
        /\ unallocated \in [ReceiptIds -> Int]
    BY DEF TypeInv, StateOK, TypeOK
  <2>4. receiptStatus' \in [ReceiptIds -> {"ABSENT", "RECEIVED", "PARTIALLY_ALLOCATED",
                                           "ALLOCATED", "REVERSED"}]
    BY <2>2, <2>3
  <2>5. unallocated' \in [ReceiptIds -> Int]
    BY <2>2, <2>3
  <2>. QED  BY <2>4, <2>5
<1>5. /\ journals' \subseteq EntryType
      /\ receivable' \in [ReceiptIds -> Int] /\ deposits' \in [ReceiptIds -> Int]
  <2>1. journals' \subseteq EntryType
    BY <1>1 DEF Commit, PublishJournals, TypeInv, StateOK, TxType
  <2>. DEFINE u == SumFunction([e \in tx[r].draft |-> ReceivableLine(e)])
              v == SumFunction([e \in tx[r].draft |-> DepositLine(e)])
  <2>2. /\ receivable' = [receivable EXCEPT ![rc] = @ + u]
        /\ deposits' = [deposits EXCEPT ![rc] = @ + v]
    BY DEF Commit, PublishJournals
  <2>3. u \in Int /\ v \in Int
    BY LinesAreInt
  <2>. HIDE DEF u, v
  <2>. QED  BY <1>1, <2>1, <2>2, <2>3 DEF TypeInv, StateOK, TypeOK
<1>6. receiptNumber' \in [ReceiptIds -> Nat]
  BY <1>1 DEF Commit, TypeInv, StateOK, TypeOK, TxType
<1>7. allocations' \subseteq RowType /\ IsFiniteSet(allocations')
  BY VisibleType DEF Commit
<1>8. paidAmount' \in [Invoices -> Nat]
  <2>1. PICK D \in SUBSET Invoices : tx[r].paid \in [D -> Nat]
    BY <1>1 DEF TxType, PaidType
  <2>2. \A i \in DOMAIN tx[r].paid : tx[r].paid[i] \in Nat
    BY <2>1
  <2>3. \A i \in Invoices : paidAmount[i] \in Nat
    BY DEF TypeInv, StateOK, TypeOK
  <2>4. paidAmount' = [i \in Invoices |->
                         IF i \in DOMAIN tx[r].paid THEN tx[r].paid[i] ELSE paidAmount[i]]
    BY DEF Commit
  <2>. QED  BY <2>2, <2>3, <2>4
<1>9. refundStatus' \in [Refunds -> {"ABSENT", "PENDING_APPROVAL", "APPROVED", "REJECTED", "PAID"}]
  BY DEF Commit, TypeInv, StateOK, TypeOK
<1>10. StateOK'
  BY <1>3, <1>4, <1>5, <1>6, <1>7, <1>8, <1>9 DEF StateOK, TypeOK, Pcs
<1>. QED  BY <1>3, <1>10 DEF TypeInv

-------------------------------------------------------------------------------
(* Every other step leaves the database as it is. *)
Writes(r) == InsertRefund(r) \/ Decide(r) \/ Commit(r)

LEMMA StepQuiet ==
  ASSUME TypeInv, NEW r \in Requests, Submit(r) \/ Step(r) \/ Abort(r), ~Writes(r)
  PROVE  Quiet(r)
BY SubmitQuiet, NextNumberQuiet, InsertReceiptQuiet, ReadReceiptQuiet, ReadInvoicesQuiet,
   ReadDepositQuiet, EnsureQuiet, PostAllocationQuiet, RecomputeQuiet, WriteInvoiceQuiet,
   UpdateReceiptQuiet, PostReceiptQuiet, ListRowsQuiet, DeleteRowsQuiet, ReverseAllocationQuiet,
   ReverseReceiptQuiet, ReadOnlyQuiet, PayQuiet, AbortQuiet
   DEF Step, Writes

LEMMA NextTypeInv ==
  ASSUME TypeInv, [Next]_vars
  PROVE  TypeInv'
<1>1. ASSUME NEW r \in Requests, Quiet(r) PROVE TypeInv'
  <2>1. PICK label, seen : /\ seen \in TxType /\ IsFiniteSet(seen.draft)
                           /\ OnPath(label, input[r], seen) /\ Moves(r, label, seen)
    BY <1>1 DEF Quiet
  <2>2. UNCHANGED money /\ rowLock' \in [Rows -> Requests \union {NoRequest}]
    BY <1>1 DEF Quiet
  <2>3. /\ pc' \in [Requests -> Pcs] /\ tx' \in [Requests -> TxType] /\ input' \in Workloads
        /\ \A q \in Requests : IsFiniteSet(tx'[q].draft)
        /\ PathOK'
    BY <2>1, MoveTypeInv
  <2>4. StateOK'
    BY <2>2, <2>3 DEF TypeInv, StateOK, TypeOK, Pcs, money
  <2>. QED  BY <2>3, <2>4 DEF TypeInv
<1>2. CASE UNCHANGED vars
  <2>1. StateOK'
    BY <1>2 DEF TypeInv, StateOK, TypeOK, vars, money
  <2>2. PathOK'
    BY <1>2 DEF TypeInv, PathOK, vars
  <2>. QED  BY <2>1, <2>2 DEF TypeInv
<1>3. ASSUME NEW r \in Requests, Submit(r) \/ Step(r) \/ Abort(r) PROVE TypeInv'
  <2>1. CASE ~Writes(r)
    BY <1>1, <1>3, <2>1, StepQuiet
  <2>2. CASE Writes(r)
    BY <2>2, SetRefundTypeInv, CommitTypeInv DEF Writes
  <2>. QED  BY <2>1, <2>2
<1>. QED  BY <1>2, <1>3 DEF Next, Quiescent

(* TypeOK is not inductive by itself: the paid amounts a request will      *)
(* write are numbers because the parts it has inserted are of its body.    *)
THEOREM ReceiptTypes == Spec => [](TypeInv /\ TypeOK)
<1>1. Init => TypeInv
  BY InitTypeInv
<1>2. TypeInv /\ [Next]_vars => TypeInv'
  BY NextTypeInv
<1>3. TypeInv => TypeOK
  BY DEF TypeInv, StateOK
<1>. QED  BY <1>1, <1>2, <1>3, PTL DEF Spec

-------------------------------------------------------------------------------
(* What a step that writes nothing does to the entries it has drafted.     *)
PartEntry(in, k) ==
  AllocationEntry([receipt |-> in.receipt, invoice |-> in.parts[k].invoice,
                   amount |-> in.parts[k].amount])

Drafts(r, e) ==
  /\ tx'[r].draft = tx[r].draft \union {e}
  /\ \A d \in journals \union tx[r].draft : ~SameReference(d, e)
  /\ \/ /\ pc[r] = "postAllocation" /\ pc'[r] = "decrement"
        /\ e = PartEntry(input[r], tx[r].n)
     \/ /\ pc[r] = "postReceipt" /\ pc'[r] = "commit"
        /\ e = ReceiptEntry(input[r].receipt, Applied(OwnRows(r)))
     \/ /\ pc[r] \in {"reverseAllocation", "reverseReceipt"}
        /\ e.type \in {"RECEIPT_REVERSAL", "ALLOCATION_REVERSAL"}
     \/ /\ pc[r] = "postRefund" /\ pc'[r] = "deduct"
        /\ e = RefundEntry(input[r].refund)

LEMMA PassOf ==
  ASSUME TypeInv, NEW r \in Requests, NEW label, NEW seen, Passes(r, label, seen)
  PROVE  /\ pc'[r] = label /\ tx'[r] = seen /\ input' = input /\ rowLock' = rowLock
         /\ UNCHANGED money
         /\ \A q \in Requests \ {r} : pc'[q] = pc[q] /\ tx'[q] = tx[q]
BY DEF TypeInv, StateOK, TypeOK, Passes, Goto

LEMMA RollbackOf ==
  ASSUME TypeInv, NEW r \in Requests, Rollback(r)
  PROVE  /\ pc'[r] = "failed" /\ tx'[r] = Fresh /\ input' = input
         /\ UNCHANGED money
         /\ \A q \in Requests \ {r} : pc'[q] = pc[q] /\ tx'[q] = tx[q]
         /\ \A w \in Rows : rowLock'[w] = IF rowLock[w] = r THEN NoRequest ELSE rowLock[w]
BY DEF TypeInv, StateOK, TypeOK, Rollback, Answer, Goto, FreeRows

LEMMA PostOf ==
  ASSUME TypeInv, NEW r \in Requests, NEW label, NEW e, NEW seen, Post(r, e, label, seen)
  PROVE  \/ Rollback(r)
         \/ /\ Passes(r, label, [seen EXCEPT !.draft = @ \union {e}])
            /\ \A d \in journals \union tx[r].draft : ~SameReference(d, e)
BY DEF Post, Read, Passes

LEMMA DraftSteps ==
  ASSUME TypeInv, NEW r \in Requests, Submit(r) \/ Step(r) \/ Abort(r), ~Writes(r)
  PROVE  \/ pc'[r] = "failed" /\ tx'[r] = Fresh
         \/ tx'[r].draft = tx[r].draft
         \/ \E e : Drafts(r, e)
<1>. DEFINE Goal == \/ pc'[r] = "failed" /\ tx'[r] = Fresh
                    \/ tx'[r].draft = tx[r].draft
                    \/ \E e : Drafts(r, e)
<1>. SUFFICES Goal
  OBVIOUS
<1>1. CASE Rollback(r)
  BY <1>1, RollbackOf
<1>2. ASSUME NEW label, Passes(r, label, tx[r]) PROVE Goal
  BY <1>2, PassOf
<1>3. ASSUME NEW label, NEW row, Update(r, row, label) PROVE Goal
  BY <1>3 DEF Update
<1>4. CASE Submit(r)
  BY <1>4 DEF Submit
<1>5. CASE Abort(r)
  BY <1>1, <1>5 DEF Abort
<1>6. ASSUME \/ InsertReceipt(r) \/ ReadInvoices(r) \/ ReadReversed(r) \/ MarkReversed(r)
             \/ ReadRefundable(r) \/ ReadPending(r) \/ ReadApproved(r) \/ CheckPosting(r)
      PROVE  Goal
  <2>1. Rollback(r) \/ \E label : Passes(r, label, tx[r])
    BY <1>6 DEF InsertReceipt, ReadInvoices, ReadReversed, MarkReversed, ReadRefundable,
       ReadPending, ReadApproved, CheckPosting, Read, Passes
  <2>. HIDE DEF Goal
  <2>. QED  BY <1>1, <1>2, <2>1
<1>7. ASSUME EnsureSystemAccount(r) \/ WriteInvoice(r) \/ UpdateReceipt(r) \/ PayRefund(r)
      PROVE  Goal
  <2>1. \E row, label : Update(r, row, label) \/ Passes(r, label, tx[r])
    BY <1>7, EnsureOf DEF WriteInvoice, UpdateReceipt, PayRefund
  <2>. HIDE DEF Goal
  <2>. QED  BY <1>2, <1>3, <2>1
<1>8. ASSUME NextNumber(r) \/ ReadReceipt(r) \/ ReadDeposit(r) \/ Recompute(r) \/ ListRows(r) \/ DeleteRows(r)
      PROVE  Goal
  <2>1. Rollback(r) \/ \E label, seen : seen.draft = tx[r].draft /\ Passes(r, label, seen)
    <3>1. tx[r] \in TxType
      BY AtStep
    <3>2. CASE NextNumber(r)
      BY <3>1, <3>2 DEF NextNumber, Read, Passes, TxType
    <3>3. CASE ReadReceipt(r)
      BY <3>1, <3>3 DEF ReadReceipt, Read, Passes, TxType
    <3>4. CASE ReadDeposit(r)
      BY <3>1, <3>4 DEF ReadDeposit, Read, Passes, TxType
    <3>5. CASE Recompute(r)
      BY <3>1, <3>5 DEF Recompute, Read, Passes, TxType
    <3>6. CASE ListRows(r) \/ DeleteRows(r)
      BY <3>1, <3>6 DEF ListRows, DeleteRows, Read, Passes, TxType
    <3>. QED  BY <1>8, <3>2, <3>3, <3>4, <3>5, <3>6
  <2>. QED  BY <1>1, <2>1, PassOf
<1>9. ASSUME NEW label, NEW e, Post(r, e, label, tx[r]),
             \/ /\ pc[r] = "postAllocation" /\ label = "decrement"
                /\ e = PartEntry(input[r], tx[r].n)
             \/ /\ pc[r] = "postReceipt" /\ label = "commit"
                /\ e = ReceiptEntry(input[r].receipt, Applied(OwnRows(r)))
             \/ /\ pc[r] = "reverseReceipt"
                /\ e.type \in {"RECEIPT_REVERSAL", "ALLOCATION_REVERSAL"}
             \/ /\ pc[r] = "postRefund" /\ label = "deduct"
                /\ e = RefundEntry(input[r].refund)
      PROVE  Goal
  <2>1. CASE ~Rollback(r)
    <3>1. /\ Passes(r, label, [tx[r] EXCEPT !.draft = @ \union {e}])
          /\ \A d \in journals \union tx[r].draft : ~SameReference(d, e)
      BY <1>9, <2>1, PostOf
    <3>2. pc'[r] = label /\ tx'[r].draft = tx[r].draft \union {e}
      BY <3>1, PassOf, AtStep DEF TxType
    <3>3. Drafts(r, e)
      BY <1>9, <3>1, <3>2 DEF Drafts
    <3>. QED  BY <3>3
  <2>. QED  BY <1>1, <2>1
<1>10. CASE PostAllocation(r)
  <2>1. PICK a \in OwnRows(r) : a.n = tx[r].n /\ Post(r, AllocationEntry(a), "decrement", tx[r])
    BY <1>10 DEF PostAllocation
  <2>2. AllocationEntry(a) = PartEntry(input[r], tx[r].n)
    BY <2>1 DEF OwnRows, PartEntry, AllocationEntry
  <2>3. pc[r] = "postAllocation"
    BY <1>10 DEF PostAllocation
  <2>. HIDE DEF Goal
  <2>. QED  BY <1>9, <2>1, <2>2, <2>3
<1>11. CASE PostReceipt(r)
  BY <1>9, <1>11 DEF PostReceipt
<1>12. CASE PostRefund(r)
  BY <1>9, <1>12 DEF PostRefund
<1>13. CASE ReverseReceipt(r)
  <2>1. PICK e \in Entries(r) : \/ Passes(r, "markReversed", tx[r])
                                \/ Post(r, ReversalOf(e), "markReversed", tx[r])
    BY <1>13 DEF ReverseReceipt, Read, Passes
  <2>2. e \in EntryType
    BY <2>1, AtStep DEF Entries, TypeInv, StateOK, TxType
  <2>3. ReversalOf(e).type \in {"RECEIPT_REVERSAL", "ALLOCATION_REVERSAL"}
    BY <2>2 DEF ReversalOf, EntryType
  <2>4. pc[r] = "reverseReceipt"
    BY <1>13 DEF ReverseReceipt
  <2>. HIDE DEF Goal
  <2>. QED  BY <1>2, <1>9, <2>1, <2>3, <2>4
<1>14. CASE ReverseAllocation(r)
  <2>. DEFINE left(a) == [tx[r] EXCEPT !.list = @ \ {a}]
  <2>1. PICK a \in tx[r].list :
          \/ Post(r, ReversalOf(AllocationEntry(a)), "increment", left(a))
          \/ \E label : Passes(r, label, left(a))
    BY <1>14 DEF ReverseAllocation, Read, Passes
  <2>2. left(a).draft = tx[r].draft /\ pc[r] = "reverseAllocation"
    BY <1>14, AtStep DEF TxType, ReverseAllocation
  <2>. DEFINE e == ReversalOf(AllocationEntry(a))
  <2>3. e.type \in {"RECEIPT_REVERSAL", "ALLOCATION_REVERSAL"}
    BY DEF ReversalOf, AllocationEntry
  <2>4. [left(a) EXCEPT !.draft = @ \union {e}].draft = tx[r].draft \union {e}
    BY <2>2, AtStep DEF TxType
  <2>. HIDE DEF left, e
  <2>5. CASE \E label : Passes(r, label, left(a))
    BY <2>2, <2>5, PassOf
  <2>6. CASE Post(r, e, "increment", left(a)) /\ ~Rollback(r)
    <3>. DEFINE wrote == [left(a) EXCEPT !.draft = @ \union {e}]
    <3>1. /\ Passes(r, "increment", wrote)
          /\ \A d \in journals \union tx[r].draft : ~SameReference(d, e)
      BY <2>6, PostOf
    <3>2. tx'[r].draft = tx[r].draft \union {e}
      <4>1. wrote.draft = tx[r].draft \union {e}
        BY <2>4
      <4>. HIDE DEF wrote
      <4>. QED  BY <3>1, <4>1, PassOf
    <3>3. Drafts(r, e)
      BY <2>2, <2>3, <3>1, <3>2 DEF Drafts
    <3>. QED  BY <3>3
  <2>. QED  BY <1>1, <2>1, <2>5, <2>6 DEF e
<1>. HIDE DEF Goal
<1>. QED  BY <1>4, <1>5, <1>6, <1>7, <1>8, <1>10, <1>11, <1>12, <1>13, <1>14 DEF Step, Writes

LEMMA OthersStay ==
  ASSUME TypeInv, NEW r \in Requests, Submit(r) \/ Step(r) \/ Abort(r)
  PROVE  /\ input' = input
         /\ \A q \in Requests \ {r} : pc'[q] = pc[q] /\ tx'[q] = tx[q]
         /\ ~Writes(r) => UNCHANGED money
<1>1. CASE Writes(r)
  <2>1. Answer(r, "done")
    BY <1>1 DEF Writes, InsertRefund, Decide, SetRefund, Commit
  <2>2. Moves(r, "done", Fresh)
    BY <2>1, AnswerMoves
  <2>. QED  BY <1>1, <2>2, MoveOf
<1>2. CASE ~Writes(r)
  BY <1>2, StepQuiet, MoveOf DEF Quiet
<1>. QED  BY <1>1, <1>2

-------------------------------------------------------------------------------
(* Refunds.  A refund is posted before it is paid.                         *)
RefundPosted ==
  \A r \in Requests :
    /\ \A e \in tx[r].draft : e.type = "REFUND" =>
         input[r].kind = "PAY" /\ e = RefundEntry(input[r].refund)
    /\ input[r].kind = "PAY" /\ pc[r] \in {"deduct", "payRefund", "commit"}
         => RefundEntry(input[r].refund) \in Entries(r)

PaidIsPosted == \A f \in Refunds : refundStatus[f] = "PAID" => RefundEntry(f) \in journals

PostedInv == RefundPosted /\ PaidIsPosted

(* The statements of the refund requests. *)
LEMMA PayActions ==
  ASSUME TypeInv, NEW r \in Requests, Step(r), input[r].kind = "PAY"
  PROVE  \/ ReadApproved(r) \/ EnsureSystemAccount(r) \/ CheckPosting(r) \/ PostRefund(r)
         \/ UpdateReceipt(r) \/ PayRefund(r) \/ Commit(r)
<1>1. pc[r] \in Ends \union {"readApproved", "refundDeposits", "checkPosting", "refundBank",
                             "postRefund", "deduct", "payRefund", "commit"}
  BY AtStep DEF OnPath, PathOf
<1>2. ~ (NextNumber(r) \/ InsertReceipt(r) \/ ReadReceipt(r) \/ ReadInvoices(r) \/ ReadDeposit(r))
  BY <1>1 DEF Ends, NextNumber, InsertReceipt, ReadReceipt, ReadInvoices, ReadDeposit
<1>3. ~ (PostAllocation(r) \/ Recompute(r) \/ WriteInvoice(r) \/ PostReceipt(r))
  BY <1>1 DEF Ends, PostAllocation, Recompute, WriteInvoice, PostReceipt
<1>4. ~ (\/ ReadReversed(r) \/ ListRows(r) \/ DeleteRows(r) \/ ReverseAllocation(r)
         \/ ReverseReceipt(r) \/ MarkReversed(r) \/ ReadRefundable(r) \/ ReadPending(r)
         \/ InsertRefund(r) \/ Decide(r))
  BY <1>1 DEF Ends, ReadReversed, ListRows, DeleteRows, ReverseAllocation, ReverseReceipt,
     MarkReversed, ReadRefundable, ReadPending, InsertRefund, Decide
<1>. QED  BY <1>2, <1>3, <1>4 DEF Step

LEMMA DecisionActions ==
  ASSUME TypeInv, NEW r \in Requests, Step(r), input[r].kind \in {"REFUND", "APPROVE", "REJECT"}
  PROVE  ReadRefundable(r) \/ InsertRefund(r) \/ ReadPending(r) \/ Decide(r)
<1>1. pc[r] \in Ends \union {"readRefundable", "insertRefund", "readPending", "decide"}
  BY AtStep DEF OnPath, PathOf
<1>2. ~ (NextNumber(r) \/ InsertReceipt(r) \/ ReadReceipt(r) \/ ReadInvoices(r) \/ ReadDeposit(r))
  BY <1>1 DEF Ends, NextNumber, InsertReceipt, ReadReceipt, ReadInvoices, ReadDeposit
<1>3. ~ (PostAllocation(r) \/ Recompute(r) \/ WriteInvoice(r) \/ PostReceipt(r) \/ Commit(r))
  BY <1>1 DEF Ends, PostAllocation, Recompute, WriteInvoice, PostReceipt, Commit
<1>4. ~ (\/ ReadReversed(r) \/ ListRows(r) \/ DeleteRows(r) \/ ReverseAllocation(r)
         \/ ReverseReceipt(r) \/ MarkReversed(r))
  BY <1>1 DEF Ends, ReadReversed, ListRows, DeleteRows, ReverseAllocation, ReverseReceipt,
     MarkReversed
<1>5. ~ (\/ EnsureSystemAccount(r) \/ UpdateReceipt(r) \/ ReadApproved(r) \/ CheckPosting(r)
         \/ PostRefund(r) \/ PayRefund(r))
  BY <1>1 DEF Ends, EnsureSystemAccount, AccountCall, UpdateReceipt, ReadApproved, CheckPosting,
     PostRefund, PayRefund
<1>. QED  BY <1>2, <1>3, <1>4, <1>5 DEF Step

LEMMA PaySteps ==
  ASSUME TypeInv, NEW r \in Requests, Submit(r) \/ Step(r) \/ Abort(r), ~Writes(r),
         input[r].kind = "PAY", pc'[r] \in {"deduct", "payRefund", "commit"}
  PROVE  \/ /\ tx'[r] = tx[r]
            /\ \/ pc[r] \in {"deduct", "payRefund", "commit"}
               \/ RefundEntry(input[r].refund) \in Entries(r)
         \/ RefundEntry(input[r].refund) \in tx'[r].draft
<1>1. /\ pc[r] \in Ends \union {"readApproved", "refundDeposits", "checkPosting", "refundBank",
                                "postRefund", "deduct", "payRefund", "commit"}
      /\ pc \in [Requests -> Pcs] /\ tx[r] \in TxType
  BY AtStep DEF OnPath, PathOf, TypeInv, StateOK, TypeOK, Pcs
<1>2. \/ Submit(r) \/ ReadApproved(r) \/ EnsureSystemAccount(r) \/ CheckPosting(r) \/ PostRefund(r)
      \/ UpdateReceipt(r) \/ PayRefund(r) \/ Abort(r)
  BY PayActions DEF Writes
<1>3. CASE Rollback(r)
  BY <1>3, RollbackOf
<1>4. CASE Submit(r)
  BY <1>1, <1>4 DEF Submit, Goto, FirstStep
<1>5. CASE ReadApproved(r)
  <2>1. Rollback(r) \/ Passes(r, "refundDeposits", tx[r])
    BY <1>5 DEF ReadApproved, Read, Passes
  <2>. QED  BY <1>3, <2>1, PassOf
<1>6. CASE EnsureSystemAccount(r)
  <2>1. pc'[r] = AccountCall[pc[r]][2] /\ pc[r] \in DOMAIN AccountCall
    BY <1>6, EnsureOf
  <2>. QED  BY <2>1 DEF AccountCall
<1>7. CASE CheckPosting(r)
  <2>1. \/ Rollback(r)
        \/ RefundEntry(input[r].refund) \in Entries(r) /\ Passes(r, "deduct", tx[r])
        \/ Passes(r, "refundBank", tx[r])
    BY <1>7 DEF CheckPosting, Read, Passes
  <2>. QED  BY <1>3, <2>1, PassOf
<1>8. CASE PostRefund(r)
  <2>. DEFINE e == RefundEntry(input[r].refund)
              wrote == [tx[r] EXCEPT !.draft = @ \union {e}]
  <2>1. Rollback(r) \/ Passes(r, "deduct", wrote)
    BY <1>8, PostOf DEF PostRefund
  <2>2. e \in wrote.draft
    BY <1>1 DEF TxType
  <2>. HIDE DEF wrote
  <2>. QED  BY <1>3, <2>1, <2>2, PassOf
<1>9. CASE UpdateReceipt(r) \/ PayRefund(r)
  <2>1. tx' = tx /\ pc[r] \in {"deduct", "payRefund"}
    BY <1>1, <1>9 DEF UpdateReceipt, PayRefund, Update, Ends
  <2>. QED  BY <2>1
<1>10. CASE Abort(r)
  BY <1>3, <1>10 DEF Abort
<1>. QED  BY <1>2, <1>4, <1>5, <1>6, <1>7, <1>8, <1>9, <1>10

LEMMA NextPostedInv ==
  ASSUME TypeInv, PostedInv, [Next]_vars
  PROVE  PostedInv'
<1>1. CASE UNCHANGED vars
  BY <1>1 DEF PostedInv, RefundPosted, PaidIsPosted, Entries, vars, money
<1>2. ASSUME NEW r \in Requests, Submit(r) \/ Step(r) \/ Abort(r)
      PROVE  PostedInv'
  <2>1. /\ input' = input
        /\ \A q \in Requests \ {r} : pc'[q] = pc[q] /\ tx'[q] = tx[q]
    BY <1>2, OthersStay
  <2>2. journals \subseteq journals'
    BY <1>2, OthersStay DEF Writes, InsertRefund, Decide, SetRefund, Commit, PublishJournals, money
  <2>3. ASSUME NEW q \in Requests \ {r}
        PROVE  /\ \A e \in tx'[q].draft : e.type = "REFUND" =>
                    input'[q].kind = "PAY" /\ e = RefundEntry(input'[q].refund)
               /\ input'[q].kind = "PAY" /\ pc'[q] \in {"deduct", "payRefund", "commit"}
                    => RefundEntry(input'[q].refund) \in journals' \union tx'[q].draft
    BY <2>1, <2>2 DEF PostedInv, RefundPosted, Entries
  <2>4. CASE ~Writes(r)
    <3>1. UNCHANGED money
      BY <1>2, <2>4, OthersStay
    <3>2. PaidIsPosted'
      BY <3>1 DEF PostedInv, PaidIsPosted, money
    <3>3. \A e \in tx'[r].draft : e.type = "REFUND" =>
                    input[r].kind = "PAY" /\ e = RefundEntry(input[r].refund)
      <4>1. CASE tx'[r] = Fresh
        BY <4>1, FreshType, AtStep, BodyType DEF TypeInv, StateOK
      <4>2. CASE tx'[r].draft = tx[r].draft
        BY <4>2 DEF PostedInv, RefundPosted
      <4>3. ASSUME NEW e, Drafts(r, e), e.type = "REFUND"
            PROVE  input[r].kind = "PAY" /\ e = RefundEntry(input[r].refund)
        <5>1. pc[r] = "postRefund" /\ e = RefundEntry(input[r].refund)
          BY <4>3 DEF Drafts, PartEntry, AllocationEntry, ReceiptEntry
        <5>2. input[r].kind = "PAY"
          BY <5>1, AtStep DEF OnPath, PathOf, Kinds, Ends, Allocating
        <5>. QED  BY <5>1, <5>2
      <4>4. ASSUME NEW e, Drafts(r, e)
            PROVE  tx'[r].draft = tx[r].draft \union {e}
        BY <4>4 DEF Drafts
      <4>. QED  BY <1>2, <2>4, <4>1, <4>2, <4>3, <4>4, DraftSteps DEF PostedInv, RefundPosted
    <3>4. input[r].kind = "PAY" /\ pc'[r] \in {"deduct", "payRefund", "commit"}
            => RefundEntry(input[r].refund) \in journals' \union tx'[r].draft
      BY <1>2, <2>2, <2>4, PaySteps DEF PostedInv, RefundPosted, Entries
    <3>5. RefundPosted'
      BY <2>1, <2>3, <3>3, <3>4 DEF RefundPosted, Entries
    <3>. QED  BY <3>2, <3>5 DEF PostedInv
  <2>5. CASE Writes(r)
    <3>1. pc'[r] = "done" /\ tx'[r] = Fresh
      <4>1. Answer(r, "done")
        BY <2>5 DEF Writes, InsertRefund, Decide, SetRefund, Commit
      <4>2. Moves(r, "done", Fresh)
        BY <4>1, AnswerMoves
      <4>. QED  BY <4>2, MoveOf
    <3>2. Fresh.draft = {}
      BY FreshType, BodyType DEF TypeInv, StateOK
    <3>3. RefundPosted'
      BY <2>1, <2>3, <3>1, <3>2 DEF RefundPosted, Entries
    <3>4. PaidIsPosted'
      <4>1. CASE InsertRefund(r) \/ Decide(r)
        <5>1. journals' = journals
          BY <4>1 DEF InsertRefund, Decide, SetRefund
        <5>2. \A f \in Refunds : refundStatus'[f] = "PAID" => refundStatus[f] = "PAID"
          BY <4>1 DEF InsertRefund, Decide, SetRefund, TypeInv, StateOK, TypeOK
        <5>. QED  BY <5>1, <5>2 DEF PostedInv, PaidIsPosted
      <4>2. CASE Commit(r)
        <5>1. \A f \in Refunds : refundStatus'[f] = "PAID" =>
                refundStatus[f] = "PAID" \/ (input[r].kind = "PAY" /\ f = input[r].refund)
          BY <4>2 DEF Commit
        <5>2. journals' = Entries(r) /\ pc[r] = "commit"
          BY <4>2 DEF Commit, PublishJournals, Entries
        <5>3. input[r].kind = "PAY" => RefundEntry(input[r].refund) \in journals'
          BY <5>2 DEF PostedInv, RefundPosted
        <5>. QED  BY <2>2, <5>1, <5>3 DEF PostedInv, PaidIsPosted
      <4>. QED  BY <2>5, <4>1, <4>2 DEF Writes
    <3>. QED  BY <3>3, <3>4 DEF PostedInv
  <2>. QED  BY <2>4, <2>5
<1>. QED  BY <1>1, <1>2 DEF Next, Quiescent

LEMMA InitPostedInv ==
  ASSUME Init
  PROVE  PostedInv
<1>1. TypeInv
  BY InitTypeInv
<1>2. \A r \in Requests : tx[r].draft = {} /\ pc[r] = "idle"
  BY <1>1, FreshType, BodyType DEF Init, TypeInv, StateOK
<1>3. \A f \in Refunds : refundStatus[f] # "PAID"
  BY DEF Init
<1>. QED  BY <1>2, <1>3 DEF PostedInv, RefundPosted, PaidIsPosted

(***************************************************************************)
(* The other way round it is not so for every workload: a second decision  *)
(* may come between the reading of a refund and its payment.  With at most *)
(* one decision per refund what a request has read is still so when it     *)
(* writes.                                                                 *)
(***************************************************************************)
DecidedOnce ==
  \A w \in Workloads : \A q, r \in Requests :
    /\ w[q].kind \in {"APPROVE", "REJECT"}
    /\ w[r].kind \in {"APPROVE", "REJECT"}
    /\ w[q].refund = w[r].refund
    => q = r

Paying == {"refundDeposits", "checkPosting", "refundBank", "postRefund", "deduct", "payRefund",
           "commit"}

ReadStands(r) ==
  /\ input[r].kind = "REFUND" /\ pc[r] \in {"readRefundable", "insertRefund"}
       => refundStatus[input[r].refund] = "ABSENT"
  /\ pc[r] = "decide" => refundStatus[input[r].refund] = "PENDING_APPROVAL"
  /\ input[r].kind = "PAY" /\ pc[r] \in Paying
       => refundStatus[input[r].refund] \in {"APPROVED", "PAID"}

CreatedOnce ==
  \A q, r \in Requests :
    /\ input[q].kind = "REFUND" /\ pc[q] # "idle"
    /\ input[r].kind = "REFUND" /\ pc[r] # "idle"
    /\ input[q].refund = input[r].refund
    => q = r

RefundInv == (\A r \in Requests : ReadStands(r)) /\ CreatedOnce /\ PaidRefundsArePosted

(* How a refund's status changes. *)
StatusSteps ==
  \A f \in Refunds :
    \/ refundStatus'[f] = refundStatus[f]
    \/ refundStatus[f] = "ABSENT" /\ refundStatus'[f] = "PENDING_APPROVAL"
    \/ refundStatus[f] = "PENDING_APPROVAL" /\ refundStatus'[f] \in {"APPROVED", "REJECTED"}
    \/ refundStatus[f] \in {"APPROVED", "PAID"} /\ refundStatus'[f] = "PAID"

LEMMA RefundType ==
  ASSUME TypeInv, NEW r \in Requests, input[r].kind \in {"REFUND", "APPROVE", "REJECT", "PAY"}
  PROVE  input[r].refund \in Refunds
BY BodyType DEF TypeInv, StateOK, WellFormed

(* What a write of r finds and leaves. *)
LEMMA WriteSteps ==
  ASSUME TypeInv, RefundInv, NEW r \in Requests, Writes(r)
  PROVE  LET f == input[r].refund IN
         /\ pc'[r] = "done"
         /\ \A g \in Refunds : g # f => refundStatus'[g] = refundStatus[g]
         /\ \/ /\ input[r].kind = "REFUND" /\ pc[r] = "insertRefund" /\ journals' = journals
               /\ refundStatus[f] = "ABSENT" /\ refundStatus'[f] = "PENDING_APPROVAL"
            \/ /\ input[r].kind \in {"APPROVE", "REJECT"} /\ pc[r] = "decide" /\ journals' = journals
               /\ refundStatus[f] = "PENDING_APPROVAL" /\ refundStatus'[f] \in {"APPROVED", "REJECTED"}
            \/ /\ input[r].kind = "PAY" /\ pc[r] = "commit" /\ journals' = Entries(r)
               /\ refundStatus[f] \in {"APPROVED", "PAID"} /\ refundStatus'[f] = "PAID"
            \/ /\ input[r].kind \notin {"REFUND", "APPROVE", "REJECT", "PAY"}
               /\ pc[r] = "commit" /\ journals' = Entries(r)
               /\ \A g \in Refunds : refundStatus'[g] = refundStatus[g]
<1>. DEFINE f == input[r].refund
<1>1. pc'[r] = "done"
  <2>1. Answer(r, "done")
    BY DEF Writes, InsertRefund, Decide, SetRefund, Commit
  <2>2. Moves(r, "done", Fresh)
    BY <2>1, AnswerMoves
  <2>. QED  BY <2>2, MoveOf
<1>2. refundStatus \in [Refunds -> {"ABSENT", "PENDING_APPROVAL", "APPROVED", "REJECTED", "PAID"}]
  BY DEF TypeInv, StateOK, TypeOK
<1>3. CASE InsertRefund(r)
  <2>1. input[r].kind = "REFUND" /\ pc[r] = "insertRefund"
    BY <1>3, AtStep DEF InsertRefund, OnPath, PathOf, Kinds, Ends, Allocating
  <2>2. refundStatus[f] = "ABSENT" /\ f \in Refunds
    BY <2>1, RefundType DEF RefundInv, ReadStands
  <2>3. refundStatus' = [refundStatus EXCEPT ![f] = "PENDING_APPROVAL"] /\ journals' = journals
    BY <1>3 DEF InsertRefund, SetRefund
  <2>. QED  BY <1>1, <1>2, <2>1, <2>2, <2>3
<1>4. CASE Decide(r)
  <2>1. input[r].kind \in {"APPROVE", "REJECT"} /\ pc[r] = "decide"
    BY <1>4, AtStep DEF Decide, OnPath, PathOf, Kinds, Ends, Allocating
  <2>2. refundStatus[f] = "PENDING_APPROVAL" /\ f \in Refunds
    BY <2>1, RefundType DEF RefundInv, ReadStands
  <2>3. /\ \E status \in {"APPROVED", "REJECTED"} : refundStatus' = [refundStatus EXCEPT ![f] = status]
        /\ journals' = journals
    BY <1>4 DEF Decide, SetRefund
  <2>. QED  BY <1>1, <1>2, <2>1, <2>2, <2>3
<1>5. CASE Commit(r)
  <2>1. input[r].kind \in {"CREATE", "ALLOCATE", "REVERSE", "PAY"} /\ pc[r] = "commit"
    BY <1>5, AtStep DEF Commit, OnPath, PathOf, Kinds, Ends, Allocating
  <2>2. journals' = Entries(r)
    BY <1>5 DEF Commit, PublishJournals, Entries
  <2>3. refundStatus' = [g \in Refunds |-> IF input[r].kind = "PAY" /\ g = f THEN "PAID"
                                                                           ELSE refundStatus[g]]
    BY <1>5 DEF Commit
  <2>4. CASE input[r].kind = "PAY"
    <3>1. f \in Refunds /\ refundStatus[f] \in {"APPROVED", "PAID"}
      BY <2>1, <2>4, RefundType DEF RefundInv, ReadStands, Paying
    <3>. QED  BY <1>1, <2>1, <2>2, <2>3, <2>4, <3>1
  <2>5. CASE input[r].kind # "PAY"
    BY <1>1, <2>1, <2>2, <2>3, <2>5
  <2>. QED  BY <2>4, <2>5
<1>. QED  BY <1>3, <1>4, <1>5 DEF Writes

(* What a step of r that writes nothing has read. *)
LEMMA ReadSteps ==
  ASSUME TypeInv, RefundInv, NEW r \in Requests, Submit(r) \/ Step(r) \/ Abort(r), ~Writes(r)
  PROVE  /\ /\ input[r].kind = "REFUND" /\ pc'[r] \in {"readRefundable", "insertRefund"}
              => refundStatus[input[r].refund] = "ABSENT"
         /\ pc'[r] = "decide" => refundStatus[input[r].refund] = "PENDING_APPROVAL"
         /\ /\ input[r].kind = "PAY" /\ pc'[r] \in Paying
              => refundStatus[input[r].refund] \in {"APPROVED", "PAID"}
         /\ pc[r] = "idle" => FreshId(r)
<1>1. OnPath(pc'[r], input[r], tx'[r]) /\ pc'[r] \in Pcs
  BY NextTypeInv, OthersStay, StepQuiet, MoveTypeInv, MoveOf DEF Quiet, PathOK
<1>2. CASE Submit(r)
  <2>1. pc'[r] = FirstStep[input[r].kind] /\ FreshId(r) /\ input[r].kind \in Kinds
    BY <1>2, AtStep DEF Submit, Goto, TypeInv, StateOK, TypeOK
  <2>. QED  BY <2>1 DEF FreshId, FirstStep, Kinds, Paying
<1>3. CASE Abort(r)
  <2>1. Rollback(r) /\ pc[r] # "idle"
    BY <1>3 DEF Abort, InTx, Autocommit
  <2>. QED  BY <2>1, RollbackOf DEF Paying
<1>4. CASE Step(r) /\ input[r].kind = "PAY"
  <2>1. pc[r] # "idle"
    BY <1>4, PayActions DEF ReadApproved, EnsureSystemAccount, AccountCall, CheckPosting, PostRefund,
       UpdateReceipt, PayRefund, Commit
  <2>2. pc'[r] # "decide"
    BY <1>1, <1>4 DEF OnPath, PathOf, Ends
  <2>3. pc[r] \in Paying => refundStatus[input[r].refund] \in {"APPROVED", "PAID"}
    BY <1>4 DEF RefundInv, ReadStands
  <2>4. CASE pc[r] \notin Paying
    <3>1. ReadApproved(r)
      <4>1. pc[r] \in Ends \union {"readApproved"}
        BY <1>4, <2>4, AtStep DEF Paying, OnPath, PathOf
      <4>2. ~ (\/ EnsureSystemAccount(r) \/ CheckPosting(r) \/ PostRefund(r) \/ UpdateReceipt(r)
               \/ PayRefund(r) \/ Commit(r))
        BY <4>1 DEF EnsureSystemAccount, AccountCall, CheckPosting, PostRefund, UpdateReceipt,
           PayRefund, Commit, Ends
      <4>. QED  BY <1>4, <4>2, PayActions
    <3>2. \/ Rollback(r)
          \/ refundStatus[input[r].refund] = "APPROVED"
      BY <3>1 DEF ReadApproved, Read
    <3>. QED  BY <1>4, <2>1, <2>2, <3>2, RollbackOf DEF Paying
  <2>. QED  BY <1>4, <2>1, <2>2, <2>3, <2>4
<1>5. CASE Step(r) /\ input[r].kind \in {"REFUND", "APPROVE", "REJECT"}
  <2>1. ReadRefundable(r) \/ ReadPending(r)
    BY <1>5, DecisionActions DEF Writes
  <2>2. CASE ReadRefundable(r)
    <3>1. pc[r] = "readRefundable" /\ (Rollback(r) \/ Passes(r, "insertRefund", tx[r]))
      BY <2>2 DEF ReadRefundable, Read, Passes
    <3>2. input[r].kind = "REFUND"
      BY <3>1, AtStep DEF OnPath, PathOf, Kinds, Ends, Allocating
    <3>3. refundStatus[input[r].refund] = "ABSENT"
      BY <3>1, <3>2 DEF RefundInv, ReadStands
    <3>. QED  BY <3>1, <3>2, <3>3, PassOf, RollbackOf
  <2>3. CASE ReadPending(r)
    <3>1. /\ pc[r] = "readPending"
          /\ \/ Rollback(r)
             \/ Passes(r, "decide", tx[r]) /\ refundStatus[input[r].refund] = "PENDING_APPROVAL"
      BY <2>3 DEF ReadPending, Read, Passes
    <3>2. pc'[r] \in {"failed", "decide"}
      BY <3>1, PassOf, RollbackOf
    <3>. QED  BY <1>5, <3>1, <3>2, RollbackOf
  <2>. QED  BY <2>1, <2>2, <2>3
<1>6. CASE Step(r) /\ input[r].kind \notin {"REFUND", "APPROVE", "REJECT", "PAY"}
  <2>1. pc'[r] # "decide"
    BY <1>1, <1>6, AtStep DEF OnPath, PathOf, Kinds, Ends, Allocating
  <2>2. input[r].kind \in {"CREATE", "ALLOCATE", "REVERSE"}
    BY <1>6, AtStep DEF Kinds
  <2>3. FreshId(r) \/ pc[r] # "idle"
    BY <1>6 DEF Step, NextNumber, InsertReceipt, ReadReceipt, ReadInvoices, ReadDeposit,
       EnsureSystemAccount, AccountCall, PostAllocation, Recompute, WriteInvoice, UpdateReceipt,
       PostReceipt, ReadReversed, ListRows, DeleteRows, ReverseAllocation, ReverseReceipt,
       MarkReversed, ReadRefundable, InsertRefund, ReadPending, Decide, ReadApproved, CheckPosting,
       PostRefund, PayRefund, Commit
  <2>. QED  BY <1>6, <2>1, <2>2, <2>3
<1>. QED  BY <1>2, <1>3, <1>4, <1>5, <1>6

LEMMA NextRefundInv ==
  ASSUME TypeInv, PostedInv, RefundInv, DecidedOnce, [Next]_vars
  PROVE  RefundInv' /\ StatusSteps
<1>1. CASE UNCHANGED vars
  BY <1>1 DEF RefundInv, ReadStands, CreatedOnce, PaidRefundsArePosted, StatusSteps, vars, money
<1>2. ASSUME NEW r \in Requests, Submit(r) \/ Step(r) \/ Abort(r)
      PROVE  RefundInv' /\ StatusSteps
  <2>1. /\ input' = input
        /\ \A q \in Requests \ {r} : pc'[q] = pc[q] /\ tx'[q] = tx[q]
    BY <1>2, OthersStay
  <2>2. CASE ~Writes(r)
    <3>1. UNCHANGED <<refundStatus, journals>>
      BY <1>2, <2>2, OthersStay DEF money
    <3>2. /\ input[r].kind = "REFUND" /\ pc'[r] \in {"readRefundable", "insertRefund"}
               => refundStatus[input[r].refund] = "ABSENT"
          /\ pc'[r] = "decide" => refundStatus[input[r].refund] = "PENDING_APPROVAL"
          /\ input[r].kind = "PAY" /\ pc'[r] \in Paying
               => refundStatus[input[r].refund] \in {"APPROVED", "PAID"}
          /\ pc[r] = "idle" => FreshId(r)
      BY <1>2, <2>2, ReadSteps
    <3>3. \A q \in Requests : ReadStands(q)'
      BY <2>1, <3>1, <3>2 DEF RefundInv, ReadStands
    <3>4. CreatedOnce'
      <4>1. ASSUME NEW q \in Requests, q # r, input[q].kind = "REFUND", pc[q] # "idle",
                   input[r].kind = "REFUND", input[q].refund = input[r].refund
            PROVE  pc[r] # "idle"
        <5>. DEFINE Others == {input[p] : p \in {p \in Requests \ {r} : pc[p] # "idle" /\ input[p].kind = "REFUND"}}
        <5>1. FreshId(r) => \A o \in Others : o.refund # input[r].refund
          BY <4>1 DEF FreshId
        <5>2. input[q] \in Others
          BY <4>1
        <5>. HIDE DEF Others
        <5>. QED  BY <3>2, <4>1, <5>1, <5>2
      <4>2. ASSUME NEW p \in Requests, NEW q \in Requests,
                   input[p].kind = "REFUND", pc'[p] # "idle",
                   input[q].kind = "REFUND", pc'[q] # "idle",
                   input[p].refund = input[q].refund
            PROVE  p = q
        <5>1. CASE p # r /\ q # r
          BY <2>1, <4>2, <5>1 DEF RefundInv, CreatedOnce
        <5>2. CASE p = r /\ q # r
          BY <2>1, <4>1, <4>2, <5>2 DEF RefundInv, CreatedOnce
        <5>3. CASE p # r /\ q = r
          BY <2>1, <4>1, <4>2, <5>3 DEF RefundInv, CreatedOnce
        <5>. QED  BY <5>1, <5>2, <5>3
      <4>. QED  BY <2>1, <4>2 DEF CreatedOnce
    <3>5. PaidRefundsArePosted' /\ StatusSteps
      BY <3>1 DEF RefundInv, PaidRefundsArePosted, StatusSteps
    <3>. QED  BY <3>3, <3>4, <3>5 DEF RefundInv
  <2>3. CASE Writes(r)
    <3>. DEFINE f == input[r].refund
    <3>1. /\ pc'[r] = "done"
          /\ \A g \in Refunds : g # f => refundStatus'[g] = refundStatus[g]
      BY <2>3, WriteSteps
    <3>2. \/ /\ input[r].kind = "REFUND" /\ pc[r] = "insertRefund" /\ journals' = journals
             /\ refundStatus[f] = "ABSENT" /\ refundStatus'[f] = "PENDING_APPROVAL"
          \/ /\ input[r].kind \in {"APPROVE", "REJECT"} /\ pc[r] = "decide" /\ journals' = journals
             /\ refundStatus[f] = "PENDING_APPROVAL" /\ refundStatus'[f] \in {"APPROVED", "REJECTED"}
          \/ /\ input[r].kind = "PAY" /\ pc[r] = "commit" /\ journals' = Entries(r)
             /\ refundStatus[f] \in {"APPROVED", "PAID"} /\ refundStatus'[f] = "PAID"
          \/ /\ input[r].kind \notin {"REFUND", "APPROVE", "REJECT", "PAY"}
             /\ pc[r] = "commit" /\ journals' = Entries(r)
             /\ \A g \in Refunds : refundStatus'[g] = refundStatus[g]
      BY <2>3, WriteSteps
    <3>3. StatusSteps
      BY <3>1, <3>2 DEF StatusSteps
    <3>4. CreatedOnce'
      <4>1. pc[r] # "idle"
        BY <3>2
      <4>. QED  BY <2>1, <3>1, <4>1 DEF RefundInv, CreatedOnce
    <3>5. ASSUME NEW q \in Requests PROVE ReadStands(q)'
      <4>1. CASE q = r
        BY <3>1, <4>1 DEF ReadStands, Paying
      <4>2. CASE q # r /\ input[q].refund \notin Refunds
        <5>1. input[q].kind \notin {"REFUND", "APPROVE", "REJECT", "PAY"}
          BY <4>2, RefundType
        <5>2. pc[q] # "decide"
          BY <5>1, AtStep DEF OnPath, PathOf, Kinds, Ends, Allocating
        <5>. QED  BY <2>1, <4>2, <5>1, <5>2 DEF ReadStands
      <4>3. CASE q # r /\ input[q].refund \in Refunds /\ input[q].refund # f
        BY <2>1, <3>1, <4>3 DEF RefundInv, ReadStands
      <4>4. CASE q # r /\ input[q].refund \in Refunds /\ input[q].refund = f
                 /\ refundStatus'[f] # refundStatus[f]
        <5>1. ReadStands(q) /\ pc'[q] = pc[q] /\ input'[q] = input[q] /\ input[q].refund = f
          BY <2>1, <4>4 DEF RefundInv
        <5>2. pc[q] = "decide" => input[q].kind \in {"APPROVE", "REJECT"}
          BY AtStep DEF OnPath, PathOf, Kinds, Ends, Allocating
        <5>3. ~ (input[q].kind = "REFUND" /\ input[r].kind = "REFUND" /\ pc[r] = "insertRefund"
                 /\ pc[q] \in {"readRefundable", "insertRefund"})
          BY <4>4 DEF RefundInv, CreatedOnce
        <5>4. ~ (input[q].kind \in {"APPROVE", "REJECT"} /\ input[r].kind \in {"APPROVE", "REJECT"})
          BY <4>4 DEF DecidedOnce, TypeInv, StateOK
        <5>5. CASE input[r].kind = "REFUND"
          BY <3>2, <4>4, <5>1, <5>3, <5>5 DEF ReadStands
        <5>6. CASE input[r].kind \in {"APPROVE", "REJECT"}
          BY <3>2, <4>4, <5>1, <5>2, <5>4, <5>6 DEF ReadStands
        <5>7. CASE input[r].kind = "PAY"
          BY <3>2, <4>4, <5>1, <5>7 DEF ReadStands
        <5>. QED  BY <3>2, <4>4, <5>5, <5>6, <5>7
      <4>5. CASE q # r /\ input[q].refund \in Refunds /\ input[q].refund = f
                 /\ refundStatus'[f] = refundStatus[f]
        BY <2>1, <4>5 DEF RefundInv, ReadStands
      <4>. QED  BY <4>1, <4>2, <4>3, <4>4, <4>5
    <3>6. PaidRefundsArePosted'
      <4>1. PaidIsPosted'
        BY <1>2, NextPostedInv DEF Next, PostedInv
      <4>2. ASSUME NEW g \in Refunds, RefundEntry(g) \in journals' PROVE refundStatus'[g] = "PAID"
        <5>1. CASE RefundEntry(g) \in journals
          <6>1. refundStatus[g] = "PAID"
            BY <5>1 DEF RefundInv, PaidRefundsArePosted
          <6>. QED  BY <3>3, <6>1 DEF StatusSteps
        <5>2. CASE RefundEntry(g) \notin journals
          <6>1. RefundEntry(g) \in tx[r].draft
            BY <3>2, <4>2, <5>2 DEF Entries
          <6>2. input[r].kind = "PAY" /\ RefundEntry(g) = RefundEntry(f)
            BY <6>1 DEF PostedInv, RefundPosted, RefundEntry
          <6>3. g = f
            BY <6>2 DEF RefundEntry
          <6>. QED  BY <3>2, <6>2, <6>3
        <5>. QED  BY <5>1, <5>2
      <4>. QED  BY <4>1, <4>2 DEF PaidIsPosted, PaidRefundsArePosted
    <3>. QED  BY <3>3, <3>4, <3>5, <3>6 DEF RefundInv
  <2>. QED  BY <2>2, <2>3
<1>. QED  BY <1>1, <1>2 DEF Next, Quiescent

LEMMA InitRefundInv ==
  ASSUME Init
  PROVE  RefundInv
<1>1. \A r \in Requests : pc[r] = "idle"
  BY DEF Init
<1>2. \A f \in Refunds : refundStatus[f] # "PAID"
  BY DEF Init
<1>3. \A e \in journals : e.type # "REFUND"
  BY DEF Init, ReceiptEntry, AllocationEntry
<1>4. \A f \in Refunds : RefundEntry(f) \notin journals
  BY <1>3 DEF RefundEntry
<1>. QED  BY <1>1, <1>2, <1>4 DEF RefundInv, ReadStands, CreatedOnce, PaidRefundsArePosted, Paying

(* A refund that is PAID has been posted, whatever else happens: status    *)
(* and entry are committed together (RefundService.markRefundPaid).        *)
THEOREM PaidRefundsWerePosted == Spec => []PaidIsPosted
<1>1. Init => TypeInv /\ PostedInv
  BY InitTypeInv, InitPostedInv
<1>2. TypeInv /\ PostedInv /\ [Next]_vars => (TypeInv /\ PostedInv)'
  BY NextTypeInv, NextPostedInv
<1>3. PostedInv => PaidIsPosted
  BY DEF PostedInv
<1>. QED  BY <1>1, <1>2, <1>3, PTL DEF Spec

LEMMA RefundSteps ==
  ASSUME DecidedOnce
  PROVE  /\ Init => TypeInv /\ PostedInv /\ RefundInv
         /\ TypeInv /\ PostedInv /\ RefundInv /\ [Next]_vars
              => (TypeInv /\ PostedInv /\ RefundInv)' /\ StatusSteps
BY InitTypeInv, InitPostedInv, InitRefundInv, NextTypeInv, NextPostedInv, NextRefundInv

(* Where no refund is decided twice, a refund is PAID exactly when its     *)
(* payment is posted, however payments race with each other and with       *)
(* allocations, reversals and crashes (RefundService.markRefundPaid).      *)
THEOREM PaidRefundsMatchPostings ==
  ASSUME DecidedOnce
  PROVE  Spec => []PaidRefundsArePosted
<1>1. RefundInv => PaidRefundsArePosted
  BY DEF RefundInv
<1>. QED  BY <1>1, RefundSteps, PTL DEF Spec

(* Where no refund is decided twice, money leaves the bank for a refund    *)
(* only once somebody approved it: the approval read before the postings   *)
(* still stands when the payment commits.                                  *)
THEOREM PaidRefundsWereApproved ==
  ASSUME DecidedOnce
  PROVE  Spec => OnlyApprovedRefundsArePaid
<1>1. StatusSteps => \A f \in Refunds : refundStatus'[f] = "PAID" => refundStatus[f] \in {"APPROVED", "PAID"}
  BY DEF StatusSteps
<1>. QED  BY <1>1, RefundSteps, PTL DEF Spec, OnlyApprovedRefundsArePaid

(* Where no refund is decided twice, a rejected or paid refund stays so,   *)
(* whatever creations and payments of it are still running.                *)
THEOREM RefundDecisionsStand ==
  ASSUME DecidedOnce
  PROVE  Spec => DecisionsStand
<1>1. StatusSteps => \A f \in Refunds : refundStatus[f] \in {"REJECTED", "PAID"} =>
                                          refundStatus'[f] = refundStatus[f]
  BY DEF StatusSteps
<1>. QED  BY <1>1, RefundSteps, PTL DEF Spec, DecisionsStand

-------------------------------------------------------------------------------
(***************************************************************************)
(* Allocations.  A part that repeats the receipt, the invoice and the      *)
(* amount of an earlier one is taken for posted: its transaction skips the *)
(* updates of accounts 2300 and 1200 that would have made it wait, and the *)
(* paid amount it writes may miss a row.  A reversal recomputes invoices   *)
(* without those accounts.  Without either, the first of the two that is a *)
(* system account orders the recomputations with the commits; where both   *)
(* were made by hand nothing does, and the paid amount may be wrong.       *)
(***************************************************************************)
AccountIsLocked == SystemAccounts \intersect {"1200", "2300"} # {}

(* The account whose row allocations queue for, and the statements up to   *)
(* its update.                                                             *)
Queue == IF "2300" \in SystemAccounts THEN "2300" ELSE "1200"
Calling == {"allocateDeposits", "allocateReceivable"}
Asking == IF "2300" \in SystemAccounts THEN {"allocateDeposits"} ELSE Calling

Allocates(in) == in.kind \in {"CREATE", "ALLOCATE"}

NoReversals == \A w \in Workloads : \A r \in Requests : w[r].kind # "REVERSE"

PartsDiffer ==
  \A w \in Workloads : \A r \in Requests : Allocates(w[r]) =>
    \A k \in DOMAIN w[r].parts :
      /\ \A q \in Requests : Allocates(w[q]) /\ w[q].receipt = w[r].receipt =>
           \A j \in DOMAIN w[q].parts : w[q].parts[j] = w[r].parts[k] => q = r /\ j = k
      /\ \A a \in Opening :
           ~ (a.receipt = w[r].receipt /\ a.invoice = w[r].parts[k].invoice
              /\ a.amount = w[r].parts[k].amount)

(* Every entry of an allocation is of a row committed or inserted.         *)
EntriesHaveRows ==
  /\ \A e \in journals : e.type = "ALLOCATION" =>
       \/ \E a \in Opening : e = AllocationEntry(a)
       \/ \E q \in Requests : /\ pc[q] = "done" /\ Allocates(input[q])
                              /\ \E k \in DOMAIN input[q].parts : e = PartEntry(input[q], k)
  /\ \A r \in Requests : \A e \in tx[r].draft : e.type = "ALLOCATION" =>
       \E k \in 1..tx[r].n : e = PartEntry(input[r], k)

(* The statements between the insert of a part and the recomputation of    *)
(* its invoice.                                                            *)
Pending == {"allocateDeposits", "allocateReceivable", "postAllocation", "decrement", "recompute"}

(* A request that has inserted a part holds the row of that account, but   *)
(* for the moment before it asks for it the first time.                    *)
HoldsQueue(r) ==
  DOMAIN tx[r].paid # {} \/ (tx[r].n > 0 /\ pc[r] \notin Asking) => rowLock[Queue] = r

(* What a request will write is right for the rows it sees, but for the    *)
(* invoice it has still to recompute; and it writes every invoice it has   *)
(* inserted a row for.                                                     *)
PaidIsVisible(r) ==
  /\ \A i \in DOMAIN tx[r].paid : ~ (pc[r] \in Pending /\ i = tx[r].invoice) =>
       tx[r].paid[i] = Applied(RowsFor(Visible(r), i))
  /\ \A k \in 1..tx[r].n :
       LET i == input[r].parts[k].invoice IN
         i \in DOMAIN tx[r].paid \/ (pc[r] \in Pending /\ i = tx[r].invoice)

PaidInv ==
  /\ EntriesHaveRows
  /\ \A r \in Requests : HoldsQueue(r) /\ PaidIsVisible(r)
  /\ PaidIsAllocated

LEMMA PartEntriesDiffer ==
  ASSUME TypeInv, PartsDiffer, NEW r \in Requests, Allocates(input[r]),
         NEW k \in 1..Len(input[r].parts)
  PROVE  /\ \A a \in Opening : PartEntry(input[r], k) # AllocationEntry(a)
         /\ \A q \in Requests : Allocates(input[q]) =>
              \A j \in 1..Len(input[q].parts) :
                PartEntry(input[r], k) = PartEntry(input[q], j) => q = r /\ j = k
<1>1. input \in Workloads /\ k \in DOMAIN input[r].parts
  BY BodyType DEF TypeInv, StateOK, InputType
<1>2. ASSUME NEW a \in Opening, PartEntry(input[r], k) = AllocationEntry(a)
      PROVE  FALSE
  <2>1. /\ a.receipt = input[r].receipt /\ a.invoice = input[r].parts[k].invoice
        /\ a.amount = input[r].parts[k].amount
    BY <1>2 DEF PartEntry, AllocationEntry
  <2>. QED  BY <1>1, <2>1 DEF PartsDiffer
<1>3. ASSUME NEW q \in Requests, Allocates(input[q]), NEW j \in 1..Len(input[q].parts),
             PartEntry(input[r], k) = PartEntry(input[q], j)
      PROVE  q = r /\ j = k
  <2>1. /\ input[q].receipt = input[r].receipt
        /\ input[q].parts[j].invoice = input[r].parts[k].invoice
        /\ input[q].parts[j].amount = input[r].parts[k].amount
    BY <1>3 DEF PartEntry, AllocationEntry
  <2>2. input[q].parts[j] \in Part /\ input[r].parts[k] \in Part
    BY <1>1, PartType
  <2>. DEFINE one == input[q].parts[j]
              other == input[r].parts[k]
  <2>3. one = other
    <3>1. one.invoice = other.invoice /\ one.amount = other.amount /\ one \in Part /\ other \in Part
      BY <2>1, <2>2
    <3>. HIDE DEF one, other
    <3>. QED  BY <3>1 DEF Part
  <2>4. j \in DOMAIN input[q].parts
    BY <1>1, BodyType DEF InputType
  <2>. QED  BY <1>1, <1>3, <2>1, <2>3, <2>4 DEF PartsDiffer
<1>. QED  BY <1>2, <1>3

(* So no part is taken for posted. *)
LEMMA NothingIsSkipped ==
  ASSUME TypeInv, EntriesHaveRows, PartsDiffer, NEW r \in Requests, pc[r] = "readDeposit"
  PROVE  PartEntry(input[r], tx[r].n + 1) \notin Entries(r)
<1>. DEFINE n == tx[r].n + 1
<1>1. n \in 1..Len(input[r].parts) /\ Allocates(input[r]) /\ tx[r].n \in Nat
  BY AtStep DEF OnPath, PathOf, Kinds, Ends, Allocating, Allocates
<1>2. PartEntry(input[r], n).type = "ALLOCATION"
  BY DEF PartEntry, AllocationEntry
<1>3. ASSUME PartEntry(input[r], n) \in journals PROVE FALSE
  <2>. DEFINE e == PartEntry(input[r], n)
  <2>1. \/ \E a \in Opening : e = AllocationEntry(a)
        \/ \E q \in Requests : /\ pc[q] = "done" /\ Allocates(input[q])
                               /\ \E j \in DOMAIN input[q].parts : e = PartEntry(input[q], j)
    BY <1>2, <1>3 DEF EntriesHaveRows
  <2>2. /\ \A a \in Opening : e # AllocationEntry(a)
        /\ \A q \in Requests : Allocates(input[q]) =>
             \A j \in 1..Len(input[q].parts) : e = PartEntry(input[q], j) => q = r
    BY <1>1, PartEntriesDiffer
  <2>3. \A q \in Requests : DOMAIN input[q].parts = 1..Len(input[q].parts)
    BY BodyType DEF TypeInv, StateOK, InputType
  <2>. HIDE DEF e
  <2>. QED  BY <2>1, <2>2, <2>3
<1>4. PartEntry(input[r], n) \notin tx[r].draft
  <2>1. \A k \in 1..tx[r].n : k \in 1..Len(input[r].parts) /\ k # n
    BY <1>1, AtStep
  <2>. HIDE DEF n
  <2>. QED  BY <1>1, <1>2, <2>1, PartEntriesDiffer DEF EntriesHaveRows
<1>. QED  BY <1>3, <1>4 DEF Entries

(***************************************************************************)
(* What a statement of an allocation changes of it: it inserts the next    *)
(* part, recomputes the invoice of the last one, or neither.               *)
(***************************************************************************)
Inserts(r) ==
  LET n == tx[r].n + 1 IN
  /\ pc[r] = "readDeposit"
  /\ pc'[r] = IF PartEntry(input[r], n) \in Entries(r) THEN "recompute" ELSE "allocateDeposits"
  /\ tx'[r] = [tx[r] EXCEPT !.n = n, !.invoice = input[r].parts[n].invoice]
  /\ rowLock' = rowLock

Recomputes(r) ==
  LET i == tx[r].invoice IN
  /\ pc[r] = "recompute" /\ pc'[r] = "writeInvoice"
  /\ tx'[r] = [tx[r] EXCEPT !.todo = @ \ {i},
                            !.paid = [j \in DOMAIN @ \union {i} |->
                                        IF j = i THEN Applied(RowsFor(Visible(r), i)) ELSE @[j]]]
  /\ rowLock' = rowLock

Keeps(r) ==
  /\ tx'[r].n = tx[r].n /\ tx'[r].invoice = tx[r].invoice /\ tx'[r].paid = tx[r].paid
  /\ tx'[r].gone = tx[r].gone
  /\ pc[r] # "readReceipt" => tx'[r].allocated = tx[r].allocated
  /\ pc'[r] \in Pending <=> pc[r] \in Pending
  /\ AccountIsLocked /\ pc[r] \in Asking /\ pc'[r] \notin Asking => rowLock'[Queue] = r
  /\ pc'[r] \in Asking => pc[r] \in Asking
  /\ pc'[r] # "allocateDeposits"
  /\ \A w \in Rows : rowLock[w] = r => rowLock'[w] = r

LEMMA KeepsWhenRead ==
  ASSUME TypeInv, NEW r \in Requests, NEW label, NEW seen, Passes(r, label, seen),
         seen.n = tx[r].n, seen.invoice = tx[r].invoice, seen.paid = tx[r].paid,
         seen.gone = tx[r].gone, pc[r] # "readReceipt" => seen.allocated = tx[r].allocated,
         label \in Pending <=> pc[r] \in Pending, pc[r] \notin Calling, label \notin Calling
  PROVE  Keeps(r)
BY PassOf DEF Keeps, Asking, Calling

LEMMA KeepsWhenUpdated ==
  ASSUME TypeInv, NEW r \in Requests, NEW label, NEW row, Update(r, row, label),
         label \in Pending <=> pc[r] \in Pending, pc[r] \notin Calling, label \notin Calling
  PROVE  Keeps(r)
<1>1. tx' = tx /\ pc'[r] = label
  BY DEF Update, Goto, TypeInv, StateOK, TypeOK
<1>2. rowLock' = [rowLock EXCEPT ![row] = r] /\ rowLock \in [Rows -> Requests \union {NoRequest}]
  BY DEF Update, TypeInv, StateOK, TypeOK
<1>. QED  BY <1>1, <1>2 DEF Keeps, Asking, Calling

LEMMA KeepsWhenPosted ==
  ASSUME TypeInv, NEW r \in Requests, NEW label, NEW e, Post(r, e, label, tx[r]), ~Rollback(r),
         label \in Pending <=> pc[r] \in Pending, pc[r] \notin Calling, label \notin Calling
  PROVE  Keeps(r)
<1>. DEFINE wrote == [tx[r] EXCEPT !.draft = @ \union {e}]
<1>1. Passes(r, label, wrote)
  BY PostOf
<1>2. /\ wrote.n = tx[r].n /\ wrote.invoice = tx[r].invoice /\ wrote.paid = tx[r].paid
      /\ wrote.gone = tx[r].gone /\ wrote.allocated = tx[r].allocated
  BY AtStep DEF TxType
<1>. HIDE DEF wrote
<1>. QED  BY <1>1, <1>2, KeepsWhenRead

(* The first of the two accounts that is a system one is updated on the    *)
(* way to the posting.                                                     *)
LEMMA KeepsWhenEnsured ==
  ASSUME TypeInv, NEW r \in Requests, EnsureSystemAccount(r)
  PROVE  Keeps(r)
<1>1. /\ pc[r] \in DOMAIN AccountCall /\ tx' = tx /\ pc'[r] = AccountCall[pc[r]][2]
      /\ \/ /\ AccountCall[pc[r]][1] \in SystemAccounts
            /\ Update(r, AccountCall[pc[r]][1], AccountCall[pc[r]][2])
         \/ /\ AccountCall[pc[r]][1] \notin SystemAccounts
            /\ Passes(r, AccountCall[pc[r]][2], tx[r])
  BY EnsureOf
<1>2. /\ pc'[r] \in Pending <=> pc[r] \in Pending
      /\ pc'[r] # "allocateDeposits"
      /\ pc[r] = "allocateDeposits" <=> pc'[r] = "allocateReceivable"
      /\ pc[r] = "allocateDeposits" => AccountCall[pc[r]][1] = "2300"
      /\ pc[r] = "allocateReceivable" => AccountCall[pc[r]][1] = "1200"
  BY <1>1 DEF AccountCall, Pending
<1>3. \A w \in Rows : rowLock[w] = r => rowLock'[w] = r
  BY <1>1 DEF Update, Passes, TypeInv, StateOK, TypeOK
<1>4. AccountCall[pc[r]][1] \in SystemAccounts => rowLock'[AccountCall[pc[r]][1]] = r
  <2>1. AccountCall[pc[r]][1] \in Rows
    BY <1>1 DEF AccountCall, Rows, Accounts
  <2>. QED  BY <1>1, <2>1 DEF Update, TypeInv, StateOK, TypeOK
<1>5. AccountIsLocked /\ pc[r] \in Asking /\ pc'[r] \notin Asking => rowLock'[Queue] = r
  BY <1>2, <1>4 DEF AccountIsLocked, Asking, Calling, Queue
<1>6. pc'[r] \in Asking => pc[r] \in Asking
  BY <1>2 DEF Asking, Calling
<1>. QED  BY <1>1, <1>2, <1>3, <1>5, <1>6 DEF Keeps

LEMMA AllocationSteps ==
  ASSUME TypeInv, NEW r \in Requests, Submit(r) \/ Step(r) \/ Abort(r), ~Writes(r),
         input[r].kind # "REVERSE"
  PROVE  (pc'[r] = "failed" /\ tx'[r] = Fresh /\ Rollback(r)) \/ Inserts(r) \/ Recomputes(r) \/ Keeps(r)
<1>. DEFINE Goal == (pc'[r] = "failed" /\ tx'[r] = Fresh /\ Rollback(r))
                      \/ Inserts(r) \/ Recomputes(r) \/ Keeps(r)
<1>. SUFFICES Goal
  OBVIOUS
<1>. tx[r] \in TxType
  BY AtStep
<1>0. CASE Rollback(r)
  BY <1>0, RollbackOf
<1>1. CASE Submit(r)
  <2>1. /\ Passes(r, FirstStep[input[r].kind], tx[r]) /\ pc[r] = "idle"
        /\ input[r].kind \in Kinds
    <3>1. tx = [tx EXCEPT ![r] = tx[r]]
      BY DEF TypeInv, StateOK
    <3>. QED  BY <1>1, <3>1, AtStep DEF Submit, Passes
  <2>2. FirstStep[input[r].kind] \notin Pending
    BY <2>1 DEF FirstStep, Kinds, Pending
  <2>3. Keeps(r)
    BY <2>1, <2>2, KeepsWhenRead DEF Pending, Calling
  <2>. QED  BY <2>3
<1>2. CASE Abort(r)
  BY <1>0, <1>2 DEF Abort
<1>3. CASE NextNumber(r) \/ ReadReceipt(r)
  <2>1. CASE NextNumber(r)
    <3>. DEFINE seen == [tx[r] EXCEPT !.number = 1 + Max({receiptNumber[rc] : rc \in ReceiptIds})]
    <3>1. Passes(r, "insertReceipt", seen) /\ pc[r] = "number"
      BY <2>1 DEF NextNumber, Read, Passes
    <3>2. /\ seen.n = tx[r].n /\ seen.invoice = tx[r].invoice /\ seen.paid = tx[r].paid
          /\ seen.gone = tx[r].gone /\ seen.allocated = tx[r].allocated
      BY DEF TxType
    <3>. HIDE DEF seen
    <3>3. Keeps(r)
      BY <3>1, <3>2, KeepsWhenRead DEF Pending, Calling
    <3>. QED  BY <3>3
  <2>2. CASE ReadReceipt(r)
    <3>1. \/ Rollback(r)
          \/ \E after : Passes(r, "readInvoices", [tx[r] EXCEPT !.allocated = after])
      BY <2>2 DEF ReadReceipt, Read, Passes
    <3>2. ASSUME NEW after, Passes(r, "readInvoices", [tx[r] EXCEPT !.allocated = after])
          PROVE  Keeps(r)
      <4>. DEFINE seen == [tx[r] EXCEPT !.allocated = after]
      <4>1. /\ seen.n = tx[r].n /\ seen.invoice = tx[r].invoice /\ seen.paid = tx[r].paid
            /\ seen.gone = tx[r].gone
        BY DEF TxType
      <4>2. Passes(r, "readInvoices", seen) /\ pc[r] = "readReceipt"
        BY <2>2, <3>2 DEF ReadReceipt
      <4>. HIDE DEF seen
      <4>. QED  BY <4>1, <4>2, KeepsWhenRead DEF Pending, Calling
    <3>. QED  BY <1>0, <3>1, <3>2
  <2>. QED  BY <1>3, <2>1, <2>2
<1>4. CASE ReadDeposit(r)
  <2>1. \/ Rollback(r)
        \/ Passes(r, IF PartEntry(input[r], tx[r].n + 1) \in Entries(r) THEN "recompute" ELSE "allocateDeposits",
                  [tx[r] EXCEPT !.n = tx[r].n + 1, !.invoice = input[r].parts[tx[r].n + 1].invoice])
    BY <1>4 DEF ReadDeposit, Read, Passes, PartEntry
  <2>2. pc[r] = "readDeposit"
    BY <1>4 DEF ReadDeposit
  <2>. QED  BY <1>0, <2>1, <2>2, PassOf DEF Inserts
<1>5. CASE Recompute(r)
  <2>1. /\ pc[r] = "recompute"
        /\ Passes(r, "writeInvoice",
             [tx[r] EXCEPT !.invoice = tx[r].invoice, !.todo = @ \ {tx[r].invoice},
                           !.paid = [j \in DOMAIN @ \union {tx[r].invoice} |->
                                       IF j = tx[r].invoice
                                       THEN Applied(RowsFor(Visible(r), tx[r].invoice)) ELSE @[j]]])
    BY <1>5 DEF Recompute, Read, Passes
  <2>2. tx[r] = [tx[r] EXCEPT !.invoice = tx[r].invoice]
    BY DEF TxType
  <2>3. Recomputes(r)
    BY <2>1, <2>2, PassOf DEF Recomputes
  <2>. QED  BY <2>3
<1>6. CASE \/ InsertReceipt(r) \/ ReadInvoices(r) \/ ReadRefundable(r) \/ ReadPending(r)
           \/ ReadApproved(r) \/ CheckPosting(r)
  <2>1. \/ Rollback(r)
        \/ \E label \in {"receiptBank", "readReceipt", "readDeposit", "insertRefund", "decide",
                         "refundDeposits", "deduct", "refundBank"} : Passes(r, label, tx[r])
    BY <1>6 DEF InsertReceipt, ReadInvoices, ReadRefundable, ReadPending, ReadApproved, CheckPosting,
       Read, Passes
  <2>2. pc[r] \notin Pending
    BY <1>6 DEF InsertReceipt, ReadInvoices, ReadRefundable, ReadPending, ReadApproved, CheckPosting,
       Pending
  <2>3. ASSUME NEW label \in {"receiptBank", "readReceipt", "readDeposit", "insertRefund", "decide",
                              "refundDeposits", "deduct", "refundBank"}, Passes(r, label, tx[r])
        PROVE  Keeps(r)
    <3>1. label \notin Pending
      BY DEF Pending
    <3>. QED  BY <2>2, <2>3, <3>1, KeepsWhenRead DEF Pending, Calling
  <2>. QED  BY <1>0, <2>1, <2>3
<1>7. CASE EnsureSystemAccount(r)
  BY <1>7, KeepsWhenEnsured
<1>8. CASE WriteInvoice(r) \/ UpdateReceipt(r) \/ PayRefund(r)
  <2>1. \E row, label :
          /\ Update(r, row, label) /\ label \notin Calling /\ pc[r] \notin Calling
          /\ label \in Pending <=> pc[r] \in Pending
    <3>1. CASE WriteInvoice(r)
      BY <3>1 DEF WriteInvoice, Pending, Calling
    <3>2. CASE UpdateReceipt(r)
      <4>1. pc[r] # "increment"
        BY <3>2, AtStep DEF OnPath, PathOf, Kinds, Ends, Allocating
      <4>2. CASE pc[r] = "decrement"
        BY <3>2, <4>2 DEF UpdateReceipt, Pending, Calling
      <4>3. CASE pc[r] # "decrement"
        <5>1. \E label \in {"payRefund", "receiptBank", "commit"} : Update(r, input[r].receipt, label)
          BY <3>2, <4>1, <4>3 DEF UpdateReceipt
        <5>. QED  BY <3>2, <4>3, <5>1 DEF UpdateReceipt, Pending, Calling
      <4>. QED  BY <4>2, <4>3
    <3>3. CASE PayRefund(r)
      BY <3>3 DEF PayRefund, Pending, Calling
    <3>. QED  BY <1>8, <3>1, <3>2, <3>3
  <2>2. Keeps(r)
    BY <2>1, KeepsWhenUpdated
  <2>. QED  BY <2>2
<1>9. CASE PostAllocation(r) \/ PostReceipt(r) \/ PostRefund(r)
  <2>1. \E e, label :
          /\ Post(r, e, label, tx[r]) /\ label \notin Calling /\ pc[r] \notin Calling
          /\ label \in Pending <=> pc[r] \in Pending
    BY <1>9 DEF PostAllocation, PostReceipt, PostRefund, Pending, Calling
  <2>. QED  BY <1>0, <2>1, KeepsWhenPosted
<1>10. ~ (\/ ReadReversed(r) \/ ListRows(r) \/ DeleteRows(r) \/ ReverseAllocation(r)
          \/ ReverseReceipt(r) \/ MarkReversed(r))
  <2>1. pc[r] \notin {"readReversed", "listRows", "deleteRows", "reverseAllocation",
                      "reverseReceipt", "markReversed"}
    BY AtStep DEF OnPath, PathOf, Kinds, Ends, Allocating
  <2>. QED  BY <2>1 DEF ReadReversed, ListRows, DeleteRows, ReverseAllocation, ReverseReceipt,
                        MarkReversed
<1>. HIDE DEF Goal
<1>. QED  BY <1>1, <1>2, <1>3, <1>4, <1>5, <1>6, <1>7, <1>8, <1>9, <1>10 DEF Step, Writes

(* A request that has ended takes no step, and a lock that is held is not  *)
(* taken away.                                                             *)
LEMMA EndedStays ==
  ASSUME NEW r \in Requests, Submit(r) \/ Step(r) \/ Abort(r)
  PROVE  pc[r] \notin {"done", "failed"}
<1>1. CASE Submit(r) \/ Abort(r)
  BY <1>1 DEF Submit, Abort, InTx, Autocommit
<1>2. CASE \/ NextNumber(r) \/ InsertReceipt(r) \/ ReadReceipt(r) \/ ReadInvoices(r) \/ ReadDeposit(r)
           \/ EnsureSystemAccount(r) \/ PostAllocation(r) \/ Recompute(r) \/ WriteInvoice(r)
           \/ UpdateReceipt(r) \/ PostReceipt(r) \/ ReadReversed(r) \/ ListRows(r)
  BY <1>2 DEF NextNumber, InsertReceipt, ReadReceipt, ReadInvoices, ReadDeposit, EnsureSystemAccount,
     AccountCall, PostAllocation, Recompute, WriteInvoice, UpdateReceipt, PostReceipt, ReadReversed,
     ListRows
<1>3. CASE \/ DeleteRows(r) \/ ReverseAllocation(r) \/ ReverseReceipt(r) \/ MarkReversed(r)
           \/ ReadRefundable(r) \/ InsertRefund(r) \/ ReadPending(r) \/ Decide(r) \/ ReadApproved(r)
           \/ CheckPosting(r) \/ PostRefund(r) \/ PayRefund(r) \/ Commit(r)
  BY <1>3 DEF DeleteRows, ReverseAllocation, ReverseReceipt, MarkReversed, ReadRefundable,
     InsertRefund, ReadPending, Decide, ReadApproved, CheckPosting, PostRefund, PayRefund, Commit
<1>. QED  BY <1>1, <1>2, <1>3 DEF Step

LEMMA LockKept ==
  ASSUME TypeInv, NEW r \in Requests, Submit(r) \/ Step(r) \/ Abort(r),
         NEW q \in Requests \ {r}, NEW w \in Rows, rowLock[w] = q
  PROVE  rowLock'[w] = q
<1>1. rowLock \in [Rows -> Requests \union {NoRequest}] /\ q # NoRequest
  BY ConstantsAssumption DEF TypeInv, StateOK, TypeOK
<1>2. CASE FreeRows(r)
  BY <1>1, <1>2 DEF FreeRows
<1>3. ASSUME NEW row, NEW label, Update(r, row, label) PROVE rowLock'[w] = q
  BY <1>1, <1>3 DEF Update
<1>4. CASE rowLock' = rowLock
  BY <1>4
<1>5. CASE Submit(r) \/ Abort(r)
  BY <1>2, <1>4, <1>5 DEF Submit, Abort, Rollback, Answer
<1>6. CASE \/ NextNumber(r) \/ InsertReceipt(r) \/ ReadReceipt(r) \/ ReadInvoices(r) \/ ReadDeposit(r)
           \/ PostAllocation(r) \/ Recompute(r) \/ PostReceipt(r) \/ ReadReversed(r) \/ ListRows(r)
  <2>1. FreeRows(r) \/ rowLock' = rowLock
    BY <1>6 DEF NextNumber, InsertReceipt, ReadReceipt, ReadInvoices, ReadDeposit, PostAllocation,
       Recompute, PostReceipt, ReadReversed, ListRows, Post, Read, Rollback, Answer
  <2>. QED  BY <1>2, <1>4, <2>1
<1>7. CASE \/ DeleteRows(r) \/ ReverseAllocation(r) \/ ReverseReceipt(r) \/ MarkReversed(r)
           \/ ReadRefundable(r) \/ InsertRefund(r) \/ ReadPending(r) \/ Decide(r) \/ ReadApproved(r)
           \/ CheckPosting(r) \/ PostRefund(r) \/ Commit(r)
  <2>1. FreeRows(r) \/ rowLock' = rowLock
    BY <1>7 DEF DeleteRows, ReverseAllocation, ReverseReceipt, MarkReversed, ReadRefundable,
       InsertRefund, ReadPending, Decide, ReadApproved, CheckPosting, PostRefund, Commit, SetRefund,
       Post, Read, Rollback, Answer
  <2>. QED  BY <1>2, <1>4, <2>1
<1>8. CASE EnsureSystemAccount(r) \/ WriteInvoice(r) \/ UpdateReceipt(r) \/ PayRefund(r)
  <2>1. \/ \E row, label : Update(r, row, label)
        \/ \E label : Passes(r, label, tx[r])
    BY <1>8, EnsureOf DEF WriteInvoice, UpdateReceipt, PayRefund
  <2>. QED  BY <1>3, <1>4, <2>1 DEF Passes
<1>. QED  BY <1>5, <1>6, <1>7, <1>8 DEF Step

LEMMA OwnRowsOf ==
  ASSUME NEW r \in Requests, NEW n, tx[r].n = n
  PROVE  /\ n = 0 => OwnRows(r) = {}
         /\ \A a \in OwnRows(r) : \E k \in 1..n : a.invoice = input[r].parts[k].invoice
BY DEF OwnRows

LEMMA NothingGone ==
  ASSUME TypeInv, NoReversals, NEW r \in Requests
  PROVE  input[r].kind # "REVERSE" /\ Visible(r) = allocations \union OwnRows(r)
<1>1. input[r].kind # "REVERSE"
  BY DEF NoReversals, TypeInv, StateOK
<1>2. tx[r].gone = {}
  BY <1>1, AtStep DEF OnPath
<1>. QED  BY <1>1, <1>2 DEF Visible

(* Every step keeps the entries to their rows. *)
LEMMA NextEntriesHaveRows ==
  ASSUME TypeInv, EntriesHaveRows, NEW r \in Requests, Submit(r) \/ Step(r) \/ Abort(r)
  PROVE  EntriesHaveRows'
<1>1. /\ input' = input
      /\ \A q \in Requests \ {r} : pc'[q] = pc[q] /\ tx'[q] = tx[q]
  BY OthersStay
<1>2. \A q \in Requests : pc[q] = "done" => pc'[q] = "done"
  BY <1>1, EndedStays
<1>3. CASE ~Writes(r)
  <2>1. journals' = journals
    BY <1>3, OthersStay DEF money
  <2>2. ASSUME NEW e \in tx'[r].draft, e.type = "ALLOCATION"
        PROVE  \E k \in 1..tx'[r].n : e = PartEntry(input[r], k)
    <3>1. Fresh.draft = {} /\ tx[r] \in TxType
      BY FreshType, BodyType, AtStep DEF TypeInv, StateOK
    <3>2. tx'[r] # Fresh
      BY <2>2, <3>1
    <3>0. ASSUME input[r].kind = "REVERSE" PROVE FALSE
      <4>1. tx[r].n = 0 /\ pc[r] \notin {"postAllocation", "postReceipt", "postRefund"}
        BY <3>0, AtStep DEF OnPath, PathOf, Ends
      <4>2. e \notin tx[r].draft
        BY <2>2, <4>1 DEF EntriesHaveRows
      <4>3. PICK d : Drafts(r, d)
        BY <1>3, <3>2, <4>2, <2>2, DraftSteps
      <4>4. e = d
        BY <2>2, <4>2, <4>3 DEF Drafts
      <4>. QED  BY <2>2, <4>1, <4>3, <4>4 DEF Drafts
    <3>3. Inserts(r) \/ Recomputes(r) \/ Keeps(r)
      BY <1>3, <3>0, <3>2, AllocationSteps
    <3>4. tx'[r].n = tx[r].n \/ tx'[r].n = tx[r].n + 1
      BY <3>1, <3>3 DEF Inserts, Recomputes, Keeps, TxType
    <3>5. \A k \in 1..tx[r].n : k \in 1..tx'[r].n
      BY <3>1, <3>4 DEF TxType
    <3>6. CASE e \in tx[r].draft
      BY <2>2, <3>5, <3>6 DEF EntriesHaveRows
    <3>7. CASE e \notin tx[r].draft
      <4>1. Drafts(r, e)
        <5>1. PICK d : Drafts(r, d)
          BY <1>3, <3>2, <3>7, DraftSteps
        <5>2. e = d
          BY <3>7, <5>1 DEF Drafts
        <5>. QED  BY <5>1, <5>2
      <4>2. pc[r] = "postAllocation" /\ e = PartEntry(input[r], tx[r].n)
        BY <2>2, <4>1 DEF Drafts, ReceiptEntry, RefundEntry
      <4>3. tx[r].n \in 1..tx[r].n
        BY <3>0, <4>2, AtStep DEF OnPath, Inserted
      <4>. QED  BY <3>5, <4>2, <4>3
    <3>. QED  BY <3>6, <3>7
  <2>. QED  BY <1>1, <1>2, <2>1, <2>2 DEF EntriesHaveRows
<1>4. CASE Writes(r)
  <2>1. pc'[r] = "done" /\ tx'[r] = Fresh /\ Fresh.draft = {}
    <3>1. Answer(r, "done")
      BY <1>4 DEF Writes, InsertRefund, Decide, SetRefund, Commit
    <3>2. Moves(r, "done", Fresh)
      BY <3>1, AnswerMoves
    <3>. QED  BY <3>2, MoveOf, FreshType, BodyType DEF TypeInv, StateOK
  <2>2. journals' = journals \/ journals' = journals \union tx[r].draft
    BY <1>4 DEF Writes, InsertRefund, Decide, SetRefund, Commit, PublishJournals
  <2>3. ASSUME NEW e \in tx[r].draft, e.type = "ALLOCATION"
        PROVE  /\ Allocates(input[r])
               /\ \E k \in DOMAIN input[r].parts : e = PartEntry(input[r], k)
    <3>1. PICK k \in 1..tx[r].n : e = PartEntry(input[r], k)
      BY <2>3 DEF EntriesHaveRows
    <3>2. /\ Allocates(input[r])
          /\ k \in 1..Len(input[r].parts)
      BY AtStep DEF OnPath, Allocates
    <3>3. DOMAIN input[r].parts = 1..Len(input[r].parts)
      BY BodyType DEF TypeInv, StateOK, InputType
    <3>. QED  BY <3>1, <3>2, <3>3
  <2>4. \A e \in journals' : e.type = "ALLOCATION" =>
          \/ \E a \in Opening : e = AllocationEntry(a)
          \/ \E q \in Requests : /\ pc'[q] = "done" /\ Allocates(input[q])
                                 /\ \E k \in DOMAIN input[q].parts : e = PartEntry(input[q], k)
    BY <1>2, <2>1, <2>2, <2>3 DEF EntriesHaveRows
  <2>. QED  BY <1>1, <2>1, <2>4 DEF EntriesHaveRows
<1>. QED  BY <1>3, <1>4

LEMMA EntriesKeepRows ==
  /\ Init => EntriesHaveRows
  /\ TypeInv /\ EntriesHaveRows /\ [Next]_vars => EntriesHaveRows'
<1>1. ASSUME Init PROVE EntriesHaveRows
  <2>1. \A r \in Requests : tx[r].draft = {}
    BY <1>1 DEF Init, Fresh
  <2>2. \A e \in journals : e.type = "ALLOCATION" => \E a \in Opening : e = AllocationEntry(a)
    BY <1>1 DEF Init, ReceiptEntry
  <2>. QED  BY <2>1, <2>2 DEF EntriesHaveRows
<1>2. ASSUME TypeInv, EntriesHaveRows, UNCHANGED vars PROVE EntriesHaveRows'
  BY <1>2 DEF vars, money, EntriesHaveRows
<1>. QED  BY <1>1, <1>2, NextEntriesHaveRows DEF Next, Quiescent

(* What a request has done that has ended. *)
LEMMA NothingPaid ==
  ASSUME TypeInv, NEW r \in Requests
  PROVE  Fresh.n = 0 /\ DOMAIN Fresh.paid = {}
BY FreshType, BodyType DEF TypeInv, StateOK

(* A request that neither inserts, recomputes nor commits keeps what it is *)
(* to write.                                                               *)
LEMMA PaidKept ==
  ASSUME TypeInv, TypeInv', NoReversals, NEW q \in Requests, HoldsQueue(q), PaidIsVisible(q),
         input' = input, allocations' = allocations, pc'[q] \in Pending <=> pc[q] \in Pending,
         tx'[q].n = tx[q].n, tx'[q].invoice = tx[q].invoice, tx'[q].paid = tx[q].paid,
         tx'[q].gone = tx[q].gone,
         pc[q] \in Asking /\ pc'[q] \notin Asking => rowLock'[Queue] = q,
         rowLock[Queue] = q => rowLock'[Queue] = q
  PROVE  (HoldsQueue(q) /\ PaidIsVisible(q))'
<1>1. Visible(q)' = Visible(q)
  BY DEF Visible, OwnRows
<1>2. PaidIsVisible(q)'
  BY <1>1 DEF PaidIsVisible
<1>3. HoldsQueue(q)'
  BY DEF HoldsQueue
<1>. QED  BY <1>2, <1>3

LEMMA InsertedRows ==
  ASSUME TypeInv, NEW r \in Requests, Inserts(r), input' = input, allocations' = allocations
  PROVE  /\ OwnRows(r) \subseteq OwnRows(r)'
         /\ \A a \in OwnRows(r)' : a \notin OwnRows(r) => a.invoice = tx'[r].invoice
<1>1. /\ tx[r].n \in Nat /\ tx'[r].n = tx[r].n + 1
      /\ tx'[r].invoice = input[r].parts[tx[r].n + 1].invoice
  BY AtStep DEF Inserts, TxType
<1>2. \A k \in 1..tx'[r].n : k \in 1..tx[r].n \/ k = tx[r].n + 1
  BY <1>1
<1>3. \A k \in 1..tx[r].n : k \in 1..tx'[r].n
  BY <1>1
<1>4. OwnRows(r) \subseteq OwnRows(r)'
  BY <1>3 DEF OwnRows
<1>5. ASSUME NEW a \in OwnRows(r)', a \notin OwnRows(r)
      PROVE  a.invoice = tx'[r].invoice
  <2>1. PICK k \in 1..tx'[r].n :
          a = [by |-> r, n |-> k, receipt |-> input[r].receipt,
               invoice |-> input[r].parts[k].invoice, amount |-> input[r].parts[k].amount]
    BY DEF OwnRows
  <2>2. k \notin 1..tx[r].n
    BY <1>5, <2>1 DEF OwnRows
  <2>3. k = tx[r].n + 1
    BY <1>2, <2>2
  <2>. QED  BY <1>1, <2>1, <2>3
<1>. QED  BY <1>4, <1>5

LEMMA PaidAfterInsert ==
  ASSUME TypeInv, EntriesHaveRows, PartsDiffer, NoReversals, NEW r \in Requests,
         HoldsQueue(r), PaidIsVisible(r), Inserts(r), input' = input, allocations' = allocations
  PROVE  (HoldsQueue(r) /\ PaidIsVisible(r))'
<1>1. /\ tx[r].n \in Nat /\ tx'[r].n = tx[r].n + 1 /\ tx'[r].paid = tx[r].paid
      /\ tx'[r].gone = tx[r].gone
      /\ tx'[r].invoice = input[r].parts[tx[r].n + 1].invoice
      /\ rowLock' = rowLock /\ pc[r] = "readDeposit"
  BY AtStep DEF Inserts, TxType
<1>2. pc'[r] = "allocateDeposits"
  BY NothingIsSkipped DEF Inserts
<1>3. HoldsQueue(r)'
  BY <1>1, <1>2 DEF HoldsQueue, Asking, Calling
<1>4. /\ OwnRows(r) \subseteq OwnRows(r)'
      /\ \A a \in OwnRows(r)' : a \notin OwnRows(r) => a.invoice = tx'[r].invoice
  BY InsertedRows
<1>5. ASSUME NEW i \in DOMAIN tx'[r].paid, i # tx'[r].invoice
      PROVE  tx'[r].paid[i] = Applied(RowsFor(Visible(r)', i))
  <2>1. tx[r].paid[i] = Applied(RowsFor(Visible(r), i))
    BY <1>1, <1>5 DEF PaidIsVisible, Pending
  <2>2. RowsFor(Visible(r)', i) = RowsFor(Visible(r), i)
    BY <1>1, <1>4, <1>5 DEF RowsFor, Visible
  <2>. QED  BY <1>1, <2>1, <2>2
<1>6. ASSUME NEW k \in 1..tx'[r].n, input'[r].parts[k].invoice # tx'[r].invoice
      PROVE  input'[r].parts[k].invoice \in DOMAIN tx'[r].paid
  <2>1. k # tx[r].n + 1
    BY <1>1, <1>6
  <2>2. k \in 1..tx[r].n
    BY <1>1, <2>1
  <2>. QED  BY <1>1, <2>2 DEF PaidIsVisible, Pending
<1>7. pc'[r] \in Pending
  BY <1>2 DEF Pending
<1>8. PaidIsVisible(r)'
  BY <1>5, <1>6, <1>7 DEF PaidIsVisible
<1>. QED  BY <1>3, <1>8

LEMMA PaidAfterRecompute ==
  ASSUME TypeInv, NoReversals, NEW r \in Requests, HoldsQueue(r), PaidIsVisible(r),
         Recomputes(r), input' = input, allocations' = allocations
  PROVE  (HoldsQueue(r) /\ PaidIsVisible(r))'
<1>. DEFINE i == tx[r].invoice
            P == [j \in DOMAIN tx[r].paid \union {i} |->
                    IF j = i THEN Applied(RowsFor(Visible(r), i)) ELSE tx[r].paid[j]]
<1>1. /\ tx'[r].n = tx[r].n /\ tx'[r].paid = P /\ tx'[r].gone = tx[r].gone
      /\ tx'[r].invoice = i
      /\ rowLock' = rowLock /\ pc[r] = "recompute" /\ pc'[r] = "writeInvoice"
  BY AtStep DEF Recomputes, TxType
<1>2. rowLock[Queue] = r
  <2>1. tx[r].n > 0
    BY <1>1, AtStep, NothingGone DEF OnPath, Inserted
  <2>. QED  BY <1>1, <2>1 DEF HoldsQueue, Asking, Calling
<1>3. HoldsQueue(r)'
  BY <1>1, <1>2 DEF HoldsQueue
<1>4. Visible(r)' = Visible(r)
  BY <1>1 DEF Visible, OwnRows
<1>5. \A j \in DOMAIN P : P[j] = Applied(RowsFor(Visible(r), j))
  BY <1>1 DEF PaidIsVisible
<1>6. \A k \in 1..tx[r].n : input[r].parts[k].invoice \in DOMAIN P
  BY <1>1 DEF PaidIsVisible
<1>7. PaidIsVisible(r)'
  <2>. HIDE DEF P
  <2>. QED  BY <1>1, <1>4, <1>5, <1>6 DEF PaidIsVisible
<1>. QED  BY <1>3, <1>7

LEMMA PaidAfterEnd ==
  ASSUME TypeInv, NEW r \in Requests, tx'[r] = Fresh, pc'[r] \in {"done", "failed"}
  PROVE  (HoldsQueue(r) /\ PaidIsVisible(r))'
<1>1. Fresh.n = 0 /\ DOMAIN Fresh.paid = {}
  BY NothingPaid
<1>2. HoldsQueue(r)'
  BY <1>1 DEF HoldsQueue
<1>3. PaidIsVisible(r)'
  BY <1>1 DEF PaidIsVisible
<1>. QED  BY <1>2, <1>3

(* Two requests do not both have rows inserted and amounts to write.       *)
LEMMA PaidAfterCommit ==
  ASSUME TypeInv, PaidInv, NoReversals, NEW r \in Requests, Commit(r)
  PROVE  /\ PaidIsAllocated'
         /\ \A q \in Requests \ {r} : (HoldsQueue(q) /\ PaidIsVisible(q))'
<1>1. /\ allocations' = allocations \union OwnRows(r) /\ pc[r] = "commit"
      /\ paidAmount' = [i \in Invoices |->
                          IF i \in DOMAIN tx[r].paid THEN tx[r].paid[i] ELSE paidAmount[i]]
  BY NothingGone DEF Commit
<1>2. /\ input' = input
      /\ \A q \in Requests \ {r} : pc'[q] = pc[q] /\ tx'[q] = tx[q]
  BY OthersStay DEF Step
<1>3. \A i \in DOMAIN tx[r].paid : tx[r].paid[i] = Applied(RowsFor(allocations', i))
  <2>1. Visible(r) = allocations'
    BY <1>1, NothingGone
  <2>. QED  BY <1>1, <2>1 DEF PaidInv, PaidIsVisible, Pending
<1>4. \A k \in 1..tx[r].n : input[r].parts[k].invoice \in DOMAIN tx[r].paid
  BY <1>1 DEF PaidInv, PaidIsVisible, Pending
<1>5. PaidIsAllocated'
  <2>1. ASSUME NEW i \in Invoices, i \notin DOMAIN tx[r].paid
        PROVE  RowsFor(allocations', i) = RowsFor(allocations, i)
    <3>1. \A a \in OwnRows(r) : a.invoice # i
      BY <1>4, <2>1, OwnRowsOf
    <3>2. allocations' = allocations \union OwnRows(r)
      BY <1>1
    <3>. QED  BY <3>1, <3>2 DEF RowsFor
  <2>2. ASSUME NEW i \in Invoices PROVE paidAmount'[i] = Applied(RowsFor(allocations', i))
    <3>1. CASE i \in DOMAIN tx[r].paid
      BY <1>1, <1>3, <3>1
    <3>2. CASE i \notin DOMAIN tx[r].paid
      BY <1>1, <2>1, <3>2 DEF PaidInv, PaidIsAllocated
    <3>. QED  BY <3>1, <3>2
  <2>. QED  BY <2>2 DEF PaidIsAllocated
<1>6. ASSUME NEW q \in Requests \ {r} PROVE (HoldsQueue(q) /\ PaidIsVisible(q))'
  <2>1. rowLock[Queue] = q => rowLock'[Queue] = q
    <3>1. Queue \in Rows
      BY DEF Queue, Rows, Accounts
    <3>. QED  BY <3>1, LockKept DEF Step
  <2>2. HoldsQueue(q)'
    BY <1>2, <2>1 DEF PaidInv, HoldsQueue
  <2>3. CASE OwnRows(r) = {}
    <3>1. Visible(q)' = Visible(q)
      BY <1>1, <1>2, <2>3 DEF Visible, OwnRows
    <3>2. PaidIsVisible(q)'
      BY <1>2, <3>1 DEF PaidInv, PaidIsVisible
    <3>. QED  BY <2>2, <3>2
  <2>4. CASE OwnRows(r) # {}
    <3>1. tx[r].n > 0
      <4>1. tx[r].n \in Nat
        BY AtStep DEF TxType
      <4>. QED  BY <2>4, <4>1, OwnRowsOf
    <3>2. rowLock[Queue] = r
      BY <1>1, <3>1 DEF PaidInv, HoldsQueue, Asking, Calling
    <3>3. DOMAIN tx[q].paid = {}
      BY <3>2 DEF PaidInv, HoldsQueue
    <3>4. PaidIsVisible(q)'
      BY <1>2, <3>3 DEF PaidInv, PaidIsVisible
    <3>. QED  BY <2>2, <3>4
  <2>. QED  BY <2>3, <2>4
<1>. QED  BY <1>5, <1>6

LEMMA NextPaidInv ==
  ASSUME TypeInv, PaidInv, NoReversals, PartsDiffer, AccountIsLocked, [Next]_vars
  PROVE  PaidInv'
<1>1. ASSUME UNCHANGED vars PROVE PaidInv'
  <2>1. \A r \in Requests : Visible(r)' = Visible(r)
    BY <1>1 DEF vars, money, Visible, OwnRows
  <2>2. ASSUME NEW r \in Requests PROVE (HoldsQueue(r) /\ PaidIsVisible(r))'
    <3>1. HoldsQueue(r)' /\ PaidIsVisible(r)'
      BY <1>1, <2>1 DEF vars, PaidInv, HoldsQueue, PaidIsVisible
    <3>. QED  BY <3>1
  <2>3. EntriesHaveRows' /\ PaidIsAllocated'
    BY <1>1, EntriesKeepRows DEF vars, money, PaidInv, PaidIsAllocated
  <2>. QED  BY <2>2, <2>3 DEF PaidInv
<1>2. ASSUME NEW r \in Requests, Submit(r) \/ Step(r) \/ Abort(r)
      PROVE  PaidInv'
  <2>1. /\ input' = input
        /\ \A q \in Requests \ {r} : pc'[q] = pc[q] /\ tx'[q] = tx[q]
        /\ ~Writes(r) => UNCHANGED money
    BY <1>2, OthersStay
  <2>2. EntriesHaveRows'
    BY <1>2, NextEntriesHaveRows DEF PaidInv
  <2>3. TypeInv'
    BY <1>2, NextTypeInv DEF Next
  <2>4. CASE ~Writes(r) \/ InsertRefund(r) \/ Decide(r)
    <3>1. allocations' = allocations /\ paidAmount' = paidAmount
      BY <2>1, <2>4 DEF money, InsertRefund, Decide, SetRefund
    <3>2. PaidIsAllocated'
      BY <3>1 DEF PaidInv, PaidIsAllocated
    <3>3. ASSUME NEW q \in Requests \ {r} PROVE (HoldsQueue(q) /\ PaidIsVisible(q))'
      <4>1. rowLock[Queue] = q => rowLock'[Queue] = q
        <5>1. Queue \in Rows
          BY DEF Queue, Rows, Accounts
        <5>. QED  BY <1>2, <5>1, LockKept
      <4>2. HoldsQueue(q)'
        BY <2>1, <4>1 DEF PaidInv, HoldsQueue
      <4>3. Visible(q)' = Visible(q)
        BY <2>1, <3>1 DEF Visible, OwnRows
      <4>4. PaidIsVisible(q)'
        BY <2>1, <4>3 DEF PaidInv, PaidIsVisible
      <4>. QED  BY <4>2, <4>4
    <3>4. (HoldsQueue(r) /\ PaidIsVisible(r))'
      <4>1. CASE InsertRefund(r) \/ Decide(r)
        <5>1. Answer(r, "done")
          BY <4>1 DEF InsertRefund, Decide, SetRefund
        <5>2. pc'[r] = "done" /\ tx'[r] = Fresh
          BY <5>1, AnswerMoves, MoveOf
        <5>. QED  BY <5>2, PaidAfterEnd
      <4>2. CASE ~Writes(r)
        <5>1. \/ pc'[r] = "failed" /\ tx'[r] = Fresh
              \/ Inserts(r) \/ Recomputes(r) \/ Keeps(r)
          BY <1>2, <4>2, AllocationSteps, NothingGone
        <5>2. CASE Keeps(r)
          <6>1. Queue \in Rows
            BY DEF Queue, Rows, Accounts
          <6>. QED  BY <2>1, <2>3, <3>1, <5>2, <6>1, PaidKept DEF Keeps, PaidInv
        <5>. QED  BY <2>1, <3>1, <5>1, <5>2, PaidAfterEnd, PaidAfterInsert, PaidAfterRecompute DEF PaidInv
      <4>. QED  BY <2>4, <4>1, <4>2
    <3>. QED  BY <2>2, <3>2, <3>3, <3>4 DEF PaidInv
  <2>5. CASE Commit(r)
    <3>1. /\ PaidIsAllocated'
          /\ \A q \in Requests \ {r} : (HoldsQueue(q) /\ PaidIsVisible(q))'
      BY <2>5, PaidAfterCommit
    <3>2. pc'[r] = "done" /\ tx'[r] = Fresh
      <4>1. Answer(r, "done")
        BY <2>5 DEF Commit
      <4>. QED  BY <4>1, AnswerMoves, MoveOf
    <3>3. (HoldsQueue(r) /\ PaidIsVisible(r))'
      BY <3>2, PaidAfterEnd
    <3>. QED  BY <2>2, <3>1, <3>3 DEF PaidInv
  <2>. QED  BY <2>4, <2>5 DEF Writes
<1>. QED  BY <1>1, <1>2 DEF Next, Quiescent

LEMMA InitPaidInv ==
  ASSUME Init
  PROVE  PaidInv
<1>1. \A r \in Requests : tx[r] = Fresh /\ pc[r] = "idle"
  BY DEF Init
<1>2. ASSUME NEW r \in Requests PROVE HoldsQueue(r) /\ PaidIsVisible(r)
  BY <1>1, <1>2, InitTypeInv, NothingPaid DEF HoldsQueue, PaidIsVisible
<1>3. EntriesHaveRows
  BY EntriesKeepRows
<1>4. PaidIsAllocated
  BY DEF Init, PaidIsAllocated
<1>. QED  BY <1>2, <1>3, <1>4 DEF PaidInv

(* Where no receipt is reversed and no part repeats another, an invoice's  *)
(* paid amount is what is allocated to it, however allocations of several  *)
(* receipts interleave (recomputeInvoicePaymentStatus under the lock of    *)
(* account 2300, or of account 1200 where only that one is a system one).  *)
THEOREM PaidIsWhatIsAllocated ==
  ASSUME NoReversals, PartsDiffer, AccountIsLocked
  PROVE  Spec => []PaidIsAllocated
<1>1. Init => TypeInv /\ PaidInv
  BY InitTypeInv, InitPaidInv
<1>2. TypeInv /\ PaidInv /\ [Next]_vars => (TypeInv /\ PaidInv)'
  BY NextTypeInv, NextPaidInv
<1>3. PaidInv => PaidIsAllocated
  BY DEF PaidInv
<1>. QED  BY <1>1, <1>2, <1>3, PTL DEF Spec

-------------------------------------------------------------------------------
(***************************************************************************)
(* Receivables.  A creation that allocates credits the receivables twice:  *)
(* with each part, and with the receipt itself.  Without one, what a       *)
(* transaction has drafted clears as much as the parts it has inserted,    *)
(* less the one it is about to post.                                       *)
(***************************************************************************)
CreatedUnallocated ==
  \A w \in Workloads : \A r \in Requests : w[r].kind = "CREATE" => w[r].parts = <<>>

Cleared(S) == SumFunction([e \in S |-> ReceivableLine(e)])

(* Between the insert of a part and its posting. *)
Posting == {"allocateDeposits", "allocateReceivable", "postAllocation"}

LinesAreRows(r) ==
  Applied(OwnRows(r)) =
    Cleared(tx[r].draft) + (IF pc[r] \in Posting THEN input[r].parts[tx[r].n].amount ELSE 0)

RowsAreOfDone == \A a \in allocations : a.by # NoRequest => pc[a.by] = "done"

ReceivableInv ==
  /\ \A r \in Requests : LinesAreRows(r)
  /\ RowsAreOfDone
  /\ ReceivableIsAllocated

(* Sums of rows and of entries that do not overlap. *)
LEMMA AppliedUnion ==
  ASSUME NEW S, IsFiniteSet(S), NEW T, IsFiniteSet(T), S \intersect T = {},
         \A a \in S \union T : a.amount \in Nat
  PROVE  Applied(S \union T) = Applied(S) + Applied(T)
<1>. DEFINE f == [a \in S |-> a.amount]
            g == [a \in T |-> a.amount]
            h == [a \in S \union T |-> a.amount]
<1>1. \A a \in S \union T : h[a] \in Int
  OBVIOUS
<1>2. (\A a \in S : h[a] = f[a]) /\ (\A a \in T : h[a] = g[a])
  OBVIOUS
<1>3. DOMAIN f = S /\ DOMAIN g = T /\ DOMAIN h = S \union T
  OBVIOUS
<1>. HIDE DEF f, g, h
<1>4. SumFunctionOnSet(h, S \union T) = SumFunctionOnSet(h, S) + SumFunctionOnSet(h, T)
  BY <1>1, SumOfUnion
<1>5. /\ SumFunctionOnSet(h, S) = SumFunctionOnSet(f, S)
      /\ SumFunctionOnSet(h, T) = SumFunctionOnSet(g, T)
  BY <1>2, SumCongruence
<1>6. SumFunction(h) = SumFunction(f) + SumFunction(g)
  BY <1>3, <1>4, <1>5 DEF SumFunction
<1>. QED  BY <1>6 DEF Applied, f, g, h

LEMMA AppliedOne ==
  ASSUME NEW a, a.amount \in Nat
  PROVE  Applied({a}) = a.amount /\ Applied({}) = 0 /\ IsFiniteSet({a}) /\ IsFiniteSet({})
<1>. DEFINE f == [b \in {a} |-> b.amount]
            g == [b \in {} |-> b.amount]
<1>0. IsFiniteSet({}) /\ IsFiniteSet({a})
  BY FS_EmptySet, FS_Singleton
<1>5. a \notin {} /\ {} \union {a} = {a} /\ \A x \in {} \union {a} : f[x] \in Int
  OBVIOUS
<1>1. f[a] = a.amount /\ DOMAIN f = {a} /\ DOMAIN g = {}
  OBVIOUS
<1>. HIDE DEF f, g
<1>2. SumFunctionOnSet(f, {} \union {a}) = SumFunctionOnSet(f, {}) + f[a]
  BY <1>0, <1>5, SumAdd
<1>3. SumFunctionOnSet(f, {}) = 0 /\ SumFunctionOnSet(g, {}) = 0
  BY SumEmpty
<1>4. SumFunction(f) = a.amount /\ SumFunction(g) = 0
  BY <1>0, <1>1, <1>2, <1>3, <1>5 DEF SumFunction
<1>. QED  BY <1>0, <1>4 DEF Applied, f, g

LEMMA ClearedAdd ==
  ASSUME NEW S, IsFiniteSet(S), S \subseteq EntryType, NEW e, e \notin S, ReceivableLine(e) \in Int
  PROVE  Cleared(S \union {e}) = Cleared(S) + ReceivableLine(e)
<1>. DEFINE f == [d \in S |-> ReceivableLine(d)]
            h == [d \in S \union {e} |-> ReceivableLine(d)]
<1>1. \A d \in S \union {e} : h[d] \in Int
  BY EntriesType
<1>2. (\A d \in S : h[d] = f[d]) /\ h[e] = ReceivableLine(e)
  OBVIOUS
<1>3. DOMAIN f = S /\ DOMAIN h = S \union {e}
  OBVIOUS
<1>. HIDE DEF f, h
<1>4. SumFunctionOnSet(h, S \union {e}) = SumFunctionOnSet(h, S) + h[e]
  BY <1>1, SumAdd
<1>5. SumFunctionOnSet(h, S) = SumFunctionOnSet(f, S)
  BY <1>2, SumCongruence
<1>6. SumFunction(h) = SumFunction(f) + ReceivableLine(e)
  BY <1>2, <1>3, <1>4, <1>5 DEF SumFunction
<1>. QED  BY <1>6 DEF Cleared, f, h

LEMMA ClearedType ==
  /\ Cleared({}) = 0
  /\ TypeInv => \A r \in Requests : Cleared(tx[r].draft) \in Int
<1>1. Cleared({}) = 0
  <2>. DEFINE g == [d \in {} |-> ReceivableLine(d)]
  <2>1. DOMAIN g = {}
    OBVIOUS
  <2>. HIDE DEF g
  <2>2. SumFunction(g) = 0
    BY <2>1, SumEmpty DEF SumFunction
  <2>. QED  BY <2>2 DEF Cleared, g
<1>2. TypeInv => \A r \in Requests : Cleared(tx[r].draft) \in Int
  BY LinesAreInt DEF Cleared
<1>. QED  BY <1>1, <1>2

(* A part is inserted, then posted, then recomputed. *)
LEMMA PostingSteps ==
  ASSUME TypeInv, NEW r \in Requests, Submit(r) \/ Step(r) \/ Abort(r), ~Writes(r), ~Rollback(r)
  PROVE  /\ pc[r] = "postAllocation" => pc'[r] = "decrement" /\ tx'[r].draft # tx[r].draft
         /\ pc[r] \in {"allocateDeposits", "allocateReceivable"} => pc'[r] \in Posting /\ tx' = tx
         /\ pc[r] \notin Posting => pc'[r] \notin {"allocateReceivable", "postAllocation"}
<1>. DEFINE Goal == /\ pc[r] = "postAllocation" => pc'[r] = "decrement" /\ tx'[r].draft # tx[r].draft
                    /\ pc[r] \in {"allocateDeposits", "allocateReceivable"} => pc'[r] \in Posting /\ tx' = tx
                    /\ pc[r] \notin Posting => pc'[r] \notin {"allocateReceivable", "postAllocation"}
            Elsewhere == pc[r] \notin Posting /\ pc'[r] \notin {"allocateReceivable", "postAllocation"}
<1>. SUFFICES Goal
  OBVIOUS
<1>0. Elsewhere => Goal
  BY DEF Posting
<1>1. CASE Submit(r)
  <2>1. pc[r] = "idle" /\ pc'[r] = FirstStep[input[r].kind] /\ input[r].kind \in Kinds
    BY <1>1, AtStep DEF Submit, Goto, TypeInv, StateOK, TypeOK
  <2>2. Elsewhere
    BY <2>1 DEF FirstStep, Kinds, Posting
  <2>. QED  BY <1>0, <2>2
<1>2. CASE PostAllocation(r)
  <2>1. PICK a \in OwnRows(r) : a.n = tx[r].n /\ Post(r, AllocationEntry(a), "decrement", tx[r])
    BY <1>2 DEF PostAllocation
  <2>. DEFINE e == AllocationEntry(a)
              wrote == [tx[r] EXCEPT !.draft = @ \union {e}]
  <2>2. Passes(r, "decrement", wrote) /\ \A d \in journals \union tx[r].draft : ~SameReference(d, e)
    BY <2>1, PostOf
  <2>3. e \notin tx[r].draft
    BY <2>2 DEF SameReference
  <2>4. wrote.draft # tx[r].draft
    BY <2>3, AtStep DEF TxType
  <2>. HIDE DEF wrote, e
  <2>5. pc'[r] = "decrement" /\ tx'[r] = wrote
    BY <2>2, PassOf
  <2>6. pc[r] = "postAllocation"
    BY <1>2 DEF PostAllocation
  <2>. QED  BY <2>4, <2>5, <2>6 DEF Posting
<1>3. CASE EnsureSystemAccount(r)
  <2>1. /\ pc[r] \in DOMAIN AccountCall /\ pc'[r] = AccountCall[pc[r]][2] /\ tx' = tx
    BY <1>3, EnsureOf
  <2>. QED  BY <2>1 DEF AccountCall, Posting
<1>4. CASE \/ NextNumber(r) \/ InsertReceipt(r) \/ ReadReceipt(r) \/ ReadInvoices(r) \/ ReadDeposit(r)
           \/ Recompute(r) \/ PostReceipt(r)
  <2>1. \E label \in {"insertReceipt", "receiptBank", "readReceipt", "readInvoices", "readDeposit",
                      "recompute", "allocateDeposits", "writeInvoice", "commit"} : Goto(r, label)
    BY <1>4 DEF NextNumber, InsertReceipt, ReadReceipt, ReadInvoices, ReadDeposit, Recompute,
       PostReceipt, Post, Read
  <2>2. Elsewhere
    BY <1>4, <2>1 DEF NextNumber, InsertReceipt, ReadReceipt, ReadInvoices, ReadDeposit, Recompute,
       PostReceipt, Posting, Goto, TypeInv, StateOK, TypeOK
  <2>. QED  BY <1>0, <2>2
<1>5. CASE \/ ReadReversed(r) \/ ListRows(r) \/ DeleteRows(r) \/ ReverseAllocation(r)
           \/ ReverseReceipt(r) \/ MarkReversed(r)
  <2>1. \E label \in {"listRows", "reverseReceipt", "deleteRows", "reverseAllocation", "increment",
                      "recompute", "markReversed", "closeReversal"} : Goto(r, label)
    BY <1>5 DEF ReadReversed, ListRows, DeleteRows, ReverseAllocation, ReverseReceipt, MarkReversed,
       Post, Read
  <2>2. Elsewhere
    BY <1>5, <2>1 DEF ReadReversed, ListRows, DeleteRows, ReverseAllocation, ReverseReceipt,
       MarkReversed, Posting, Goto, TypeInv, StateOK, TypeOK
  <2>. QED  BY <1>0, <2>2
<1>6. CASE ReadRefundable(r) \/ ReadPending(r) \/ ReadApproved(r) \/ CheckPosting(r) \/ PostRefund(r)
  <2>1. \E label \in {"insertRefund", "decide", "refundDeposits", "deduct", "refundBank"} : Goto(r, label)
    BY <1>6 DEF ReadRefundable, ReadPending, ReadApproved, CheckPosting, PostRefund, Post, Read
  <2>2. Elsewhere
    BY <1>6, <2>1 DEF ReadRefundable, ReadPending, ReadApproved, CheckPosting, PostRefund,
       Posting, Goto, TypeInv, StateOK, TypeOK
  <2>. QED  BY <1>0, <2>2
<1>7. CASE WriteInvoice(r) \/ UpdateReceipt(r) \/ PayRefund(r)
  <2>1. \E label \in {"recompute", "reverseReceipt", "readDeposit", "closeReceipt", "reverseAllocation",
                      "payRefund", "receiptBank", "commit"} : Goto(r, label)
    <3>1. CASE WriteInvoice(r)
      BY <3>1 DEF WriteInvoice, Update
    <3>2. CASE PayRefund(r)
      BY <3>2 DEF PayRefund, Update
    <3>3. CASE UpdateReceipt(r)
      <4>1. CASE pc[r] = "decrement"
        BY <3>3, <4>1 DEF UpdateReceipt, Update
      <4>2. CASE pc[r] = "increment"
        BY <3>3, <4>2 DEF UpdateReceipt, Update
      <4>3. CASE pc[r] \notin {"decrement", "increment"}
        BY <3>3, <4>3 DEF UpdateReceipt, Update
      <4>. QED  BY <4>1, <4>2, <4>3
    <3>. QED  BY <1>7, <3>1, <3>2, <3>3
  <2>2. Elsewhere
    BY <1>7, <2>1 DEF WriteInvoice, UpdateReceipt, PayRefund, Posting, Goto, TypeInv, StateOK, TypeOK
  <2>. QED  BY <1>0, <2>2
<1>. HIDE DEF Goal
<1>. QED  BY <1>1, <1>2, <1>3, <1>4, <1>5, <1>6, <1>7 DEF Step, Writes, Abort

(* The row a part is inserted as. *)
LEMMA InsertedRow ==
  ASSUME TypeInv, NEW r \in Requests, input' = input, tx'[r].n = tx[r].n + 1,
         tx[r].n + 1 \in 1..Len(input[r].parts)
  PROVE  LET k == tx[r].n + 1
             row == [by |-> r, n |-> k, receipt |-> input[r].receipt,
                     invoice |-> input[r].parts[k].invoice, amount |-> input[r].parts[k].amount]
         IN OwnRows(r)' = OwnRows(r) \union {row} /\ row \notin OwnRows(r)
<1>. DEFINE k == tx[r].n + 1
            row(j) == [by |-> r, n |-> j, receipt |-> input[r].receipt,
                       invoice |-> input[r].parts[j].invoice, amount |-> input[r].parts[j].amount]
<1>1. OwnRows(r) = {row(j) : j \in 1..tx[r].n} /\ OwnRows(r)' = {row(j) : j \in 1..k}
  BY DEF OwnRows
<1>2. \A i, j : row(i) = row(j) => i = j
  OBVIOUS
<1>. HIDE DEF row
<1>3. tx[r].n \in Nat
  BY AtStep DEF TxType
<1>4. 1..k = (1..tx[r].n) \union {k} /\ k \notin 1..tx[r].n
  BY <1>3
<1>5. OwnRows(r)' = OwnRows(r) \union {row(k)}
  BY <1>1, <1>4
<1>6. row(k) \notin OwnRows(r)
  BY <1>1, <1>2, <1>4
<1>. QED  BY <1>5, <1>6 DEF row

LEMMA OwnAmounts ==
  ASSUME TypeInv, NEW r \in Requests
  PROVE  /\ IsFiniteSet(OwnRows(r)) /\ OwnRows(r) \subseteq RowType
         /\ \A a \in OwnRows(r) : a.amount \in Nat
         /\ Applied(OwnRows(r)) \in Nat
<1>1. tx[r].n \in Nat /\ tx[r].n <= Len(input[r].parts) /\ input \in Workloads
  BY AtStep DEF OnPath, TxType, TypeInv, StateOK
<1>2. IsFiniteSet(OwnRows(r)) /\ OwnRows(r) \subseteq RowType
  BY <1>1, OwnRowsType
<1>3. Applied(OwnRows(r)) \in Nat
  BY <1>2, AmountOfRows
<1>. QED  BY <1>2, <1>3 DEF RowType

LEMMA LinesAfterInsert ==
  ASSUME TypeInv, NoReversals, EntriesHaveRows, PartsDiffer, NEW r \in Requests, LinesAreRows(r),
         Inserts(r), input' = input
  PROVE  LinesAreRows(r)'
<1>. DEFINE k == tx[r].n + 1
            row == [by |-> r, n |-> k, receipt |-> input[r].receipt,
                    invoice |-> input[r].parts[k].invoice, amount |-> input[r].parts[k].amount]
<1>1. tx'[r].n = k /\ tx'[r].draft = tx[r].draft /\ pc[r] = "readDeposit"
  BY AtStep DEF Inserts, TxType
<1>2. pc'[r] = "allocateDeposits"
  BY <1>1, NothingIsSkipped DEF Inserts
<1>3. k \in 1..Len(input[r].parts)
  BY <1>1, AtStep DEF OnPath, TxType
<1>4. OwnRows(r)' = OwnRows(r) \union {row} /\ row \notin OwnRows(r)
  BY <1>1, <1>3, InsertedRow
<1>5. row.amount = input[r].parts[k].amount /\ row.amount \in Nat
  BY <1>3, PartType DEF TypeInv, StateOK
<1>. HIDE DEF row
<1>6. Applied(OwnRows(r) \union {row}) = Applied(OwnRows(r)) + Applied({row}) /\ Applied({row}) = row.amount
  <2>1. Applied({row}) = row.amount /\ IsFiniteSet({row})
    BY <1>5, AppliedOne
  <2>2. IsFiniteSet(OwnRows(r)) /\ OwnRows(r) \intersect {row} = {}
        /\ \A a \in OwnRows(r) \union {row} : a.amount \in Nat
    BY <1>4, <1>5, OwnAmounts
  <2>. QED  BY <2>1, <2>2, AppliedUnion
<1>7. Applied(OwnRows(r)) = Cleared(tx[r].draft) + 0
  BY <1>1 DEF LinesAreRows, Posting
<1>8. Applied(OwnRows(r)') = Cleared(tx[r].draft) + input[r].parts[k].amount
  <2>1. Applied(OwnRows(r)') = Applied(OwnRows(r) \union {row})
    BY <1>4
  <2>2. Cleared(tx[r].draft) \in Int
    BY ClearedType
  <2>. HIDE DEF k
  <2>. QED  BY <1>5, <1>6, <1>7, <2>1, <2>2
<1>9. LinesAreRows(r)'
  <2>1. pc'[r] \in Posting
    BY <1>2 DEF Posting
  <2>2. LinesAreRows(r)' = (Applied(OwnRows(r)') = Cleared(tx'[r].draft) +
          (IF pc'[r] \in Posting THEN input'[r].parts[tx'[r].n].amount ELSE 0))
    BY DEF LinesAreRows
  <2>. QED  BY <1>1, <1>8, <2>1, <2>2
<1>. QED  BY <1>9

LEMMA NothingApplied == Applied({}) = 0
<1>1. [amount |-> 0].amount \in Nat
  OBVIOUS
<1>. QED  BY <1>1, AppliedOne

LEMMA LinesAfterEnd ==
  ASSUME NEW r \in Requests, tx'[r] = Fresh, pc'[r] \in {"idle", "done", "failed"}
  PROVE  LinesAreRows(r)'
<1>1. Fresh.n = 0 /\ Fresh.draft = {}
  BY DEF Fresh
<1>2. OwnRows(r)' = {}
  BY <1>1 DEF OwnRows
<1>3. Applied(OwnRows(r))' = Cleared(tx'[r].draft) + 0
  BY <1>1, <1>2, NothingApplied, ClearedType
<1>4. pc'[r] \notin Posting
  BY DEF Posting
<1>. QED  BY <1>3, <1>4 DEF LinesAreRows

LEMMA LinesAfterKeep ==
  ASSUME TypeInv, NoReversals, CreatedUnallocated, NEW r \in Requests, LinesAreRows(r),
         Submit(r) \/ Step(r) \/ Abort(r), ~Writes(r), ~Rollback(r),
         input' = input, Keeps(r) \/ Recomputes(r)
  PROVE  LinesAreRows(r)'
<1>1. tx'[r].n = tx[r].n
  BY AtStep DEF Keeps, Recomputes, TxType
<1>2. OwnRows(r)' = OwnRows(r)
  BY <1>1 DEF OwnRows
<1>3. Applied(OwnRows(r))' = Applied(OwnRows(r))
  BY <1>2
<1>4. CASE tx'[r].draft = tx[r].draft /\ (pc[r] \in Posting <=> pc'[r] \in Posting)
  BY <1>1, <1>3, <1>4 DEF LinesAreRows
<1>5. pc'[r] # "allocateDeposits" /\ input[r].kind # "REVERSE"
  BY NothingGone DEF Keeps, Recomputes
<1>6. ASSUME NEW e, Drafts(r, e) PROVE LinesAreRows(r)'
  <2>1. tx'[r].draft = tx[r].draft \union {e} /\ e \notin tx[r].draft
    BY <1>6 DEF Drafts, SameReference
  <2>2. IsFiniteSet(tx[r].draft) /\ tx[r].draft \subseteq EntryType /\ Cleared(tx[r].draft) \in Int
    BY AtStep, ClearedType DEF TxType
  <2>3. pc'[r] \notin Posting
    <3>1. pc[r] \in {"postAllocation", "postReceipt", "reverseAllocation", "reverseReceipt", "postRefund"}
      BY <1>6 DEF Drafts
    <3>. QED  BY <1>5, <3>1, PostingSteps DEF Posting
  <2>4. CASE pc[r] = "postAllocation"
    <3>1. e = PartEntry(input[r], tx[r].n)
      BY <1>6, <2>4 DEF Drafts
    <3>2. ReceivableLine(e) = input[r].parts[tx[r].n].amount
      BY <3>1 DEF PartEntry, AllocationEntry, ReceivableLine
    <3>3. tx[r].n \in 1..Len(input[r].parts)
      BY <1>5, <2>4, AtStep DEF OnPath, Inserted, TxType
    <3>4. ReceivableLine(e) \in Int
      BY <3>2, <3>3, PartType DEF TypeInv, StateOK
    <3>5. Cleared(tx[r].draft \union {e}) = Cleared(tx[r].draft) + ReceivableLine(e)
      BY <2>1, <2>2, <3>4, ClearedAdd
    <3>6. Applied(OwnRows(r)) = Cleared(tx[r].draft) + ReceivableLine(e)
      BY <2>4, <3>2 DEF LinesAreRows, Posting
    <3>7. Applied(OwnRows(r))' = Cleared(tx'[r].draft) + 0
      <4>1. Cleared(tx'[r].draft) = Applied(OwnRows(r))
        BY <2>1, <3>5, <3>6
      <4>. QED  BY <1>3, <4>1, OwnAmounts
    <3>. QED  BY <2>3, <3>7 DEF LinesAreRows
  <2>5. CASE pc[r] # "postAllocation"
    <3>1. pc[r] \notin {"reverseAllocation", "reverseReceipt"}
      BY <1>5, AtStep DEF OnPath, PathOf, Kinds, Ends, Allocating
    <3>2. ReceivableLine(e) = 0
      <4>1. CASE pc[r] = "postReceipt"
        <5>1. input[r].kind = "CREATE"
          BY <4>1, AtStep DEF OnPath, PathOf, Kinds, Ends, Allocating
        <5>2. input[r].parts = <<>>
          BY <5>1 DEF CreatedUnallocated, TypeInv, StateOK
        <5>3. tx[r].n = 0
          BY <4>1, <5>1, <5>2, AtStep DEF OnPath, Closing
        <5>4. Applied(OwnRows(r)) = 0
          <6>1. OwnRows(r) = {}
            BY <5>3, OwnRowsOf
          <6>. QED  BY <6>1, NothingApplied
        <5>5. e = ReceiptEntry(input[r].receipt, 0)
          BY <1>6, <4>1, <5>4 DEF Drafts
        <5>. QED  BY <5>5 DEF ReceiptEntry, ReceivableLine
      <4>2. CASE pc[r] = "postRefund"
        BY <1>6, <4>2 DEF Drafts, RefundEntry, ReceivableLine
      <4>. QED  BY <1>6, <2>5, <3>1, <4>1, <4>2 DEF Drafts
    <3>3. Cleared(tx[r].draft \union {e}) = Cleared(tx[r].draft) + ReceivableLine(e)
      BY <2>1, <2>2, <3>2, ClearedAdd
    <3>4. pc[r] \notin Posting
      BY <1>6, <2>5 DEF Drafts, Posting
    <3>5. Applied(OwnRows(r)) = Cleared(tx[r].draft) + 0
      BY <3>4 DEF LinesAreRows
    <3>6. Cleared(tx'[r].draft) = Applied(OwnRows(r))
      BY <2>1, <2>2, <3>2, <3>3, <3>5
    <3>7. Applied(OwnRows(r))' = Cleared(tx'[r].draft) + 0
      BY <1>3, <3>6, OwnAmounts
    <3>. QED  BY <2>3, <3>7 DEF LinesAreRows
  <2>. QED  BY <2>4, <2>5
<1>7. CASE tx'[r].draft = tx[r].draft
  BY <1>4, <1>5, <1>7, PostingSteps DEF Posting
<1>8. CASE pc'[r] = "failed" /\ tx'[r] = Fresh
  BY <1>8, LinesAfterEnd
<1>. QED  BY <1>6, <1>7, <1>8, DraftSteps

LEMMA RowsOwned ==
  ASSUME TypeInv, RowsAreOfDone, NEW r \in Requests, pc[r] # "done"
  PROVE  /\ allocations \intersect OwnRows(r) = {}
         /\ \A rc \in ReceiptIds :
              RowsOf(allocations \union OwnRows(r), rc) =
                IF rc = input[r].receipt THEN RowsOf(allocations, rc) \union OwnRows(r)
                                         ELSE RowsOf(allocations, rc)
<1>1. \A a \in OwnRows(r) : a.by = r /\ a.receipt = input[r].receipt
  BY DEF OwnRows
<1>2. r # NoRequest
  BY ConstantsAssumption
<1>3. allocations \intersect OwnRows(r) = {}
  BY <1>1, <1>2 DEF RowsAreOfDone
<1>. QED  BY <1>1, <1>3 DEF RowsOf

LEMMA ReceivableAfterCommit ==
  ASSUME TypeInv, ReceivableInv, NoReversals, NEW r \in Requests, Commit(r)
  PROVE  ReceivableIsAllocated' /\ RowsAreOfDone'
<1>1. /\ allocations' = allocations \union OwnRows(r) /\ pc[r] = "commit"
      /\ receivable' = [receivable EXCEPT ![input[r].receipt] = @ + Cleared(tx[r].draft)]
  BY NothingGone DEF Commit, PublishJournals, Cleared
<1>2. /\ \A q \in Requests \ {r} : pc'[q] = pc[q]
      /\ pc'[r] = "done"
  <2>1. Answer(r, "done")
    BY DEF Commit
  <2>. QED  BY <2>1, AnswerMoves, MoveOf
<1>3. RowsAreOfDone'
  <2>1. \A a \in allocations : a.by # NoRequest => a.by \in Requests
    BY DEF TypeInv, StateOK, RowType
  <2>2. \A a \in OwnRows(r) : a.by = r
    BY DEF OwnRows
  <2>3. \A a \in allocations' : a.by # NoRequest => pc'[a.by] = "done"
    BY <1>1, <1>2, <2>1, <2>2 DEF ReceivableInv, RowsAreOfDone
  <2>. QED  BY <2>3 DEF RowsAreOfDone
<1>4. Applied(OwnRows(r)) = Cleared(tx[r].draft) + 0
  BY <1>1 DEF ReceivableInv, LinesAreRows, Posting
<1>5. Cleared(tx[r].draft) = Applied(OwnRows(r))
  BY <1>4, ClearedType
<1>6. ASSUME NEW rc \in ReceiptIds PROVE receivable'[rc] = Applied(RowsOf(allocations', rc))
  <2>0. allocations' = allocations \union OwnRows(r)
    BY <1>1
  <2>1. RowsOf(allocations', rc) =
          IF rc = input[r].receipt THEN RowsOf(allocations, rc) \union OwnRows(r)
                                   ELSE RowsOf(allocations, rc)
    <3>1. RowsOf(allocations \union OwnRows(r), rc) =
            IF rc = input[r].receipt THEN RowsOf(allocations, rc) \union OwnRows(r)
                                     ELSE RowsOf(allocations, rc)
      BY <1>1, RowsOwned DEF ReceivableInv
    <3>. QED  BY <2>0, <3>1 DEF RowsOf
  <2>2. CASE rc = input[r].receipt
    <3>1. IsFiniteSet(RowsOf(allocations, rc)) /\ Applied(RowsOf(allocations, rc)) \in Nat
      <4>1. RowsOf(allocations, rc) \subseteq allocations
        BY DEF RowsOf
      <4>. QED  BY <4>1, AmountOfRows DEF TypeInv, StateOK
    <3>2. RowsOf(allocations, rc) \intersect OwnRows(r) = {}
      BY <1>1, RowsOwned DEF ReceivableInv, RowsOf
    <3>3. \A a \in RowsOf(allocations, rc) \union OwnRows(r) : a.amount \in Nat
      BY OwnAmounts DEF RowsOf, TypeInv, StateOK, RowType
    <3>4. Applied(RowsOf(allocations, rc) \union OwnRows(r)) =
            Applied(RowsOf(allocations, rc)) + Applied(OwnRows(r))
      BY <3>1, <3>2, <3>3, OwnAmounts, AppliedUnion
    <3>5. receivable'[rc] = receivable[rc] + Applied(OwnRows(r))
      BY <1>1, <1>5, <2>2 DEF TypeInv, StateOK, TypeOK
    <3>6. receivable[rc] = Applied(RowsOf(allocations, rc))
      BY DEF ReceivableInv, ReceivableIsAllocated
    <3>7. RowsOf(allocations', rc) = RowsOf(allocations, rc) \union OwnRows(r)
      BY <2>1, <2>2
    <3>. QED  BY <3>4, <3>5, <3>6, <3>7
  <2>3. CASE rc # input[r].receipt
    <3>1. receivable'[rc] = receivable[rc]
      BY <1>1, <2>3 DEF TypeInv, StateOK, TypeOK
    <3>. QED  BY <2>1, <2>3, <3>1 DEF ReceivableInv, ReceivableIsAllocated
  <2>. QED  BY <2>2, <2>3
<1>7. ReceivableIsAllocated'
  BY <1>6 DEF ReceivableIsAllocated
<1>. QED  BY <1>3, <1>7

LEMMA NextReceivableInv ==
  ASSUME TypeInv, EntriesHaveRows, ReceivableInv, NoReversals, PartsDiffer, CreatedUnallocated,
         [Next]_vars
  PROVE  ReceivableInv'
<1>1. ASSUME UNCHANGED vars PROVE ReceivableInv'
  <2>1. \A r \in Requests : OwnRows(r)' = OwnRows(r)
    BY <1>1 DEF vars, OwnRows
  <2>2. ASSUME NEW r \in Requests PROVE LinesAreRows(r)'
    BY <1>1, <2>1 DEF vars, ReceivableInv, LinesAreRows
  <2>3. RowsAreOfDone' /\ ReceivableIsAllocated'
    BY <1>1 DEF vars, money, ReceivableInv, RowsAreOfDone, ReceivableIsAllocated
  <2>. QED  BY <2>2, <2>3 DEF ReceivableInv
<1>2. ASSUME NEW r \in Requests, Submit(r) \/ Step(r) \/ Abort(r)
      PROVE  ReceivableInv'
  <2>1. /\ input' = input
        /\ \A q \in Requests \ {r} : pc'[q] = pc[q] /\ tx'[q] = tx[q]
        /\ ~Writes(r) => UNCHANGED money
    BY <1>2, OthersStay
  <2>2. ASSUME NEW q \in Requests \ {r} PROVE LinesAreRows(q)'
    <3>1. OwnRows(q)' = OwnRows(q)
      BY <2>1 DEF OwnRows
    <3>. QED  BY <2>1, <3>1 DEF ReceivableInv, LinesAreRows
  <2>3. CASE ~Writes(r)
    <3>1. LinesAreRows(r)'
      <4>1. CASE Rollback(r)
        BY <4>1, RollbackOf, LinesAfterEnd
      <4>2. CASE ~Rollback(r)
        <5>1. Inserts(r) \/ Recomputes(r) \/ Keeps(r)
          BY <1>2, <2>3, <4>2, AllocationSteps, NothingGone
        <5>2. CASE Inserts(r)
          BY <2>1, <5>2, LinesAfterInsert DEF ReceivableInv
        <5>3. CASE Keeps(r) \/ Recomputes(r)
          BY <1>2, <2>1, <2>3, <4>2, <5>3, LinesAfterKeep DEF ReceivableInv
        <5>. QED  BY <5>1, <5>2, <5>3
      <4>. QED  BY <4>1, <4>2
    <3>2. RowsAreOfDone' /\ ReceivableIsAllocated'
      <4>1. \A a \in allocations : a.by # NoRequest => a.by \in Requests
        BY DEF TypeInv, StateOK, RowType
      <4>2. \A q \in Requests : pc[q] = "done" => pc'[q] = "done"
        BY <1>2, <2>1, EndedStays
      <4>3. allocations' = allocations /\ receivable' = receivable
        BY <2>1, <2>3 DEF money
      <4>. QED  BY <4>1, <4>2, <4>3 DEF ReceivableInv, RowsAreOfDone, ReceivableIsAllocated
    <3>. QED  BY <2>2, <3>1, <3>2 DEF ReceivableInv
  <2>4. CASE Writes(r)
    <3>1. pc'[r] = "done" /\ tx'[r] = Fresh
      <4>1. Answer(r, "done")
        BY <2>4 DEF Writes, InsertRefund, Decide, SetRefund, Commit
      <4>. QED  BY <4>1, AnswerMoves, MoveOf
    <3>2. LinesAreRows(r)'
      BY <3>1, LinesAfterEnd
    <3>3. CASE Commit(r)
      BY <2>2, <3>2, <3>3, ReceivableAfterCommit DEF ReceivableInv
    <3>4. CASE InsertRefund(r) \/ Decide(r)
      <4>1. \A a \in allocations : a.by # NoRequest => a.by \in Requests
        BY DEF TypeInv, StateOK, RowType
      <4>2. \A q \in Requests : pc[q] = "done" => pc'[q] = "done"
        BY <2>1, <3>1
      <4>3. allocations' = allocations /\ receivable' = receivable
        BY <3>4 DEF InsertRefund, Decide, SetRefund
      <4>4. RowsAreOfDone' /\ ReceivableIsAllocated'
        BY <4>1, <4>2, <4>3 DEF ReceivableInv, RowsAreOfDone, ReceivableIsAllocated
      <4>. QED  BY <2>2, <3>2, <4>4 DEF ReceivableInv
    <3>. QED  BY <2>4, <3>3, <3>4 DEF Writes
  <2>. QED  BY <2>3, <2>4
<1>. QED  BY <1>1, <1>2 DEF Next, Quiescent

LEMMA InitReceivableInv ==
  ASSUME Init
  PROVE  ReceivableInv
<1>1. \A r \in Requests : tx[r] = Fresh /\ pc[r] = "idle" /\ Fresh.n = 0 /\ Fresh.draft = {}
  BY DEF Init, Fresh
<1>2. ASSUME NEW r \in Requests PROVE LinesAreRows(r)
  <2>1. OwnRows(r) = {}
    BY <1>1 DEF OwnRows
  <2>2. Applied(OwnRows(r)) = Cleared(tx[r].draft) + 0
    BY <1>1, <2>1, NothingApplied, ClearedType
  <2>. QED  BY <1>1, <2>2 DEF LinesAreRows, Posting
<1>3. RowsAreOfDone
  BY ConstantsAssumption DEF Init, RowsAreOfDone
<1>4. ReceivableIsAllocated
  BY DEF Init, ReceivableIsAllocated
<1>. QED  BY <1>2, <1>3, <1>4 DEF ReceivableInv

(* What a receipt took off the receivables is what is allocated of it,     *)
(* where besides no receipt is created with allocations: rows and journal  *)
(* entries of a part are written by one transaction                        *)
(* (postAllocationReclassification).                                       *)
THEOREM ReceivablesMatchRows ==
  ASSUME NoReversals, PartsDiffer, CreatedUnallocated
  PROVE  Spec => []ReceivableIsAllocated
<1>1. Init => TypeInv /\ EntriesHaveRows /\ ReceivableInv
  BY InitTypeInv, EntriesKeepRows, InitReceivableInv
<1>2. TypeInv /\ EntriesHaveRows /\ ReceivableInv /\ [Next]_vars
        => (TypeInv /\ EntriesHaveRows /\ ReceivableInv)'
  BY NextTypeInv, EntriesKeepRows, NextReceivableInv
<1>3. ReceivableInv => ReceivableIsAllocated
  BY DEF ReceivableInv
<1>. QED  BY <1>1, <1>2, <1>3, PTL DEF Spec

-------------------------------------------------------------------------------
(***************************************************************************)
(* The amount of a receipt.  An allocation checks the amount when it reads *)
(* the receipt and writes its rows when it commits, and others may commit  *)
(* in between.  What stops them is the unique reference of a journal       *)
(* entry, which is of a receipt and an invoice: of allocations that post   *)
(* to one invoice only one commits.  So if any two bodies of a receipt     *)
(* have an invoice in common, the one that commits finds no row but those  *)
(* of earlier times.                                                       *)
(***************************************************************************)
Total(in) == SumFunction([k \in DOMAIN in.parts |-> in.parts[k].amount])

Spending == {"readInvoices"} \union Allocating \union Closing

RivalsMeet ==
  \A w \in Workloads : \A q, r \in Requests :
    /\ q # r /\ Allocates(w[q]) /\ Allocates(w[r]) /\ w[q].receipt = w[r].receipt
    /\ w[q].parts # <<>> /\ w[r].parts # <<>>
    => \E j \in DOMAIN w[q].parts, k \in DOMAIN w[r].parts :
         w[q].parts[j].invoice = w[r].parts[k].invoice

OpeningFits == \A rc \in ReceiptIds : Applied(RowsOf(Opening, rc)) <= Amount[rc]

Spends(r) == Allocates(input[r]) /\ input[r].parts # <<>> /\ pc[r] \in Spending

(* Rows that no request wrote; the rows of a request, whose body it has    *)
(* posted.                                                                 *)
Earlier(rc) == {a \in RowsOf(allocations, rc) : a.by = NoRequest}
RowsAreTheirs ==
  \A a \in allocations : a.by # NoRequest =>
    /\ pc[a.by] = "done" /\ Allocates(input[a.by])
    /\ input[a.by].receipt = a.receipt /\ input[a.by].parts # <<>>
    /\ \A k \in 1..Len(input[a.by].parts) : PartEntry(input[a.by], k) \in journals

(* The references that a transaction has posted are its own. *)
Unshared(r) ==
  \A d \in tx[r].draft :
    /\ \A e \in journals : ~SameReference(d, e)
    /\ \A q \in Requests \ {r} : \A e \in tx[q].draft : ~SameReference(d, e)

(* It has posted every part it has inserted, but for the one it is at. *)
OwnPosted(r) ==
  Allocates(input[r]) => \A k \in 1..tx[r].n :
    ~ (k = tx[r].n /\ pc[r] \in Posting) => PartEntry(input[r], k) \in tx[r].draft

AloneInv ==
  /\ EntriesHaveRows /\ RowsAreTheirs
  /\ \A r \in Requests : Unshared(r) /\ OwnPosted(r)

(* Beside the earlier rows there is room for what it is to write. *)
Reserved(r) ==
  LET rc == input[r].receipt IN
  Spends(r) => /\ Applied(Earlier(rc)) + Total(input[r]) <= tx[r].allocated
               /\ tx[r].allocated <= Amount[rc]

WithinInv == AllocatedWithinReceipt /\ \A r \in Requests : Reserved(r)

(* An entry that a step drafts has a reference of its own. *)
LEMMA PostAlone ==
  ASSUME TypeInv, NEW r \in Requests, NEW label, NEW d, NEW e, NEW seen, Post(r, d, label, seen),
         seen \in TxType, seen.draft = tx[r].draft, e \notin tx[r].draft,
         tx'[r].draft = tx[r].draft \union {e}
  PROVE  \A q \in Requests \ {r} : \A f \in tx[q].draft : ~SameReference(e, f)
<1>1. \A q \in Requests \ {r} : \A f \in tx[q].draft : ~SameReference(f, d)
  BY DEF Post
<1>2. ~Rollback(r)
  <2>1. Fresh.draft = {}
    BY DEF Fresh
  <2>. QED  BY <2>1, RollbackOf
<1>3. tx'[r] = [seen EXCEPT !.draft = @ \union {d}]
  <2>. DEFINE wrote == [seen EXCEPT !.draft = @ \union {d}]
  <2>1. Passes(r, label, wrote)
    BY <1>2, PostOf
  <2>. HIDE DEF wrote
  <2>2. tx'[r] = wrote
    BY <2>1, PassOf
  <2>. QED  BY <2>2 DEF wrote
<1>4. tx'[r].draft = tx[r].draft \union {d}
  BY <1>3 DEF TxType
<1>5. e = d
  BY <1>4
<1>. QED  BY <1>1, <1>5 DEF SameReference

LEMMA DraftsAlone ==
  ASSUME TypeInv, NEW r \in Requests, Submit(r) \/ Step(r) \/ Abort(r), ~Writes(r), NEW e, Drafts(r, e)
  PROVE  /\ e \notin tx[r].draft
         /\ \A q \in Requests \ {r} : \A f \in tx[q].draft : ~SameReference(e, f)
<1>1. e \notin tx[r].draft /\ tx'[r].draft = tx[r].draft \union {e}
  BY DEF Drafts, SameReference
<1>. DEFINE Posts == \E d, label, seen : /\ Post(r, d, label, seen) /\ seen \in TxType
                                         /\ seen.draft = tx[r].draft
<1>2. tx[r] \in TxType /\ tx[r].draft = tx[r].draft
  BY AtStep
<1>3. CASE Submit(r)
  BY <1>1, <1>3 DEF Submit
<1>4. CASE Rollback(r)
  <2>1. Fresh.draft = {}
    BY DEF Fresh
  <2>. QED  BY <1>1, <1>4, <2>1, RollbackOf
<1>5. ASSUME NEW label, NEW seen, Passes(r, label, seen), seen.draft = tx[r].draft PROVE FALSE
  BY <1>1, <1>5, PassOf
<1>6. ASSUME NEW label, NEW row, Update(r, row, label) PROVE FALSE
  BY <1>1, <1>6 DEF Update
<1>7. CASE \/ InsertReceipt(r) \/ ReadInvoices(r) \/ ReadReversed(r) \/ MarkReversed(r)
           \/ ReadRefundable(r) \/ ReadPending(r) \/ ReadApproved(r) \/ CheckPosting(r)
  <2>1. Rollback(r) \/ \E label : Passes(r, label, tx[r])
    BY <1>7 DEF InsertReceipt, ReadInvoices, ReadReversed, MarkReversed, ReadRefundable,
       ReadPending, ReadApproved, CheckPosting, Read, Passes
  <2>. QED  BY <1>2, <1>4, <1>5, <2>1
<1>8. CASE EnsureSystemAccount(r) \/ WriteInvoice(r) \/ UpdateReceipt(r) \/ PayRefund(r)
  <2>1. \/ \E row, label : Update(r, row, label)
        \/ \E label : Passes(r, label, tx[r])
    BY <1>8, EnsureOf DEF WriteInvoice, UpdateReceipt, PayRefund
  <2>. QED  BY <1>2, <1>5, <1>6, <2>1
<1>9. CASE NextNumber(r) \/ ReadReceipt(r) \/ ReadDeposit(r) \/ Recompute(r) \/ ListRows(r) \/ DeleteRows(r)
  <2>1. Rollback(r) \/ \E label, seen : seen.draft = tx[r].draft /\ Passes(r, label, seen)
    <3>2. CASE NextNumber(r)
      BY <1>2, <3>2 DEF NextNumber, Read, Passes, TxType
    <3>3. CASE ReadReceipt(r)
      BY <1>2, <3>3 DEF ReadReceipt, Read, Passes, TxType
    <3>4. CASE ReadDeposit(r)
      BY <1>2, <3>4 DEF ReadDeposit, Read, Passes, TxType
    <3>5. CASE Recompute(r)
      BY <1>2, <3>5 DEF Recompute, Read, Passes, TxType
    <3>6. CASE ListRows(r) \/ DeleteRows(r)
      BY <1>2, <3>6 DEF ListRows, DeleteRows, Read, Passes, TxType
    <3>. QED  BY <1>9, <3>2, <3>3, <3>4, <3>5, <3>6
  <2>. QED  BY <1>4, <1>5, <2>1
<1>10. CASE PostAllocation(r) \/ PostReceipt(r) \/ PostRefund(r)
  <2>1. Posts
    BY <1>2, <1>10 DEF PostAllocation, PostReceipt, PostRefund
  <2>. QED  BY <1>1, <2>1, PostAlone
<1>11. CASE ReverseReceipt(r)
  <2>1. (\E label : Passes(r, label, tx[r])) \/ Posts
    BY <1>2, <1>11 DEF ReverseReceipt, Read, Passes, Rollback
  <2>. HIDE DEF Posts
  <2>2. Posts
    BY <1>2, <1>5, <2>1
  <2>. QED  BY <1>1, <2>2, PostAlone DEF Posts
<1>12. CASE ReverseAllocation(r)
  <2>. DEFINE left(a) == [tx[r] EXCEPT !.list = @ \ {a}]
  <2>0. \A a \in tx[r].list : left(a) \in TxType /\ left(a).draft = tx[r].draft
    BY <1>2 DEF TxType
  <2>1. PICK a \in tx[r].list : \/ Post(r, ReversalOf(AllocationEntry(a)), "increment", left(a))
                                \/ \E label : Passes(r, label, left(a))
    BY <1>12 DEF ReverseAllocation, Read, Passes
  <2>. HIDE DEF left
  <2>2. ~ \E label : Passes(r, label, left(a))
    BY <1>5, <2>0
  <2>. QED  BY <1>1, <2>0, <2>1, <2>2, PostAlone
<1>13. ASSUME Abort(r) PROVE Rollback(r)
  BY <1>13 DEF Abort
<1>. QED  BY <1>1, <1>3, <1>4, <1>7, <1>8, <1>9, <1>10, <1>11, <1>12, <1>13 DEF Step, Writes

LEMMA PartsNotFewer ==
  ASSUME TypeInv, NEW r \in Requests, Submit(r) \/ Step(r) \/ Abort(r), ~Writes(r),
         input[r].kind # "REVERSE", ~ (pc'[r] = "failed" /\ tx'[r] = Fresh)
  PROVE  /\ tx[r].n \in Nat /\ tx'[r].n \in {tx[r].n, tx[r].n + 1}
         /\ ~Inserts(r) => tx'[r].n = tx[r].n
         /\ tx'[r].gone = {}
<1>1. tx[r] \in TxType /\ tx[r].n \in Nat /\ tx[r].gone = {}
  BY AtStep DEF OnPath
<1>2. Inserts(r) \/ Recomputes(r) \/ Keeps(r)
  BY AllocationSteps
<1>3. CASE Inserts(r)
  BY <1>1, <1>3 DEF Inserts, TxType
<1>4. CASE Recomputes(r)
  BY <1>1, <1>4 DEF Recomputes, TxType
<1>5. CASE Keeps(r)
  BY <1>1, <1>5 DEF Keeps
<1>. QED  BY <1>2, <1>3, <1>4, <1>5

(* A request that has not read its receipt takes one of the first steps. *)
LEMMA EarlySteps ==
  ASSUME NEW r \in Requests, Submit(r) \/ Step(r) \/ Abort(r), ~Rollback(r),
         pc[r] \in {"idle", "number", "insertReceipt", "readReceipt"}
  PROVE  Submit(r) \/ NextNumber(r) \/ InsertReceipt(r) \/ ReadReceipt(r)
<1>. DEFINE Late == pc[r] \notin {"idle", "number", "insertReceipt", "readReceipt"}
<1>1. CASE Abort(r)
  BY <1>1 DEF Abort
<1>2. CASE \/ ReadInvoices(r) \/ ReadDeposit(r) \/ EnsureSystemAccount(r) \/ PostAllocation(r)
           \/ Recompute(r) \/ WriteInvoice(r) \/ UpdateReceipt(r) \/ PostReceipt(r)
           \/ ReadReversed(r) \/ ListRows(r)
  <2>1. Late
    BY <1>2 DEF ReadInvoices, ReadDeposit, EnsureSystemAccount, AccountCall, PostAllocation,
       Recompute, WriteInvoice, UpdateReceipt, PostReceipt, ReadReversed, ListRows
  <2>. QED  BY <2>1
<1>3. CASE \/ DeleteRows(r) \/ ReverseAllocation(r) \/ ReverseReceipt(r) \/ MarkReversed(r)
           \/ ReadRefundable(r) \/ InsertRefund(r) \/ ReadPending(r) \/ Decide(r) \/ ReadApproved(r)
           \/ CheckPosting(r) \/ PostRefund(r) \/ PayRefund(r) \/ Commit(r)
  <2>1. Late
    BY <1>3 DEF DeleteRows, ReverseAllocation, ReverseReceipt, MarkReversed, ReadRefundable,
       InsertRefund, ReadPending, Decide, ReadApproved, CheckPosting, PostRefund, PayRefund, Commit
  <2>. QED  BY <2>1
<1>. QED  BY <1>1, <1>2, <1>3 DEF Step

(* An allocation begins to spend by reading its receipt, and goes by what  *)
(* it read.                                                                *)
LEMMA SpendingSteps ==
  ASSUME TypeInv, NEW r \in Requests, Submit(r) \/ Step(r) \/ Abort(r), ~Writes(r), ~Rollback(r),
         Spends(r)', ~ReadReceipt(r)
  PROVE  Spends(r) /\ tx'[r].allocated = tx[r].allocated
<1>1. input' = input
  BY OthersStay
<1>2. Allocates(input[r]) /\ input[r].parts # <<>> /\ pc'[r] \in Spending /\ input[r].kind # "REVERSE"
  BY <1>1 DEF Spends, Allocates
<1>3. pc[r] \in Spending
  <2>1. ASSUME pc[r] \in {"idle", "number", "insertReceipt"} PROVE FALSE
    <3>1. Submit(r) \/ NextNumber(r) \/ InsertReceipt(r)
      BY <2>1, EarlySteps
    <3>2. \E label \in {"number", "readReceipt", "insertReceipt"} : Goto(r, label)
      <4>1. CASE Submit(r)
        BY <1>2, <4>1 DEF Submit, FirstStep, Allocates
      <4>2. CASE NextNumber(r)
        BY <4>2 DEF NextNumber, Read, Goto
      <4>3. CASE InsertReceipt(r)
        BY <1>2, <4>3 DEF InsertReceipt, Read, Goto
      <4>. QED  BY <3>1, <4>1, <4>2, <4>3
    <3>3. pc'[r] \in {"number", "readReceipt", "insertReceipt"}
      BY <3>2 DEF Goto, TypeInv, StateOK, TypeOK
    <3>. QED  BY <1>2, <3>3 DEF Spending, Allocating, Closing
  <2>2. pc[r] # "readReceipt"
    BY EarlySteps DEF Submit, NextNumber, InsertReceipt
  <2>3. pc[r] \notin {"done", "failed"}
    BY EndedStays
  <2>4. pc[r] \in PathOf[input[r].kind]
    BY AtStep DEF OnPath
  <2>. QED  BY <1>2, <2>1, <2>2, <2>3, <2>4 DEF Allocates, PathOf, Ends, Spending, Closing
<1>4. pc[r] # "readReceipt"
  BY <1>3 DEF Spending, Allocating, Closing
<1>5. Inserts(r) \/ Recomputes(r) \/ Keeps(r)
  BY <1>2, AllocationSteps
<1>6. tx'[r].allocated = tx[r].allocated
  BY <1>4, <1>5, AtStep DEF Inserts, Recomputes, Keeps, TxType
<1>. QED  BY <1>2, <1>3, <1>6 DEF Spends

(* The rows of all parts of a body amount to its total. *)
LEMMA OwnTotal ==
  ASSUME TypeInv, NEW r \in Requests, tx[r].n = Len(input[r].parts)
  PROVE  Applied(OwnRows(r)) = Total(input[r]) /\ Total(input[r]) \in Nat
<1>. DEFINE D == 1..tx[r].n
            h == [k \in D |-> [by |-> r, n |-> k, receipt |-> input[r].receipt,
                               invoice |-> input[r].parts[k].invoice, amount |-> input[r].parts[k].amount]]
            f == [k \in D |-> input[r].parts[k].amount]
            g == [a \in OwnRows(r) |-> a.amount]
<1>1. DOMAIN input[r].parts = D /\ Len(input[r].parts) \in Nat
  BY BodyType DEF TypeInv, StateOK, InputType
<1>2. IsFiniteSet(D)
  BY <1>1, FS_Interval
<1>3. OwnRows(r) = {h[k] : k \in D}
  BY DEF OwnRows
<1>4. \A j, k \in D : h[j] = h[k] => j = k
  OBVIOUS
<1>5. \A k \in D : input[r].parts[k].amount \in Nat
  BY <1>1, PartType DEF TypeInv, StateOK
<1>6. ASSUME NEW k \in D PROVE f[k] \in Int /\ g[h[k]] = f[k]
  <2>1. h[k] \in OwnRows(r) /\ h[k].amount = f[k]
    BY <1>3
  <2>. QED  BY <1>5, <2>1
<1>7. DOMAIN f = D /\ DOMAIN g = OwnRows(r)
  OBVIOUS
<1>8. Total(input[r]) = SumFunction(f)
  BY <1>1 DEF Total
<1>9. Applied(OwnRows(r)) = SumFunction(g)
  BY DEF Applied
<1>. HIDE DEF f, g, h, D
<1>10. SumFunctionOnSet(g, {h[k] : k \in D}) = SumFunctionOnSet(f, D)
  BY <1>2, <1>4, <1>6, SumOfImage
<1>11. Applied(OwnRows(r)) = Total(input[r])
  BY <1>3, <1>7, <1>8, <1>9, <1>10 DEF SumFunction
<1>. QED  BY <1>11, OwnAmounts

LEMMA AppliedSubset ==
  ASSUME NEW S, IsFiniteSet(S), S \subseteq RowType, NEW T, T \subseteq S
  PROVE  Applied(T) <= Applied(S) /\ Applied(T) \in Nat /\ Applied(S) \in Nat
<1>. DEFINE U == S \ T
<1>1. IsFiniteSet(T) /\ Applied(T) \in Nat /\ IsFiniteSet(U) /\ Applied(U) \in Nat /\ Applied(S) \in Nat
  BY AmountOfRows
<1>2. T \intersect U = {} /\ T \union U = S /\ \A a \in T \union U : a.amount \in Nat
  BY DEF RowType
<1>. HIDE DEF U
<1>3. Applied(T \union U) = Applied(T) + Applied(U)
  BY <1>1, <1>2, AppliedUnion
<1>4. Applied(S) = Applied(T) + Applied(U)
  BY <1>2, <1>3
<1>. QED  BY <1>1, <1>4

(* The rows of a receipt are its rows. *)
LEMMA RowsOfType ==
  ASSUME NEW S, IsFiniteSet(S), S \subseteq RowType, NEW rc
  PROVE  /\ RowsOf(S, rc) \subseteq S /\ IsFiniteSet(RowsOf(S, rc)) /\ RowsOf(S, rc) \subseteq RowType
         /\ Applied(RowsOf(S, rc)) \in Nat
<1>1. RowsOf(S, rc) \subseteq S
  BY DEF RowsOf
<1>2. IsFiniteSet(RowsOf(S, rc)) /\ Applied(RowsOf(S, rc)) \in Nat
  BY <1>1, AmountOfRows
<1>. QED  BY <1>1, <1>2

LEMMA NextRowsAreOfDone ==
  ASSUME TypeInv, RowsAreOfDone, NEW r \in Requests, Submit(r) \/ Step(r) \/ Abort(r)
  PROVE  RowsAreOfDone'
<1>1. \A q \in Requests : pc[q] = "done" => pc'[q] = "done"
  BY OthersStay, EndedStays
<1>2. \A a \in allocations : a.by # NoRequest => a.by \in Requests
  BY DEF TypeInv, StateOK, RowType
<1>3. \A a \in allocations' : a \in allocations \/ (a.by = r /\ pc'[r] = "done")
  <2>1. CASE Commit(r)
    <3>1. pc'[r] = "done"
      <4>1. Answer(r, "done")
        BY <2>1 DEF Commit
      <4>. QED  BY <4>1, AnswerMoves, MoveOf
    <3>2. allocations' = (allocations \ tx[r].gone) \union OwnRows(r)
      BY <2>1 DEF Commit, Visible
    <3>. QED  BY <3>1, <3>2 DEF OwnRows
  <2>2. CASE ~Commit(r)
    <3>1. allocations' = allocations
      BY <2>2, OthersStay DEF Writes, money, InsertRefund, Decide, SetRefund
    <3>. QED  BY <3>1
  <2>. QED  BY <2>1, <2>2
<1>. QED  BY <1>1, <1>2, <1>3 DEF RowsAreOfDone

LEMMA NextOwnPosted ==
  ASSUME TypeInv, EntriesHaveRows, PartsDiffer, NEW r \in Requests, OwnPosted(r),
         Submit(r) \/ Step(r) \/ Abort(r), ~Writes(r), ~ (pc'[r] = "failed" /\ tx'[r] = Fresh),
         Allocates(input[r])
  PROVE  OwnPosted(r)'
<1>1. input' = input
  BY OthersStay
<1>2. /\ tx[r].n \in Nat /\ tx'[r].n \in {tx[r].n, tx[r].n + 1}
      /\ ~Inserts(r) => tx'[r].n = tx[r].n
  BY PartsNotFewer DEF Allocates
<1>3. \A k \in 1..tx[r].n : ~ (k = tx[r].n /\ pc[r] \in Posting) => PartEntry(input[r], k) \in tx[r].draft
  BY DEF OwnPosted
<1>4. tx[r].draft \subseteq tx'[r].draft
  BY DraftSteps DEF Drafts
<1>5. ASSUME NEW k \in 1..tx'[r].n, ~ (k = tx'[r].n /\ pc'[r] \in Posting)
      PROVE  PartEntry(input[r], k) \in tx'[r].draft
  <2>1. CASE Inserts(r)
    <3>1. /\ pc[r] \notin Posting /\ tx'[r].n = tx[r].n + 1 /\ pc'[r] \in Posting
      <4>1. tx[r] \in TxType
        BY AtStep
      <4>2. PartEntry(input[r], tx[r].n + 1) \notin Entries(r)
        BY <2>1, NothingIsSkipped DEF Inserts
      <4>. QED  BY <2>1, <4>1, <4>2 DEF Inserts, Posting, TxType
    <3>2. k \in 1..tx[r].n
      BY <1>2, <1>5, <3>1
    <3>. QED  BY <1>3, <1>4, <3>1, <3>2
  <2>2. CASE ~Inserts(r)
    <3>1. tx'[r].n = tx[r].n /\ k \in 1..tx[r].n
      BY <1>2, <2>2
    <3>2. CASE ~ (k = tx[r].n /\ pc[r] \in Posting)
      BY <1>3, <1>4, <3>1, <3>2
    <3>3. CASE k = tx[r].n /\ pc[r] \in Posting
      <4>0. ~Rollback(r)
        BY RollbackOf
      <4>1. pc[r] = "postAllocation" /\ tx'[r].draft # tx[r].draft
        <5>1. pc'[r] \notin Posting
          BY <1>5, <3>1, <3>3
        <5>. QED  BY <3>3, <4>0, <5>1, PostingSteps DEF Posting
      <4>2. PICK e : Drafts(r, e)
        BY <4>1, DraftSteps
      <4>. QED  BY <3>3, <4>1, <4>2 DEF Drafts
    <3>. QED  BY <3>2, <3>3
  <2>. QED  BY <2>1, <2>2
<1>. QED  BY <1>1, <1>5 DEF OwnPosted

LEMMA NextUnshared ==
  ASSUME TypeInv, AloneInv, NEW r \in Requests, Submit(r) \/ Step(r) \/ Abort(r), NEW q \in Requests
  PROVE  Unshared(q)'
<1>1. \A p \in Requests \ {r} : tx'[p] = tx[p]
  BY OthersStay
<1>2. \A p \in Requests : Unshared(p)
  BY DEF AloneInv
<1>3. Fresh.draft = {}
  BY DEF Fresh
<1>4. CASE Writes(r)
  <2>1. tx'[r] = Fresh
    <3>1. Answer(r, "done")
      BY <1>4 DEF Writes, InsertRefund, Decide, SetRefund, Commit
    <3>. QED  BY <3>1, AnswerMoves, MoveOf
  <2>2. journals' = journals \/ journals' = journals \union tx[r].draft
    BY <1>4 DEF Writes, InsertRefund, Decide, SetRefund, Commit, PublishJournals
  <2>3. CASE q = r
    BY <1>3, <2>1, <2>3 DEF Unshared
  <2>4. CASE q # r
    <3>1. tx'[q] = tx[q] /\ \A p \in Requests : tx'[p].draft \subseteq tx[p].draft
      BY <1>1, <1>3, <2>1, <2>4
    <3>. QED  BY <1>2, <2>2, <2>4, <3>1 DEF Unshared
  <2>. QED  BY <2>3, <2>4
<1>5. CASE ~Writes(r)
  <2>1. journals' = journals
    BY <1>5, OthersStay DEF money
  <2>2. \/ tx'[r].draft \subseteq tx[r].draft \/ \E e : Drafts(r, e)
    BY <1>3, <1>5, DraftSteps
  <2>3. CASE tx'[r].draft \subseteq tx[r].draft
    <3>1. \A p \in Requests : tx'[p].draft \subseteq tx[p].draft
      BY <1>1, <2>3
    <3>. QED  BY <1>2, <2>1, <3>1 DEF Unshared
  <2>4. ASSUME NEW e, Drafts(r, e) PROVE Unshared(q)'
    <3>1. /\ tx'[r].draft = tx[r].draft \union {e}
          /\ \A d \in journals : ~SameReference(e, d)
      BY <2>4 DEF Drafts, SameReference
    <3>2. \A p \in Requests \ {r} : \A d \in tx[p].draft : ~SameReference(d, e) /\ ~SameReference(e, d)
      BY <1>5, <2>4, DraftsAlone DEF SameReference
    <3>3. CASE q = r
      <4>1. ASSUME NEW d \in tx[r].draft \union {e}
            PROVE  /\ \A f \in journals : ~SameReference(d, f)
                   /\ \A p \in Requests \ {r} : \A f \in tx[p].draft : ~SameReference(d, f)
        BY <1>2, <3>1, <3>2 DEF Unshared
      <4>. QED  BY <1>1, <2>1, <3>1, <3>3, <4>1 DEF Unshared
    <3>4. CASE q # r
      <4>1. ASSUME NEW d \in tx[q].draft, NEW p \in Requests \ {q}, NEW f \in tx'[p].draft
            PROVE  ~SameReference(d, f)
        <5>1. CASE p = r
          BY <1>2, <3>1, <3>2, <3>4, <4>1, <5>1 DEF Unshared
        <5>2. CASE p # r
          BY <1>1, <1>2, <4>1, <5>2 DEF Unshared
        <5>. QED  BY <5>1, <5>2
      <4>. QED  BY <1>1, <1>2, <2>1, <3>4, <4>1 DEF Unshared
    <3>. QED  BY <3>3, <3>4
  <2>. QED  BY <2>2, <2>3, <2>4
<1>. QED  BY <1>4, <1>5

(* A row is of a request that has committed all of its body. *)
LEMMA CommittedBody ==
  ASSUME TypeInv, AloneInv, NEW r \in Requests, Commit(r), OwnRows(r) # {}
  PROVE  /\ Allocates(input[r]) /\ input[r].parts # <<>> /\ tx[r].n = Len(input[r].parts)
         /\ \A k \in 1..Len(input[r].parts) : PartEntry(input[r], k) \in tx[r].draft
<1>1. pc[r] = "commit" /\ tx[r].n > 0
  <2>1. tx[r].n # 0 /\ tx[r].n \in Nat
    BY AtStep, OwnRowsOf DEF TxType
  <2>. QED  BY <2>1 DEF Commit
<1>2. Allocates(input[r]) /\ tx[r].n = Len(input[r].parts)
  BY <1>1, AtStep DEF OnPath, Allocates, Closing
<1>3. input[r].parts # <<>>
  BY <1>1, <1>2
<1>4. \A k \in 1..Len(input[r].parts) : PartEntry(input[r], k) \in tx[r].draft
  BY <1>1, <1>2 DEF AloneInv, OwnPosted, Posting
<1>. QED  BY <1>2, <1>3, <1>4

LEMMA NextRowsAreTheirs ==
  ASSUME TypeInv, AloneInv, NEW r \in Requests, Submit(r) \/ Step(r) \/ Abort(r)
  PROVE  RowsAreTheirs'
<1>1. \A q \in Requests : pc[q] = "done" => pc'[q] = "done"
  BY OthersStay, EndedStays
<1>2. \A a \in allocations : a.by # NoRequest => a.by \in Requests
  BY DEF TypeInv, StateOK, RowType
<1>3. input' = input
  BY OthersStay
<1>4. journals \subseteq journals'
  <2>1. CASE Commit(r)
    BY <2>1 DEF Commit, PublishJournals
  <2>2. CASE ~Commit(r)
    BY <2>2, OthersStay DEF Writes, money, InsertRefund, Decide, SetRefund
  <2>. QED  BY <2>1, <2>2
<1>5. ASSUME NEW a \in allocations', a \notin allocations
      PROVE  /\ a.by = r /\ pc'[r] = "done" /\ Allocates(input[r])
             /\ input[r].receipt = a.receipt /\ input[r].parts # <<>>
             /\ \A k \in 1..Len(input[r].parts) : PartEntry(input[r], k) \in journals'
  <2>1. Commit(r)
    BY <1>5, OthersStay DEF Writes, money, InsertRefund, Decide, SetRefund
  <2>2. a \in OwnRows(r) /\ a.by = r /\ a.receipt = input[r].receipt
    BY <1>5, <2>1 DEF Commit, Visible, OwnRows
  <2>3. pc'[r] = "done"
    <3>1. Answer(r, "done")
      BY <2>1 DEF Commit
    <3>. QED  BY <3>1, AnswerMoves, MoveOf
  <2>4. tx[r].draft \subseteq journals'
    BY <2>1 DEF Commit, PublishJournals
  <2>. QED  BY <2>1, <2>2, <2>3, <2>4, CommittedBody
<1>6. ASSUME NEW a \in allocations, a.by # NoRequest
      PROVE  /\ pc'[a.by] = "done" /\ Allocates(input[a.by])
             /\ input[a.by].receipt = a.receipt /\ input[a.by].parts # <<>>
             /\ \A k \in 1..Len(input[a.by].parts) : PartEntry(input[a.by], k) \in journals'
  BY <1>1, <1>2, <1>4, <1>6 DEF AloneInv, RowsAreTheirs
<1>. QED  BY <1>3, <1>5, <1>6 DEF RowsAreTheirs

LEMMA NextAloneInv ==
  ASSUME TypeInv, AloneInv, PartsDiffer, [Next]_vars
  PROVE  AloneInv'
<1>1. ASSUME UNCHANGED vars PROVE AloneInv'
  <2>1. EntriesHaveRows'
    BY <1>1, EntriesKeepRows DEF AloneInv
  <2>2. RowsAreTheirs'
    BY <1>1 DEF vars, money, AloneInv, RowsAreTheirs
  <2>3. ASSUME NEW r \in Requests PROVE Unshared(r)' /\ OwnPosted(r)'
    BY <1>1 DEF vars, money, AloneInv, Unshared, OwnPosted
  <2>. QED  BY <2>1, <2>2, <2>3 DEF AloneInv
<1>2. ASSUME NEW r \in Requests, Submit(r) \/ Step(r) \/ Abort(r)
      PROVE  AloneInv'
  <2>1. EntriesHaveRows' /\ RowsAreTheirs'
    BY <1>2, NextEntriesHaveRows, NextRowsAreTheirs DEF AloneInv
  <2>2. \A q \in Requests : Unshared(q)'
    BY <1>2, NextUnshared
  <2>3. ASSUME NEW q \in Requests PROVE OwnPosted(q)'
    <3>0. input' = input /\ OwnPosted(q)
      BY <1>2, OthersStay DEF AloneInv
    <3>1. CASE q # r
      BY <1>2, <3>0, <3>1, OthersStay DEF OwnPosted
    <3>2. CASE q = r /\ tx'[r] = Fresh
      BY <3>2 DEF OwnPosted, Fresh
    <3>3. CASE q = r /\ tx'[r] # Fresh
      <4>1. ~Writes(r)
        <5>1. Answer(r, "done") => tx'[r] = Fresh
          BY AnswerMoves, MoveOf
        <5>. QED  BY <3>3, <5>1 DEF Writes, InsertRefund, Decide, SetRefund, Commit
      <4>2. CASE Allocates(input[r])
        BY <1>2, <3>0, <3>3, <4>1, <4>2, NextOwnPosted DEF AloneInv
      <4>3. CASE ~Allocates(input[r])
        BY <3>0, <3>3, <4>3 DEF OwnPosted
      <4>. QED  BY <4>2, <4>3
    <3>. QED  BY <3>1, <3>2, <3>3
  <2>. QED  BY <2>1, <2>2, <2>3 DEF AloneInv
<1>. QED  BY <1>1, <1>2 DEF Next, Quiescent

LEMMA InitAloneInv ==
  ASSUME Init
  PROVE  AloneInv
<1>1. \A r \in Requests : tx[r] = Fresh /\ Fresh.n = 0 /\ Fresh.draft = {}
  BY DEF Init, Fresh
<1>2. RowsAreTheirs
  BY ConstantsAssumption DEF Init, RowsAreTheirs
<1>3. ASSUME NEW r \in Requests PROVE Unshared(r) /\ OwnPosted(r)
  <2>1. tx[r].draft = {} /\ tx[r].n = 0
    BY <1>1
  <2>. QED  BY <2>1 DEF Unshared, OwnPosted
<1>. QED  BY <1>2, <1>3, EntriesKeepRows DEF AloneInv

(* An allocation that is to commit is the first of its receipt. *)
LEMMA CommitsAlone ==
  ASSUME TypeInv, AloneInv, RivalsMeet, NEW r \in Requests, pc[r] = "commit", Spends(r)
  PROVE  RowsOf(allocations, input[r].receipt) = Earlier(input[r].receipt)
<1>. SUFFICES ASSUME NEW a \in allocations, a.receipt = input[r].receipt, a.by # NoRequest
              PROVE  FALSE
  BY DEF RowsOf, Earlier
<1>. DEFINE q == a.by
<1>1. q \in Requests /\ input \in Workloads
  BY DEF TypeInv, StateOK, RowType
<1>2. /\ pc[q] = "done" /\ Allocates(input[q]) /\ input[q].receipt = input[r].receipt
      /\ input[q].parts # <<>>
      /\ \A k \in 1..Len(input[q].parts) : PartEntry(input[q], k) \in journals
  BY DEF AloneInv, RowsAreTheirs
<1>3. /\ Allocates(input[r]) /\ input[r].parts # <<>> /\ tx[r].n = Len(input[r].parts)
  BY AtStep DEF Spends, OnPath, Allocates, Closing
<1>. HIDE DEF q
<1>4. PICK j \in DOMAIN input[q].parts, k \in DOMAIN input[r].parts :
         input[q].parts[j].invoice = input[r].parts[k].invoice
  BY <1>1, <1>2, <1>3 DEF RivalsMeet
<1>5. j \in 1..Len(input[q].parts) /\ k \in 1..Len(input[r].parts)
  BY <1>1, BodyType DEF InputType
<1>6. PartEntry(input[r], k) \in tx[r].draft
  BY <1>3, <1>5 DEF AloneInv, OwnPosted, Posting
<1>7. SameReference(PartEntry(input[r], k), PartEntry(input[q], j))
  BY <1>2, <1>4 DEF SameReference, PartEntry, AllocationEntry
<1>. QED  BY <1>2, <1>5, <1>6, <1>7 DEF AloneInv, Unshared

(* A commit adds what was reserved, or takes away. *)
LEMMA RowsAfterCommit ==
  ASSUME TypeInv, AloneInv, WithinInv, RivalsMeet, NEW r \in Requests, Commit(r),
         NEW rc \in ReceiptIds
  PROVE  Applied(RowsOf(allocations, rc))' <= Amount[rc]
<1>. DEFINE old == RowsOf(allocations, rc)
            kept == RowsOf(allocations \ tx[r].gone, rc)
<1>1. pc[r] = "commit" /\ allocations' = (allocations \ tx[r].gone) \union OwnRows(r)
  BY DEF Commit, Visible
<1>2. /\ IsFiniteSet(allocations) /\ allocations \subseteq RowType
      /\ Applied(old) \in Nat /\ IsFiniteSet(old) /\ old \subseteq RowType
  BY RowsOfType DEF TypeInv, StateOK
<1>3. kept \subseteq old /\ IsFiniteSet(kept)
  BY <1>2, FS_Subset DEF RowsOf
<1>4. Applied(kept) <= Applied(old) /\ Applied(kept) \in Nat
  BY <1>2, <1>3, AppliedSubset
<1>5. \A a \in OwnRows(r) : a.receipt = input[r].receipt /\ a.by = r
  BY DEF OwnRows
<1>6. CASE rc # input[r].receipt \/ OwnRows(r) = {}
  <2>1. RowsOf((allocations \ tx[r].gone) \union OwnRows(r), rc) = kept
    BY <1>5, <1>6 DEF RowsOf
  <2>2. Applied(RowsOf(allocations, rc))' = Applied(kept)
    BY <1>1, <2>1 DEF RowsOf
  <2>3. Applied(old) <= Amount[rc] /\ Amount[rc] \in Nat
    BY ConstantsAssumption DEF WithinInv, AllocatedWithinReceipt
  <2>. HIDE DEF old, kept
  <2>. QED  BY <1>2, <1>4, <2>2, <2>3
<1>7. CASE rc = input[r].receipt /\ OwnRows(r) # {}
  <2>2. Allocates(input[r]) /\ tx[r].n = Len(input[r].parts) /\ input[r].parts # <<>>
    BY <1>7, CommittedBody
  <2>3. Spends(r)
    BY <1>1, <2>2 DEF Spends, Spending, Closing
  <2>4. Applied(old) + Total(input[r]) <= tx[r].allocated /\ tx[r].allocated <= Amount[rc]
    <3>1. old = Earlier(rc)
      BY <1>1, <1>7, <2>3, CommitsAlone
    <3>. QED  BY <1>7, <2>3, <3>1 DEF WithinInv, Reserved
  <2>5. old \intersect OwnRows(r) = {}
    <3>1. RowsAreOfDone
      BY DEF AloneInv, RowsAreTheirs, RowsAreOfDone
    <3>. QED  BY <1>1, <3>1, RowsOwned DEF RowsOf
  <2>6. RowsOf((allocations \ tx[r].gone) \union OwnRows(r), rc) = kept \union OwnRows(r)
    BY <1>5, <1>7 DEF RowsOf
  <2>7. Applied(kept \union OwnRows(r)) = Applied(kept) + Applied(OwnRows(r))
    <3>1. kept \intersect OwnRows(r) = {} /\ \A a \in kept \union OwnRows(r) : a.amount \in Nat
      BY <1>2, <1>3, <2>5, OwnAmounts DEF RowType
    <3>. HIDE DEF kept
    <3>. QED  BY <1>3, <3>1, OwnAmounts, AppliedUnion
  <2>8. Applied(RowsOf(allocations, rc))' = Applied(kept) + Total(input[r])
    <3>1. Applied(RowsOf(allocations, rc))' = Applied(kept \union OwnRows(r))
      BY <1>1, <2>6 DEF RowsOf
    <3>. QED  BY <2>2, <2>7, <3>1, OwnTotal
  <2>9. Amount[rc] \in Nat /\ tx[r].allocated \in Nat /\ Total(input[r]) \in Nat
    BY <2>2, ConstantsAssumption, AtStep, OwnTotal DEF TxType
  <2>. HIDE DEF kept, old
  <2>. QED  BY <1>2, <1>4, <2>4, <2>8, <2>9
<1>. QED  BY <1>6, <1>7

LEMMA ReservedWhenRead ==
  ASSUME TypeInv, NEW r \in Requests, ReadReceipt(r), ~Rollback(r)
  PROVE  Reserved(r)' /\ allocations' = allocations
<1>. DEFINE rows == RowsOf(allocations, input[r].receipt)
            after == Applied(rows) + Total(input[r])
            seen == [tx[r] EXCEPT !.allocated = after]
<1>1. Passes(r, "readInvoices", seen) /\ after <= Amount[input[r].receipt]
  BY DEF ReadReceipt, Read, Passes, Total
<1>2. seen.allocated = after
  BY AtStep DEF TxType
<1>3. Earlier(input[r].receipt) \subseteq rows
  BY DEF Earlier
<1>4. Applied(Earlier(input[r].receipt)) <= Applied(rows) /\ Applied(Earlier(input[r].receipt)) \in Nat
      /\ Applied(rows) \in Nat /\ Total(input[r]) \in Nat
  <2>1. IsFiniteSet(rows) /\ rows \subseteq RowType
    BY RowsOfType DEF TypeInv, StateOK
  <2>2. Total(input[r]) \in Nat
    BY PartsAmount DEF Total, TypeInv, StateOK
  <2>. HIDE DEF rows
  <2>. QED  BY <1>3, <2>1, <2>2, AppliedSubset
<1>. HIDE DEF seen
<1>5. tx'[r] = seen /\ input' = input /\ allocations' = allocations
  BY <1>1, PassOf DEF money
<1>6. Applied(Earlier(input[r].receipt))' = Applied(Earlier(input[r].receipt))
  BY <1>5 DEF Earlier, RowsOf
<1>7. /\ Applied(Earlier(input[r].receipt)) + Total(input[r]) <= tx'[r].allocated
      /\ tx'[r].allocated <= Amount[input[r].receipt]
  <2>. HIDE DEF rows
  <2>. QED  BY <1>1, <1>2, <1>4, <1>5
<1>8. Reserved(r)'
  BY <1>5, <1>6, <1>7 DEF Reserved
<1>. QED  BY <1>5, <1>8

(* Nobody adds to the earlier rows. *)
LEMMA EarlierShrinks ==
  ASSUME TypeInv, NEW r \in Requests, Submit(r) \/ Step(r) \/ Abort(r), NEW rc
  PROVE  Earlier(rc)' \subseteq Earlier(rc)
<1>1. CASE Commit(r)
  <2>1. allocations' = (allocations \ tx[r].gone) \union OwnRows(r)
    BY <1>1 DEF Commit, Visible
  <2>2. \A a \in OwnRows(r) : a.by # NoRequest
    BY ConstantsAssumption DEF OwnRows
  <2>. QED  BY <2>1, <2>2 DEF Earlier, RowsOf
<1>2. CASE ~Commit(r)
  <2>1. allocations' = allocations
    BY <1>2, OthersStay DEF Writes, money, InsertRefund, Decide, SetRefund
  <2>. QED  BY <2>1 DEF Earlier, RowsOf
<1>. QED  BY <1>1, <1>2

LEMMA ReservedKept ==
  ASSUME TypeInv, NEW r \in Requests, Submit(r) \/ Step(r) \/ Abort(r),
         NEW q \in Requests, Reserved(q), Spends(q)' => Spends(q) /\ tx'[q].allocated = tx[q].allocated
  PROVE  Reserved(q)'
<1>0. input' = input
  BY OthersStay
<1>1. PICK rc \in ReceiptIds : rc = input[q].receipt
  BY BodyType DEF TypeInv, StateOK, InputType
<1>2. SUFFICES ASSUME Spends(q), tx'[q].allocated = tx[q].allocated
               PROVE  /\ Applied(Earlier(rc))' + Total(input[q]) <= tx[q].allocated
                      /\ tx[q].allocated <= Amount[rc]
  BY <1>0, <1>1 DEF Reserved
<1>3. Applied(Earlier(rc)) + Total(input[q]) <= tx[q].allocated /\ tx[q].allocated <= Amount[rc]
  BY <1>1, <1>2 DEF Reserved
<1>4. Total(input[q]) \in Nat /\ tx[q].allocated \in Nat
  BY PartsAmount, AtStep DEF Total, TypeInv, StateOK, InputType, TxType
<1>5. /\ Applied(Earlier(rc))' <= Applied(Earlier(rc))
      /\ Applied(Earlier(rc))' \in Nat /\ Applied(Earlier(rc)) \in Nat
  <2>. DEFINE now == Earlier(rc)
              next == now'
  <2>1. IsFiniteSet(now) /\ now \subseteq RowType
    <3>1. now \subseteq allocations
      BY DEF Earlier, RowsOf
    <3>. QED  BY <3>1, FS_Subset DEF TypeInv, StateOK
  <2>2. next \subseteq now
    BY EarlierShrinks
  <2>3. Applied(next) = Applied(Earlier(rc))' /\ Applied(now) = Applied(Earlier(rc))
    BY DEF Applied
  <2>. HIDE DEF now, next
  <2>. QED  BY <2>1, <2>2, <2>3, AppliedSubset
<1>. QED  BY <1>3, <1>4, <1>5

LEMMA NextWithinInv ==
  ASSUME TypeInv, AloneInv, WithinInv, RivalsMeet, [Next]_vars
  PROVE  WithinInv'
<1>1. ASSUME UNCHANGED vars PROVE WithinInv'
  BY <1>1 DEF vars, money, WithinInv, Reserved, Spends, Earlier, RowsOf, AllocatedWithinReceipt
<1>2. ASSUME NEW r \in Requests, Submit(r) \/ Step(r) \/ Abort(r)
      PROVE  WithinInv'
  <2>1. /\ input' = input
        /\ \A q \in Requests \ {r} : pc'[q] = pc[q] /\ tx'[q] = tx[q]
    BY <1>2, OthersStay
  <2>2. \A q \in Requests : Reserved(q)
    BY DEF WithinInv
  <2>3. ASSUME NEW q \in Requests \ {r} PROVE Reserved(q)'
    BY <1>2, <2>1, <2>2, ReservedKept DEF Spends
  <2>4. Reserved(r)'
    <3>1. CASE Rollback(r) \/ Writes(r)
      <4>1. Answer(r, "failed") \/ Answer(r, "done")
        BY <3>1 DEF Rollback, Writes, InsertRefund, Decide, SetRefund, Commit
      <4>2. pc'[r] \in {"done", "failed"}
        BY <4>1, AnswerMoves, MoveOf
      <4>. QED  BY <4>2 DEF Reserved, Spends, Spending, Allocating, Closing
    <3>2. CASE ReadReceipt(r) /\ ~Rollback(r)
      BY <3>2, ReservedWhenRead
    <3>3. CASE ~Writes(r) /\ ~Rollback(r) /\ ~ReadReceipt(r)
      <4>1. Spends(r)' => Spends(r) /\ tx'[r].allocated = tx[r].allocated
        BY <1>2, <3>3, SpendingSteps
      <4>. QED  BY <1>2, <2>2, <4>1, ReservedKept
    <3>. QED  BY <3>1, <3>2, <3>3
  <2>5. AllocatedWithinReceipt'
    <3>1. CASE Commit(r)
      <4>1. \A rc \in ReceiptIds : Applied(RowsOf(allocations, rc))' <= Amount[rc]
        BY <3>1, RowsAfterCommit
      <4>. QED  BY <4>1 DEF AllocatedWithinReceipt
    <3>2. CASE ~Commit(r)
      <4>1. allocations' = allocations
        BY <1>2, <3>2, OthersStay DEF Writes, money, InsertRefund, Decide, SetRefund
      <4>. QED  BY <4>1 DEF WithinInv, AllocatedWithinReceipt
    <3>. QED  BY <3>1, <3>2
  <2>. QED  BY <2>3, <2>4, <2>5 DEF WithinInv
<1>. QED  BY <1>1, <1>2 DEF Next, Quiescent

LEMMA InitWithinInv ==
  ASSUME Init, OpeningFits
  PROVE  WithinInv
<1>1. \A r \in Requests : pc[r] \notin Spending
  BY DEF Init, Spending, Allocating, Closing
<1>2. AllocatedWithinReceipt
  BY DEF Init, OpeningFits, AllocatedWithinReceipt
<1>. QED  BY <1>1, <1>2 DEF WithinInv, Reserved, Spends

(* A receipt is never allocated beyond its amount, however requests        *)
(* overlap, where any two bodies of one receipt have an invoice in common  *)
(* and no part repeats: allocateWithinTransaction checks the amount only   *)
(* when it reads the receipt, and the unique reference of the entries      *)
(* keeps all but one of those that passed the check from committing.       *)
THEOREM ReceiptIsNotOverspent ==
  ASSUME OpeningFits, PartsDiffer, RivalsMeet
  PROVE  Spec => []AllocatedWithinReceipt
<1>1. Init => TypeInv /\ AloneInv /\ WithinInv
  BY InitTypeInv, InitAloneInv, InitWithinInv
<1>2. TypeInv /\ AloneInv /\ WithinInv /\ [Next]_vars => (TypeInv /\ AloneInv /\ WithinInv)'
  BY NextTypeInv, NextAloneInv, NextWithinInv
<1>3. WithinInv => AllocatedWithinReceipt
  BY DEF WithinInv
<1>. QED  BY <1>1, <1>2, <1>3, PTL DEF Spec

-------------------------------------------------------------------------------
(***************************************************************************)
(* Deposits.  What a receipt has left is stored twice: in its row and in   *)
(* account 2300.  An allocation stores what was left when it read the      *)
(* receipt less its parts, a payment subtracts, and both post.             *)
(***************************************************************************)
SpentOneWay ==
  \A w \in Workloads : \A q, r \in Requests : w[r].kind = "PAY" =>
    /\ w[q].kind = "ALLOCATE" => w[q].receipt # w[r].receipt
    /\ w[q].kind = "PAY" /\ w[q].refund = w[r].refund => q = r

Refunded(rc) == \E r \in Requests : input[r].kind = "PAY" /\ input[r].receipt = rc
Deducting == {"deduct", "payRefund", "commit"}

Credited(S) == SumFunction([e \in S |-> DepositLine(e)])

(* What a transaction is about to credit to account 2300. *)
DepositsDue(r) ==
  IF input[r].kind = "ALLOCATE" THEN -Cleared(tx[r].draft)
  ELSE IF input[r].kind = "CREATE" /\ pc[r] = "commit" THEN Amount[input[r].receipt]
  ELSE IF input[r].kind = "PAY" /\ pc[r] \in Deducting THEN -RefundAmount[input[r].refund]
  ELSE 0

LinesAreDue(r) ==
  /\ Credited(tx[r].draft) = DepositsDue(r)
  /\ input[r].kind = "PAY" /\ pc[r] \notin Deducting => tx[r].draft = {}

(* What a transaction has read of its receipt is still so, unless another  *)
(* allocation of the receipt has committed: then this one will not.        *)
Known(r) ==
  LET rc == input[r].receipt IN
  /\ Spends(r) => /\ Exists(rc)
                  /\ RowsOf(allocations, rc) = Earlier(rc) =>
                       tx[r].allocated = Applied(RowsOf(allocations, rc)) + Total(input[r])
  /\ input[r].kind = "CREATE" => /\ tx[r].allocated = 0
                                 /\ pc[r] \notin Ends => ~Exists(rc)
  /\ input[r].kind = "PAY" /\ pc[r] \in Paying => Exists(rc)

ReceiptCreatedOnce ==
  \A q, r \in Requests :
    /\ input[q].kind = "CREATE" /\ pc[q] # "idle"
    /\ input[r].kind = "CREATE" /\ pc[r] # "idle"
    /\ input[q].receipt = input[r].receipt
    => q = r

RefundsAreOfDone ==
  \A e \in journals : e.type = "REFUND" =>
    \E q \in Requests : input[q].kind = "PAY" /\ pc[q] = "done" /\ e = RefundEntry(input[q].refund)

Balanced(rc) ==
  /\ unallocated[rc] = deposits[rc]
  /\ ~Exists(rc) => deposits[rc] = 0 /\ RowsOf(allocations, rc) = {}
  /\ Exists(rc) /\ ~Refunded(rc) => deposits[rc] = Amount[rc] - Applied(RowsOf(allocations, rc))

DepositsInv ==
  /\ \A r \in Requests : LinesAreDue(r) /\ Known(r)
  /\ ReceiptCreatedOnce /\ RefundsAreOfDone
  /\ \A rc \in ReceiptIds : Balanced(rc)

LEMMA CreditedAdd ==
  ASSUME NEW S, IsFiniteSet(S), S \subseteq EntryType, NEW e, e \notin S, DepositLine(e) \in Int
  PROVE  Credited(S \union {e}) = Credited(S) + DepositLine(e)
<1>. DEFINE f == [d \in S |-> DepositLine(d)]
            h == [d \in S \union {e} |-> DepositLine(d)]
<1>1. \A d \in S \union {e} : h[d] \in Int
  BY EntriesType
<1>2. (\A d \in S : h[d] = f[d]) /\ h[e] = DepositLine(e)
  OBVIOUS
<1>3. DOMAIN f = S /\ DOMAIN h = S \union {e}
  OBVIOUS
<1>. HIDE DEF f, h
<1>4. SumFunctionOnSet(h, S \union {e}) = SumFunctionOnSet(h, S) + h[e]
  BY <1>1, SumAdd
<1>5. SumFunctionOnSet(h, S) = SumFunctionOnSet(f, S)
  BY <1>2, SumCongruence
<1>6. SumFunction(h) = SumFunction(f) + DepositLine(e)
  BY <1>2, <1>3, <1>4, <1>5 DEF SumFunction
<1>. QED  BY <1>6 DEF Credited, f, h

LEMMA CreditedType ==
  /\ Credited({}) = 0
  /\ TypeInv => \A r \in Requests : Credited(tx[r].draft) \in Int
<1>1. Credited({}) = 0
  <2>. DEFINE g == [d \in {} |-> DepositLine(d)]
  <2>1. DOMAIN g = {}
    OBVIOUS
  <2>. HIDE DEF g
  <2>2. SumFunction(g) = 0
    BY <2>1, SumEmpty DEF SumFunction
  <2>. QED  BY <2>2 DEF Credited, g
<1>2. TypeInv => \A r \in Requests : Credited(tx[r].draft) \in Int
  BY LinesAreInt DEF Credited
<1>. QED  BY <1>1, <1>2

(* A payment posts its refund and then deducts it. *)
LEMMA PayMoves ==
  ASSUME TypeInv, NEW r \in Requests, Submit(r) \/ Step(r) \/ Abort(r), ~Writes(r), ~Rollback(r),
         input[r].kind = "PAY"
  PROVE  /\ \/ pc[r] \notin Deducting /\ pc'[r] \notin Deducting /\ tx'[r] = tx[r]
            \/ /\ pc[r] = "checkPosting" /\ RefundEntry(input[r].refund) \in Entries(r)
               /\ tx'[r] = tx[r]
            \/ Drafts(r, RefundEntry(input[r].refund)) /\ pc[r] = "postRefund"
            \/ pc[r] \in Deducting /\ pc'[r] \in Deducting /\ tx'[r] = tx[r]
         /\ pc'[r] \in Paying => pc[r] \in Paying \/ ReadApproved(r)
<1>1. /\ pc[r] \in Ends \union {"readApproved", "refundDeposits", "checkPosting", "refundBank",
                                "postRefund", "deduct", "payRefund", "commit"}
      /\ pc \in [Requests -> Pcs] /\ tx \in [Requests -> TxType] /\ tx[r] \in TxType
  BY AtStep DEF OnPath, PathOf, TypeInv, StateOK, TypeOK, Pcs
<1>2. \/ Submit(r) \/ ReadApproved(r) \/ EnsureSystemAccount(r) \/ CheckPosting(r) \/ PostRefund(r)
      \/ UpdateReceipt(r) \/ PayRefund(r)
  BY PayActions DEF Writes, Abort
<1>3. CASE Submit(r)
  <2>1. pc[r] = "idle" /\ pc'[r] = "readApproved" /\ tx' = tx
    BY <1>1, <1>3 DEF Submit, Goto, FirstStep
  <2>. QED  BY <2>1 DEF Deducting, Paying
<1>4. CASE ReadApproved(r)
  <2>1. Passes(r, "refundDeposits", tx[r]) /\ pc[r] = "readApproved"
    BY <1>4 DEF ReadApproved, Read, Passes
  <2>. QED  BY <1>4, <2>1, PassOf DEF Deducting
<1>5. CASE EnsureSystemAccount(r)
  <2>1. pc'[r] = AccountCall[pc[r]][2] /\ pc[r] \in DOMAIN AccountCall /\ tx' = tx
    BY <1>5, EnsureOf
  <2>2. pc[r] \in {"refundDeposits", "refundBank"} /\ pc'[r] \in {"checkPosting", "postRefund"}
    BY <1>1, <2>1 DEF AccountCall, Ends
  <2>. QED  BY <2>1, <2>2 DEF Deducting, Paying
<1>6. CASE CheckPosting(r)
  <2>1. /\ pc[r] = "checkPosting"
        /\ \/ RefundEntry(input[r].refund) \in Entries(r) /\ Passes(r, "deduct", tx[r])
           \/ Passes(r, "refundBank", tx[r])
    BY <1>6 DEF CheckPosting, Read, Passes
  <2>. QED  BY <2>1, PassOf DEF Deducting, Paying
<1>7. CASE PostRefund(r)
  <2>. DEFINE e == RefundEntry(input[r].refund)
              wrote == [tx[r] EXCEPT !.draft = @ \union {e}]
  <2>1. /\ Passes(r, "deduct", wrote) /\ \A d \in journals \union tx[r].draft : ~SameReference(d, e)
        /\ pc[r] = "postRefund"
    BY <1>7, PostOf DEF PostRefund
  <2>2. wrote.draft = tx[r].draft \union {e}
    BY <1>1 DEF TxType
  <2>. HIDE DEF wrote
  <2>3. Drafts(r, e)
    BY <2>1, <2>2, PassOf DEF Drafts
  <2>. QED  BY <2>1, <2>3 DEF Paying
<1>8. CASE UpdateReceipt(r) \/ PayRefund(r)
  <2>1. \/ pc[r] = "deduct" /\ Goto(r, "payRefund")
        \/ pc[r] = "payRefund" /\ Goto(r, "commit")
    BY <1>1, <1>8 DEF UpdateReceipt, PayRefund, Update, Ends
  <2>2. tx' = tx
    BY <1>8 DEF UpdateReceipt, PayRefund, Update
  <2>. QED  BY <1>1, <2>1, <2>2 DEF Goto, Deducting, Paying
<1>. QED  BY <1>2, <1>3, <1>4, <1>5, <1>6, <1>7, <1>8

(* A creation without parts posts the receipt and commits. *)
LEMMA CreateMoves ==
  ASSUME TypeInv, NEW r \in Requests, Submit(r) \/ Step(r) \/ Abort(r), ~Writes(r), ~Rollback(r),
         input[r].kind = "CREATE", input[r].parts = <<>>
  PROVE  \/ pc[r] # "commit" /\ pc'[r] # "commit" /\ tx'[r].draft = tx[r].draft
         \/ /\ pc[r] # "commit" /\ pc'[r] = "commit"
            /\ Drafts(r, ReceiptEntry(input[r].receipt, 0))
<1>1. /\ tx[r].n = 0 /\ tx[r] \in TxType /\ pc \in [Requests -> Pcs]
      /\ pc[r] \in Ends \union {"number", "insertReceipt", "closeReceipt", "receiptBank",
                                "receiptReceivable", "receiptDeposits", "postReceipt", "commit"}
  <2>1. Len(input[r].parts) = 0
    OBVIOUS
  <2>2. /\ tx[r].n <= 0 /\ tx[r] \in TxType /\ pc[r] \in PathOf["CREATE"]
        /\ pc[r] \notin {"readReceipt", "readInvoices"}
        /\ pc[r] # "readDeposit" /\ pc[r] \notin Inserted
        /\ pc \in [Requests -> Pcs]
    BY <2>1, AtStep DEF OnPath, TypeInv, StateOK, TypeOK, Pcs, TxType
  <2>. QED  BY <2>2 DEF PathOf, Allocating, Inserted, TxType
<1>2. OwnRows(r) = {}
  BY <1>1, OwnRowsOf
<1>3. \/ Submit(r) \/ NextNumber(r) \/ InsertReceipt(r) \/ EnsureSystemAccount(r)
      \/ UpdateReceipt(r) \/ PostReceipt(r)
  <2>1. ~ (\/ ReadReceipt(r) \/ ReadInvoices(r) \/ ReadDeposit(r) \/ PostAllocation(r) \/ Recompute(r)
           \/ WriteInvoice(r) \/ ReadReversed(r) \/ ListRows(r) \/ DeleteRows(r)
           \/ ReverseAllocation(r))
    BY <1>1 DEF Ends, ReadReceipt, ReadInvoices, ReadDeposit, PostAllocation, Recompute,
       WriteInvoice, ReadReversed, ListRows, DeleteRows, ReverseAllocation
  <2>2. ~ (\/ ReverseReceipt(r) \/ MarkReversed(r) \/ ReadRefundable(r) \/ ReadPending(r)
           \/ ReadApproved(r) \/ CheckPosting(r) \/ PostRefund(r) \/ PayRefund(r))
    BY <1>1 DEF Ends, ReverseReceipt, MarkReversed, ReadRefundable, ReadPending, ReadApproved,
       CheckPosting, PostRefund, PayRefund
  <2>. QED  BY <2>1, <2>2 DEF Step, Abort, Writes
<1>4. CASE Submit(r)
  <2>1. pc[r] = "idle" /\ pc'[r] = "number" /\ tx' = tx
    BY <1>1, <1>4 DEF Submit, Goto, FirstStep
  <2>. QED  BY <2>1
<1>5. CASE NextNumber(r)
  <2>. DEFINE seen == [tx[r] EXCEPT !.number = 1 + Max({receiptNumber[rc] : rc \in ReceiptIds})]
  <2>1. Passes(r, "insertReceipt", seen) /\ pc[r] = "number"
    BY <1>5 DEF NextNumber, Read, Passes
  <2>2. seen.draft = tx[r].draft
    BY <1>1 DEF TxType
  <2>. HIDE DEF seen
  <2>. QED  BY <2>1, <2>2, PassOf
<1>6. CASE InsertReceipt(r)
  <2>1. Passes(r, "receiptBank", tx[r]) /\ pc[r] = "insertReceipt"
    BY <1>6 DEF InsertReceipt, Read, Passes
  <2>. QED  BY <2>1, PassOf
<1>7. CASE EnsureSystemAccount(r)
  <2>1. pc'[r] = AccountCall[pc[r]][2] /\ pc[r] \in DOMAIN AccountCall /\ tx' = tx
    BY <1>7, EnsureOf
  <2>. QED  BY <2>1 DEF AccountCall
<1>8. CASE UpdateReceipt(r)
  <2>1. pc[r] = "closeReceipt" /\ Goto(r, "receiptBank") /\ tx' = tx
    BY <1>1, <1>8 DEF UpdateReceipt, Update, Ends
  <2>. QED  BY <1>1, <2>1 DEF Goto
<1>9. CASE PostReceipt(r)
  <2>. DEFINE e == ReceiptEntry(input[r].receipt, 0)
              wrote == [tx[r] EXCEPT !.draft = @ \union {e}]
  <2>1. Post(r, e, "commit", tx[r]) /\ pc[r] = "postReceipt"
    BY <1>2, <1>9, NothingApplied DEF PostReceipt
  <2>2. Passes(r, "commit", wrote) /\ \A d \in journals \union tx[r].draft : ~SameReference(d, e)
    BY <2>1, PostOf
  <2>3. wrote.draft = tx[r].draft \union {e}
    BY <1>1 DEF TxType
  <2>4. e = ReceiptEntry(input[r].receipt, Applied(OwnRows(r)))
    BY <1>2, NothingApplied
  <2>. HIDE DEF wrote, e
  <2>5. Drafts(r, e) /\ pc'[r] = "commit"
    BY <2>1, <2>2, <2>3, <2>4, PassOf DEF Drafts
  <2>. QED  BY <2>1, <2>5 DEF e
<1>. QED  BY <1>3, <1>4, <1>5, <1>6, <1>7, <1>8, <1>9

LEMMA DueAfterEnd ==
  ASSUME NEW r \in Requests, tx'[r] = Fresh, pc'[r] \in {"done", "failed"}
  PROVE  LinesAreDue(r)'
<1>1. tx'[r].draft = {}
  BY DEF Fresh
<1>2. Credited({}) = 0 /\ Cleared({}) = 0
  BY CreditedType, ClearedType
<1>3. DepositsDue(r)' = 0
  BY <1>1, <1>2 DEF DepositsDue, Deducting
<1>. QED  BY <1>1, <1>2, <1>3 DEF LinesAreDue

LEMMA CreditedByDraft ==
  ASSUME TypeInv, NEW r \in Requests, NEW e, Drafts(r, e), DepositLine(e) \in Int
  PROVE  Credited(tx'[r].draft) = Credited(tx[r].draft) + DepositLine(e)
<1>1. tx'[r].draft = tx[r].draft \union {e} /\ e \notin tx[r].draft
  BY DEF Drafts, SameReference
<1>2. IsFiniteSet(tx[r].draft) /\ tx[r].draft \subseteq EntryType
  BY AtStep DEF TxType
<1>3. Credited(tx[r].draft \union {e}) = Credited(tx[r].draft) + DepositLine(e)
  BY <1>1, <1>2, CreditedAdd
<1>. QED  BY <1>1, <1>3

LEMMA DueAfterStep ==
  ASSUME TypeInv, NoReversals, CreatedUnallocated, SpentOneWay, RefundsAreOfDone,
         NEW r \in Requests, Submit(r) \/ Step(r) \/ Abort(r), ~Writes(r), ~Rollback(r),
         input' = input, LinesAreDue(r)
  PROVE  LinesAreDue(r)'
<1>1. input[r].kind \in Kinds \ {"REVERSE"} /\ Credited(tx[r].draft) \in Int
  BY NothingGone, AtStep, CreditedType
<1>2. CASE input[r].kind = "PAY"
  <2>. DEFINE f == input[r].refund
  <2>1. f \in Refunds /\ RefundAmount[f] \in Nat
    BY <1>2, RefundType, ConstantsAssumption
  <2>2. CASE /\ \/ pc[r] \notin Deducting /\ pc'[r] \notin Deducting
                \/ pc[r] \in Deducting /\ pc'[r] \in Deducting
             /\ tx'[r] = tx[r]
    BY <1>2, <2>2 DEF LinesAreDue, DepositsDue
  <2>3. CASE pc[r] = "checkPosting" /\ RefundEntry(f) \in Entries(r)
    <3>1. RefundEntry(f) \notin tx[r].draft
      BY <1>2, <2>3 DEF LinesAreDue, Deducting
    <3>2. RefundEntry(f) \in journals /\ RefundEntry(f).type = "REFUND"
      BY <2>3, <3>1 DEF Entries, RefundEntry
    <3>3. PICK q \in Requests : /\ input[q].kind = "PAY" /\ pc[q] = "done"
                                /\ RefundEntry(f) = RefundEntry(input[q].refund)
      BY <3>2 DEF RefundsAreOfDone
    <3>4. input[q].refund = f
      BY <3>3 DEF RefundEntry
    <3>5. q = r
      BY <1>2, <3>3, <3>4 DEF SpentOneWay, TypeInv, StateOK
    <3>. QED  BY <2>3, <3>3, <3>5
  <2>4. CASE Drafts(r, RefundEntry(f)) /\ pc[r] = "postRefund"
    <3>1. pc'[r] = "deduct"
      BY <2>4 DEF Drafts
    <3>2. DepositLine(RefundEntry(f)) = -RefundAmount[f]
      BY DEF RefundEntry, DepositLine
    <3>3. Credited(tx'[r].draft) = Credited(tx[r].draft) + (-RefundAmount[f])
      <4>. DEFINE e == RefundEntry(f)
      <4>1. DepositLine(e) \in Int /\ Drafts(r, e)
        BY <2>1, <2>4, <3>2
      <4>. HIDE DEF e
      <4>2. Credited(tx'[r].draft) = Credited(tx[r].draft) + DepositLine(e)
        BY <4>1, CreditedByDraft
      <4>. QED  BY <3>2, <4>2 DEF e
    <3>4. Credited(tx[r].draft) = 0
      BY <1>2, <2>4 DEF LinesAreDue, DepositsDue, Deducting
    <3>5. Credited(tx'[r].draft) = -RefundAmount[f]
      BY <2>1, <3>3, <3>4
    <3>6. pc'[r] \in Deducting
      BY <3>1 DEF Deducting
    <3>. QED  BY <1>2, <3>5, <3>6 DEF LinesAreDue, DepositsDue
  <2>. QED  BY <1>2, <2>2, <2>3, <2>4, PayMoves
<1>3. CASE input[r].kind = "CREATE"
  <2>1. input[r].parts = <<>>
    BY <1>3 DEF CreatedUnallocated, TypeInv, StateOK
  <2>2. CASE pc[r] # "commit" /\ pc'[r] # "commit" /\ tx'[r].draft = tx[r].draft
    BY <1>3, <2>2 DEF LinesAreDue, DepositsDue
  <2>3. CASE pc[r] # "commit" /\ pc'[r] = "commit" /\ Drafts(r, ReceiptEntry(input[r].receipt, 0))
    <3>1. Amount[input[r].receipt] \in Nat
      BY BodyType, ConstantsAssumption DEF InputType, TypeInv, StateOK
    <3>2. DepositLine(ReceiptEntry(input[r].receipt, 0)) = Amount[input[r].receipt]
      BY <3>1 DEF ReceiptEntry, DepositLine
    <3>3. Credited(tx'[r].draft) = Credited(tx[r].draft) + Amount[input[r].receipt]
      <4>. DEFINE e == ReceiptEntry(input[r].receipt, 0)
      <4>1. DepositLine(e) \in Int /\ Drafts(r, e)
        BY <2>3, <3>1, <3>2
      <4>. HIDE DEF e
      <4>2. Credited(tx'[r].draft) = Credited(tx[r].draft) + DepositLine(e)
        BY <4>1, CreditedByDraft
      <4>. QED  BY <3>2, <4>2 DEF e
    <3>4. Credited(tx[r].draft) = 0
      BY <1>3, <2>3 DEF LinesAreDue, DepositsDue
    <3>5. Credited(tx'[r].draft) = Amount[input[r].receipt]
      BY <3>1, <3>3, <3>4
    <3>. QED  BY <1>3, <2>3, <3>5 DEF LinesAreDue, DepositsDue
  <2>. QED  BY <1>3, <2>1, <2>2, <2>3, CreateMoves
<1>4. CASE input[r].kind \notin {"PAY", "CREATE"}
  <2>1. CASE tx'[r].draft = tx[r].draft
    BY <1>4, <2>1 DEF LinesAreDue, DepositsDue
  <2>2. ASSUME NEW e, Drafts(r, e) PROVE LinesAreDue(r)'
    <3>1. pc[r] \in PathOf[input[r].kind]
      BY AtStep DEF OnPath
    <3>2. pc[r] = "postAllocation" /\ input[r].kind = "ALLOCATE" /\ e = PartEntry(input[r], tx[r].n)
      BY <1>1, <1>4, <2>2, <3>1 DEF Drafts, PathOf, Kinds, Ends, Allocating
    <3>3. tx[r].n \in 1..Len(input[r].parts)
      BY <3>2, AtStep DEF OnPath, Inserted, TxType
    <3>4. PICK a \in Nat : a = input[r].parts[tx[r].n].amount
      BY <3>3, PartType DEF TypeInv, StateOK
    <3>5. DepositLine(e) = -a /\ ReceivableLine(e) = a
      BY <3>2, <3>4 DEF PartEntry, AllocationEntry, DepositLine, ReceivableLine
    <3>6. Credited(tx'[r].draft) = Credited(tx[r].draft) + DepositLine(e)
      BY <2>2, <3>4, <3>5, CreditedByDraft
    <3>7. Cleared(tx'[r].draft) = Cleared(tx[r].draft) + a
      <4>1. tx'[r].draft = tx[r].draft \union {e} /\ e \notin tx[r].draft
        BY <2>2 DEF Drafts, SameReference
      <4>2. IsFiniteSet(tx[r].draft) /\ tx[r].draft \subseteq EntryType
        BY AtStep DEF TxType
      <4>3. Cleared(tx[r].draft \union {e}) = Cleared(tx[r].draft) + ReceivableLine(e)
        BY <3>4, <3>5, <4>1, <4>2, ClearedAdd
      <4>. QED  BY <3>5, <4>1, <4>3
    <3>8. Credited(tx[r].draft) = -Cleared(tx[r].draft)
      BY <3>2 DEF LinesAreDue, DepositsDue
    <3>9. Credited(tx'[r].draft) = -Cleared(tx'[r].draft)
      <4>1. Cleared(tx[r].draft) \in Int
        BY ClearedType
      <4>. QED  BY <3>4, <3>5, <3>6, <3>7, <3>8, <4>1
    <3>. QED  BY <3>2, <3>9 DEF LinesAreDue, DepositsDue
  <2>3. CASE pc'[r] = "failed" /\ tx'[r] = Fresh
    BY <2>3, DueAfterEnd
  <2>. QED  BY <2>1, <2>2, <2>3, DraftSteps
<1>. QED  BY <1>2, <1>3, <1>4

LEMMA IdleSubmits ==
  ASSUME NEW r \in Requests, Submit(r) \/ Step(r) \/ Abort(r), pc[r] = "idle"
  PROVE  Submit(r)
<1>1. ~Abort(r)
  BY DEF Abort, InTx, Autocommit
<1>2. ~ (\/ NextNumber(r) \/ InsertReceipt(r) \/ ReadReceipt(r) \/ ReadInvoices(r) \/ ReadDeposit(r)
         \/ EnsureSystemAccount(r) \/ PostAllocation(r) \/ Recompute(r) \/ WriteInvoice(r)
         \/ UpdateReceipt(r) \/ PostReceipt(r) \/ ReadReversed(r) \/ ListRows(r))
  BY DEF NextNumber, InsertReceipt, ReadReceipt, ReadInvoices, ReadDeposit, EnsureSystemAccount,
     AccountCall, PostAllocation, Recompute, WriteInvoice, UpdateReceipt, PostReceipt, ReadReversed,
     ListRows
<1>3. ~ (\/ DeleteRows(r) \/ ReverseAllocation(r) \/ ReverseReceipt(r) \/ MarkReversed(r)
         \/ ReadRefundable(r) \/ InsertRefund(r) \/ ReadPending(r) \/ Decide(r) \/ ReadApproved(r)
         \/ CheckPosting(r) \/ PostRefund(r) \/ PayRefund(r) \/ Commit(r))
  BY DEF DeleteRows, ReverseAllocation, ReverseReceipt, MarkReversed, ReadRefundable,
     InsertRefund, ReadPending, Decide, ReadApproved, CheckPosting, PostRefund, PayRefund, Commit
<1>. QED  BY <1>1, <1>2, <1>3 DEF Step

(* Reading its receipt tells a request whether it exists. *)
LEMMA KnownAfterRead ==
  ASSUME TypeInv, CreatedUnallocated, NEW r \in Requests, ReadReceipt(r), ~Rollback(r)
  PROVE  Known(r)'
<1>. DEFINE after == Applied(RowsOf(allocations, input[r].receipt)) + Total(input[r])
            seen == [tx[r] EXCEPT !.allocated = after]
<1>1. /\ Passes(r, "readInvoices", seen) /\ pc[r] = "readReceipt"
      /\ input[r].kind = "CREATE" \/ Standing(input[r].receipt)
  BY DEF ReadReceipt, Read, Passes, Total
<1>2. seen.allocated = after
  BY AtStep DEF TxType
<1>3. input[r].kind \notin {"CREATE", "PAY"}
  <2>1. input[r].parts # <<>> /\ pc[r] \in PathOf[input[r].kind]
    BY <1>1, AtStep DEF OnPath
  <2>2. input[r].kind # "CREATE"
    BY <2>1 DEF CreatedUnallocated, TypeInv, StateOK
  <2>. QED  BY <1>1, <2>1, <2>2 DEF PathOf, Ends
<1>. HIDE DEF seen
<1>4. tx'[r] = seen /\ input' = input /\ allocations' = allocations /\ receiptStatus' = receiptStatus
  BY <1>1, PassOf DEF money
<1>5. Exists(input[r].receipt)'
  BY <1>1, <1>3, <1>4 DEF Standing, Exists
<1>6. Applied(RowsOf(allocations, input[r].receipt))' + Total(input[r])' = after
  BY <1>4 DEF RowsOf
<1>. HIDE DEF after
<1>. QED  BY <1>2, <1>3, <1>4, <1>5, <1>6 DEF Known

LEMMA KnownAfterStep ==
  ASSUME TypeInv, NoReversals, CreatedUnallocated, DepositsInv, NEW r \in Requests,
         Submit(r) \/ Step(r) \/ Abort(r), ~Writes(r), ~Rollback(r)
  PROVE  Known(r)'
<1>1. /\ input' = input /\ receiptStatus' = receiptStatus /\ allocations' = allocations
  BY OthersStay DEF money
<1>2. Known(r)
  BY DEF DepositsInv
<1>3. CASE ReadReceipt(r)
  BY <1>3, KnownAfterRead
<1>4. CASE ~ReadReceipt(r)
  <2>1. Spends(r)' => Spends(r) /\ tx'[r].allocated = tx[r].allocated
    BY <1>4, SpendingSteps
  <2>2. Spends(r)' => /\ Exists(input[r].receipt)'
                      /\ (RowsOf(allocations, input[r].receipt) = Earlier(input[r].receipt))' =>
                           tx'[r].allocated = Applied(RowsOf(allocations, input[r].receipt))' + Total(input[r])'
    BY <1>1, <1>2, <2>1 DEF Known, Exists, RowsOf, Earlier
  <2>3. ASSUME input[r].kind = "CREATE"
        PROVE  /\ tx'[r].allocated = 0
               /\ pc'[r] \notin Ends => ~Exists(input[r].receipt)
    <3>1. tx'[r].allocated = 0
      <4>1. pc[r] # "readReceipt"
        BY <2>3, AtStep DEF CreatedUnallocated, OnPath, TypeInv, StateOK
      <4>2. Inserts(r) \/ Recomputes(r) \/ Keeps(r)
        BY <2>3, AllocationSteps
      <4>3. tx'[r].allocated = tx[r].allocated
        BY <4>1, <4>2, AtStep DEF Inserts, Recomputes, Keeps, TxType
      <4>. QED  BY <1>2, <2>3, <4>3 DEF Known
    <3>2. CASE pc[r] = "idle"
      <4>1. Submit(r)
        BY <3>2, IdleSubmits
      <4>. QED  BY <2>3, <3>1, <4>1 DEF Submit, FreshId
    <3>3. CASE pc[r] # "idle"
      <4>1. pc[r] \notin Ends
        BY <3>3, EndedStays DEF Ends
      <4>. QED  BY <1>2, <2>3, <3>1, <4>1 DEF Known
    <3>. QED  BY <3>2, <3>3
  <2>4. ASSUME input[r].kind = "PAY", pc'[r] \in Paying
        PROVE  Exists(input[r].receipt)
    <3>1. pc[r] \in Paying \/ ReadApproved(r)
      BY <2>4, PayMoves
    <3>2. CASE ReadApproved(r)
      <4>. DEFINE rc == input[r].receipt
      <4>1. RefundAmount[input[r].refund] <= unallocated[rc]
        BY <3>2 DEF ReadApproved, Read
      <4>2. RefundAmount[input[r].refund] \in Nat \ {0} /\ rc \in ReceiptIds
        BY <2>4, RefundType, BodyType, ConstantsAssumption DEF InputType, TypeInv, StateOK
      <4>3. ~Exists(rc) => unallocated[rc] = 0
        BY <4>2 DEF DepositsInv, Balanced
      <4>. HIDE DEF rc
      <4>4. Exists(rc)
        BY <4>1, <4>2, <4>3
      <4>. QED  BY <4>4 DEF rc
    <3>. QED  BY <1>2, <2>4, <3>1, <3>2 DEF Known
  <2>5. Exists(input[r].receipt)' <=> Exists(input[r].receipt)
    BY <1>1 DEF Exists
  <2>. QED  BY <1>1, <2>2, <2>3, <2>4, <2>5 DEF Known
<1>. QED  BY <1>3, <1>4

LEMMA KnownAfterEnd ==
  ASSUME TypeInv, NEW r \in Requests, tx'[r] = Fresh, pc'[r] \in {"done", "failed"}
  PROVE  Known(r)'
<1>1. tx'[r].allocated = 0
  BY DEF Fresh
<1>2. pc'[r] \in Ends /\ pc'[r] \notin Spending \union Paying
  BY DEF Ends, Spending, Allocating, Closing, Paying
<1>. QED  BY <1>1, <1>2 DEF Known, Spends

LEMMA NextCreatedOnce ==
  ASSUME TypeInv, ReceiptCreatedOnce, NEW r \in Requests, Submit(r) \/ Step(r) \/ Abort(r)
  PROVE  ReceiptCreatedOnce'
<1>1. /\ input' = input
      /\ \A q \in Requests \ {r} : pc'[q] = pc[q]
  BY OthersStay
<1>2. CASE pc[r] # "idle"
  BY <1>1, <1>2 DEF ReceiptCreatedOnce
<1>3. CASE pc[r] = "idle"
  <2>1. Submit(r)
    BY <1>3, IdleSubmits
  <2>2. ASSUME NEW q \in Requests \ {r}, input[q].kind = "CREATE", pc[q] # "idle",
               input[r].kind = "CREATE", input[q].receipt = input[r].receipt
        PROVE  FALSE
    BY <2>1, <2>2 DEF Submit, FreshId
  <2>3. ReceiptCreatedOnce'
    BY <1>1, <2>2 DEF ReceiptCreatedOnce
  <2>. QED  BY <2>3
<1>. QED  BY <1>2, <1>3

-------------------------------------------------------------------------------
(* What a commit writes where no receipt is reversed.                      *)
LEMMA CommitWrites ==
  ASSUME TypeInv, NoReversals, NEW r \in Requests, Commit(r)
  PROVE  LET rc == input[r].receipt IN
         /\ pc[r] = "commit" /\ input[r].kind \in {"CREATE", "ALLOCATE", "PAY"} /\ rc \in ReceiptIds
         /\ allocations' = allocations \union OwnRows(r) /\ journals' = journals \union tx[r].draft
         /\ pc'[r] = "done" /\ tx'[r] = Fresh
         /\ deposits'[rc] = deposits[rc] + Credited(tx[r].draft)
         /\ IF input[r].kind = "PAY"
            THEN /\ receiptStatus'[rc] = receiptStatus[rc]
                 /\ unallocated'[rc] = unallocated[rc] - RefundAmount[input[r].refund]
            ELSE /\ receiptStatus'[rc] = StatusAt(rc, tx[r].allocated)
                 /\ unallocated'[rc] = Amount[rc] - tx[r].allocated
         /\ \A sc \in ReceiptIds \ {rc} : /\ receiptStatus'[sc] = receiptStatus[sc]
                                          /\ unallocated'[sc] = unallocated[sc]
                                          /\ deposits'[sc] = deposits[sc]
<1>. DEFINE rc == input[r].receipt
<1>1. pc[r] = "commit" /\ rc \in ReceiptIds
  BY BodyType DEF Commit, TypeInv, StateOK, InputType
<1>2. input[r].kind \in {"CREATE", "ALLOCATE", "PAY"}
  BY <1>1, NothingGone, AtStep DEF OnPath, PathOf, Kinds, Ends
<1>3. pc'[r] = "done" /\ tx'[r] = Fresh
  <2>1. Answer(r, "done")
    BY DEF Commit
  <2>. QED  BY <2>1, AnswerMoves, MoveOf
<1>4. /\ allocations' = allocations \union OwnRows(r) /\ journals' = journals \union tx[r].draft
      /\ deposits' = [deposits EXCEPT ![rc] = @ + Credited(tx[r].draft)]
  BY NothingGone DEF Commit, PublishJournals, Credited
<1>5. IF input[r].kind = "PAY"
      THEN /\ receiptStatus' = [receiptStatus EXCEPT ![rc] = receiptStatus[rc]]
           /\ unallocated' = [unallocated EXCEPT ![rc] = unallocated[rc] - RefundAmount[input[r].refund]]
      ELSE /\ receiptStatus' = [receiptStatus EXCEPT ![rc] = StatusAt(rc, tx[r].allocated)]
           /\ unallocated' = [unallocated EXCEPT ![rc] = Amount[rc] - tx[r].allocated]
  BY <1>2 DEF Commit, PublishReceipt
<1>6. /\ DOMAIN receiptStatus = ReceiptIds /\ DOMAIN unallocated = ReceiptIds
      /\ DOMAIN deposits = ReceiptIds
  BY DEF TypeInv, StateOK, TypeOK
<1>7. receiptStatus = [sc \in ReceiptIds |-> receiptStatus[sc]] /\ unallocated = [sc \in ReceiptIds |-> unallocated[sc]]
      /\ deposits = [sc \in ReceiptIds |-> deposits[sc]]
  BY DEF TypeInv, StateOK, TypeOK
<1>. HIDE DEF rc
<1>8. deposits'[rc] = deposits[rc] + Credited(tx[r].draft)
      /\ \A sc \in ReceiptIds \ {rc} : deposits'[sc] = deposits[sc]
  BY <1>1, <1>4, <1>6
<1>9. CASE input[r].kind = "PAY"
  <2>1. /\ receiptStatus'[rc] = receiptStatus[rc]
        /\ unallocated'[rc] = unallocated[rc] - RefundAmount[input[r].refund]
        /\ \A sc \in ReceiptIds \ {rc} : receiptStatus'[sc] = receiptStatus[sc] /\ unallocated'[sc] = unallocated[sc]
    BY <1>1, <1>5, <1>6, <1>9
  <2>. QED  BY <1>1, <1>2, <1>3, <1>4, <1>8, <1>9, <2>1 DEF rc
<1>10. CASE input[r].kind # "PAY"
  <2>1. /\ receiptStatus'[rc] = StatusAt(rc, tx[r].allocated)
        /\ unallocated'[rc] = Amount[rc] - tx[r].allocated
        /\ \A sc \in ReceiptIds \ {rc} : receiptStatus'[sc] = receiptStatus[sc] /\ unallocated'[sc] = unallocated[sc]
    BY <1>1, <1>5, <1>6, <1>10
  <2>. QED  BY <1>1, <1>2, <1>3, <1>4, <1>8, <1>10, <2>1 DEF rc
<1>. QED  BY <1>9, <1>10

(* Only an allocation of parts commits rows. *)
LEMMA CommittedRows ==
  ASSUME TypeInv, CreatedUnallocated, NEW r \in Requests, pc[r] = "commit",
         input[r].kind \in {"CREATE", "ALLOCATE", "PAY"}
  PROVE  /\ input[r].kind = "ALLOCATE" => Spends(r) /\ tx[r].n = Len(input[r].parts)
         /\ input[r].kind # "ALLOCATE" => OwnRows(r) = {}
<1>1. CASE input[r].kind = "ALLOCATE"
  <2>1. input[r].parts # <<>>
    BY <1>1, BodyType DEF WellFormed, TypeInv, StateOK
  <2>2. pc[r] \in Spending /\ Allocates(input[r])
    BY <1>1 DEF Spending, Closing, Allocates
  <2>3. tx[r].n = Len(input[r].parts)
    BY <1>1, AtStep DEF OnPath, Closing
  <2>. QED  BY <1>1, <2>1, <2>2, <2>3 DEF Spends
<1>2. CASE input[r].kind = "CREATE"
  <2>1. input[r].parts = <<>>
    BY <1>2 DEF CreatedUnallocated, TypeInv, StateOK
  <2>2. tx[r].n = 0
    BY <1>2, <2>1, AtStep DEF OnPath, Closing
  <2>. QED  BY <1>2, <2>2, OwnRowsOf
<1>3. CASE input[r].kind = "PAY"
  <2>1. tx[r].n = 0
    BY <1>3, AtStep DEF OnPath
  <2>. QED  BY <1>3, <2>1, OwnRowsOf
<1>. QED  BY <1>1, <1>2, <1>3

(* The rows of a receipt after a commit of that receipt or of another. *)
LEMMA ReceiptRowsAfter ==
  ASSUME TypeInv, RowsAreOfDone, NoReversals, NEW r \in Requests, Commit(r), NEW rc \in ReceiptIds
  PROVE  /\ rc # input[r].receipt \/ OwnRows(r) = {} => RowsOf(allocations, rc)' = RowsOf(allocations, rc)
         /\ rc = input[r].receipt =>
              Applied(RowsOf(allocations, rc))' = Applied(RowsOf(allocations, rc)) + Applied(OwnRows(r))
<1>1. allocations' = allocations \union OwnRows(r) /\ pc[r] = "commit"
  BY CommitWrites
<1>2. /\ allocations \intersect OwnRows(r) = {}
      /\ RowsOf(allocations \union OwnRows(r), rc) =
           IF rc = input[r].receipt THEN RowsOf(allocations, rc) \union OwnRows(r) ELSE RowsOf(allocations, rc)
  BY <1>1, RowsOwned
<1>3. RowsOf(allocations, rc)' = RowsOf(allocations \union OwnRows(r), rc)
  BY <1>1 DEF RowsOf
<1>4. ASSUME rc = input[r].receipt
      PROVE  Applied(RowsOf(allocations, rc))' = Applied(RowsOf(allocations, rc)) + Applied(OwnRows(r))
  <2>1. IsFiniteSet(RowsOf(allocations, rc)) /\ RowsOf(allocations, rc) \subseteq RowType
    BY RowsOfType DEF TypeInv, StateOK
  <2>2. /\ RowsOf(allocations, rc) \intersect OwnRows(r) = {} /\ IsFiniteSet(OwnRows(r))
        /\ \A a \in RowsOf(allocations, rc) \union OwnRows(r) : a.amount \in Nat
    BY <1>2, <2>1, OwnAmounts DEF RowsOf, RowType
  <2>3. Applied(RowsOf(allocations, rc) \union OwnRows(r)) = Applied(RowsOf(allocations, rc)) + Applied(OwnRows(r))
    BY <2>1, <2>2, AppliedUnion
  <2>4. Applied(RowsOf(allocations, rc))' = Applied(RowsOf(allocations, rc) \union OwnRows(r))
    BY <1>2, <1>3, <1>4
  <2>. QED  BY <2>3, <2>4
<1>. QED  BY <1>2, <1>3, <1>4

LEMMA BalancedAfterCommit ==
  ASSUME TypeInv, NoReversals, CreatedUnallocated, SpentOneWay, RivalsMeet, AloneInv, ReceivableInv,
         DepositsInv, NEW r \in Requests, Commit(r), NEW rc \in ReceiptIds
  PROVE  Balanced(rc)'
<1>1. /\ pc[r] = "commit" /\ input[r].kind \in {"CREATE", "ALLOCATE", "PAY"}
      /\ input' = input
  BY CommitWrites, OthersStay DEF Step
<1>2. Refunded(rc)' <=> Refunded(rc)
  BY <1>1 DEF Refunded
<1>3. Balanced(rc) /\ RowsAreOfDone /\ LinesAreDue(r) /\ Known(r)
  BY DEF DepositsInv, ReceivableInv
<1>4. CASE rc # input[r].receipt
  <2>1. RowsOf(allocations, rc)' = RowsOf(allocations, rc)
    BY <1>3, <1>4, ReceiptRowsAfter
  <2>2. /\ receiptStatus'[rc] = receiptStatus[rc] /\ unallocated'[rc] = unallocated[rc]
        /\ deposits'[rc] = deposits[rc]
    BY <1>4, CommitWrites
  <2>. QED  BY <1>2, <1>3, <2>1, <2>2 DEF Balanced, Exists
<1>5. CASE rc = input[r].receipt
  <2>. DEFINE left == Applied(RowsOf(allocations, rc))
              own == Applied(OwnRows(r))
  <2>1. /\ left \in Nat /\ own \in Nat /\ deposits[rc] \in Int /\ unallocated[rc] \in Int
        /\ Amount[rc] \in Nat /\ Amount[rc] # 0
    BY RowsOfType, OwnAmounts, ConstantsAssumption DEF TypeInv, StateOK, TypeOK
  <2>2. Applied(RowsOf(allocations, rc))' = left + own
    BY <1>3, <1>5, ReceiptRowsAfter
  <2>3. deposits'[rc] = deposits[rc] + DepositsDue(r)
    BY <1>3, <1>5, CommitWrites DEF LinesAreDue
  <2>4. CASE input[r].kind = "ALLOCATE"
    <3>1. Spends(r) /\ tx[r].n = Len(input[r].parts)
      BY <1>1, <2>4, CommittedRows
    <3>2. own = Total(input[r])
      BY <3>1, OwnTotal
    <3>3. Exists(rc) /\ tx[r].allocated = left + own
      BY <1>1, <1>3, <1>5, <3>1, <3>2, CommitsAlone DEF Known
    <3>4. DepositsDue(r) = -own
      <4>1. own = Cleared(tx[r].draft) + 0
        BY <1>1 DEF ReceivableInv, LinesAreRows, Posting
      <4>2. Cleared(tx[r].draft) \in Int
        BY ClearedType
      <4>3. DepositsDue(r) = -Cleared(tx[r].draft)
        BY <2>4 DEF DepositsDue
      <4>. HIDE DEF own
      <4>. QED  BY <2>1, <4>1, <4>2, <4>3
    <3>5. ~Refunded(rc)
      BY <1>5, <2>4 DEF Refunded, SpentOneWay, TypeInv, StateOK
    <3>6. deposits[rc] = Amount[rc] - left
      BY <1>3, <3>3, <3>5 DEF Balanced
    <3>7. receiptStatus'[rc] = StatusAt(rc, tx[r].allocated) /\ unallocated'[rc] = Amount[rc] - tx[r].allocated
      BY <1>5, <2>4, CommitWrites
    <3>8. Exists(rc)'
      <4>. HIDE DEF left, own
      <4>. QED  BY <2>1, <3>3, <3>7 DEF StatusAt, Exists
    <3>9. unallocated'[rc] = deposits'[rc] /\ deposits'[rc] = Amount[rc] - (left + own)
      <4>. HIDE DEF left, own
      <4>. QED  BY <2>1, <2>3, <3>3, <3>4, <3>6, <3>7
    <3>. HIDE DEF left, own
    <3>. QED  BY <2>2, <3>8, <3>9 DEF Balanced
  <2>5. CASE input[r].kind = "CREATE"
    <3>1. own = 0
      BY <1>1, <2>5, CommittedRows, NothingApplied
    <3>2. tx[r].allocated = 0 /\ ~Exists(rc)
      BY <1>1, <1>3, <1>5, <2>5 DEF Known, Ends
    <3>3. deposits[rc] = 0 /\ left = 0
      BY <1>3, <3>2, NothingApplied DEF Balanced
    <3>4. DepositsDue(r) = Amount[rc]
      BY <1>1, <1>5, <2>5 DEF DepositsDue
    <3>5. receiptStatus'[rc] = StatusAt(rc, 0) /\ unallocated'[rc] = Amount[rc] - 0
      BY <1>5, <2>5, <3>2, CommitWrites
    <3>6. Exists(rc)'
      BY <2>1, <3>5 DEF StatusAt, Exists
    <3>. HIDE DEF left, own
    <3>7. unallocated'[rc] = deposits'[rc] /\ deposits'[rc] = Amount[rc] - (left + own)
      BY <2>1, <2>3, <3>1, <3>3, <3>4, <3>5
    <3>. QED  BY <2>2, <3>6, <3>7 DEF Balanced
  <2>6. CASE input[r].kind = "PAY"
    <3>1. Exists(rc) /\ Refunded(rc)
      BY <1>1, <1>3, <1>5, <2>6 DEF Known, Paying, Refunded
    <3>2. DepositsDue(r) = -RefundAmount[input[r].refund] /\ RefundAmount[input[r].refund] \in Nat
      BY <1>1, <2>6, RefundType, ConstantsAssumption DEF DepositsDue, Deducting
    <3>3. /\ receiptStatus'[rc] = receiptStatus[rc]
          /\ unallocated'[rc] = unallocated[rc] - RefundAmount[input[r].refund]
      BY <1>5, <2>6, CommitWrites
    <3>4. unallocated[rc] = deposits[rc]
      BY <1>3 DEF Balanced
    <3>5. unallocated'[rc] = deposits'[rc]
      BY <2>1, <2>3, <3>2, <3>3, <3>4
    <3>. QED  BY <1>2, <3>1, <3>3, <3>5 DEF Balanced, Exists
  <2>. QED  BY <1>1, <2>4, <2>5, <2>6
<1>. QED  BY <1>4, <1>5

(* What other requests have read survives the commit of one. *)
LEMMA KnownAfterCommit ==
  ASSUME TypeInv, NoReversals, CreatedUnallocated, RowsAreOfDone, DepositsInv,
         NEW r \in Requests, Commit(r), NEW q \in Requests \ {r}
  PROVE  Known(q)'
<1>1. /\ pc[r] = "commit" /\ input[r].kind \in {"CREATE", "ALLOCATE", "PAY"} /\ input[r].receipt \in ReceiptIds
      /\ input' = input /\ pc'[q] = pc[q] /\ tx'[q] = tx[q]
  BY CommitWrites, OthersStay DEF Step
<1>2. PICK rc \in ReceiptIds : rc = input[q].receipt
  BY BodyType DEF TypeInv, StateOK, InputType
<1>3. Known(q) /\ Known(r)
  BY DEF DepositsInv
<1>4. Exists(rc) => Exists(rc)'
  <2>1. CASE rc # input[r].receipt
    BY <2>1, CommitWrites DEF Exists
  <2>2. CASE rc = input[r].receipt /\ input[r].kind = "PAY"
    BY <2>2, CommitWrites DEF Exists
  <2>3. CASE rc = input[r].receipt /\ input[r].kind # "PAY"
    <3>1. receiptStatus'[rc] = StatusAt(rc, tx[r].allocated)
      BY <2>3, CommitWrites
    <3>2. Amount[rc] \in Nat \ {0} /\ tx[r].allocated \in Nat
      BY ConstantsAssumption, AtStep DEF TxType
    <3>. QED  BY <3>1, <3>2 DEF StatusAt, Exists
  <2>. QED  BY <2>1, <2>2, <2>3
<1>5. ASSUME Spends(q), (RowsOf(allocations, rc) = Earlier(rc))'
      PROVE  /\ RowsOf(allocations, rc) = Earlier(rc)
             /\ Applied(RowsOf(allocations, rc))' = Applied(RowsOf(allocations, rc))
  <2>1. allocations' = allocations \union OwnRows(r)
    BY CommitWrites
  <2>2. \A a \in OwnRows(r) : a.by = r /\ r # NoRequest
    BY ConstantsAssumption DEF OwnRows
  <2>3. RowsOf(allocations, rc)' = RowsOf(allocations, rc)
    BY <1>5, <2>1, <2>2 DEF RowsOf, Earlier
  <2>4. RowsOf(allocations, rc) = Earlier(rc)
    BY <1>5, <2>3 DEF Earlier
  <2>. QED  BY <2>3, <2>4
<1>6. ASSUME input[q].kind = "CREATE", pc[q] \notin Ends
      PROVE  ~Exists(rc)'
  <2>1. ~Exists(rc)
    BY <1>2, <1>3, <1>6 DEF Known
  <2>2. rc # input[r].receipt
    <3>1. CASE input[r].kind = "CREATE"
      BY <1>1, <1>2, <1>6, <3>1 DEF DepositsInv, ReceiptCreatedOnce, Ends
    <3>2. CASE input[r].kind = "ALLOCATE"
      <4>1. Spends(r)
        BY <1>1, <3>2, CommittedRows
      <4>. QED  BY <1>3, <2>1, <4>1 DEF Known
    <3>3. CASE input[r].kind = "PAY"
      BY <1>1, <1>3, <2>1, <3>3 DEF Known, Paying
    <3>. QED  BY <1>1, <3>1, <3>2, <3>3
  <2>. QED  BY <2>1, <2>2, CommitWrites DEF Exists
<1>7. Spends(q)' <=> Spends(q)
  BY <1>1 DEF Spends
<1>8. /\ Spends(q)' => /\ Exists(rc)'
                       /\ (RowsOf(allocations, rc) = Earlier(rc))' =>
                            tx'[q].allocated = Applied(RowsOf(allocations, rc))' + Total(input[q])
      /\ input[q].kind = "CREATE" => /\ tx'[q].allocated = 0
                                     /\ pc'[q] \notin Ends => ~Exists(rc)'
      /\ input[q].kind = "PAY" /\ pc'[q] \in Paying => Exists(rc)'
  BY <1>1, <1>2, <1>3, <1>4, <1>5, <1>6, <1>7 DEF Known
<1>. QED  BY <1>1, <1>2, <1>8 DEF Known, Exists, RowsOf, Earlier

LEMMA NextRefundsAreOfDone ==
  ASSUME TypeInv, PostedInv, RefundsAreOfDone, NEW r \in Requests, Submit(r) \/ Step(r) \/ Abort(r)
  PROVE  RefundsAreOfDone'
<1>1. /\ input' = input
      /\ \A q \in Requests : pc[q] = "done" => pc'[q] = "done"
  BY OthersStay, EndedStays
<1>2. CASE Commit(r)
  <2>1. journals' = journals \union tx[r].draft
    BY <1>2 DEF Commit, PublishJournals
  <2>2. pc'[r] = "done"
    <3>1. Answer(r, "done")
      BY <1>2 DEF Commit
    <3>. QED  BY <3>1, AnswerMoves, MoveOf
  <2>3. \A e \in tx[r].draft : e.type = "REFUND" =>
          input[r].kind = "PAY" /\ e = RefundEntry(input[r].refund)
    BY DEF PostedInv, RefundPosted
  <2>. QED  BY <1>1, <2>1, <2>2, <2>3 DEF RefundsAreOfDone
<1>3. CASE ~Commit(r)
  <2>1. journals' = journals
    BY <1>3, OthersStay DEF Writes, money, InsertRefund, Decide, SetRefund
  <2>. QED  BY <1>1, <2>1 DEF RefundsAreOfDone
<1>. QED  BY <1>2, <1>3

LEMMA NextDepositsInv ==
  ASSUME TypeInv, PostedInv, AloneInv, ReceivableInv, DepositsInv,
         NoReversals, CreatedUnallocated, SpentOneWay, RivalsMeet, [Next]_vars
  PROVE  DepositsInv'
<1>1. ASSUME UNCHANGED vars PROVE DepositsInv'
  <2>1. ReceiptCreatedOnce' /\ RefundsAreOfDone'
    BY <1>1 DEF vars, money, DepositsInv, ReceiptCreatedOnce, RefundsAreOfDone
  <2>2. ASSUME NEW r \in Requests PROVE LinesAreDue(r)' /\ Known(r)'
    <3>1. LinesAreDue(r) /\ Known(r)
      BY DEF DepositsInv
    <3>2. LinesAreDue(r)'
      BY <1>1, <3>1 DEF vars, LinesAreDue, DepositsDue
    <3>3. Known(r)'
      BY <1>1, <3>1 DEF vars, money, Known, Spends, Exists, RowsOf, Earlier
    <3>. QED  BY <3>2, <3>3
  <2>3. ASSUME NEW rc \in ReceiptIds PROVE Balanced(rc)'
    BY <1>1 DEF vars, money, DepositsInv, Balanced, Refunded, Exists, RowsOf
  <2>. QED  BY <2>1, <2>2, <2>3 DEF DepositsInv
<1>2. ASSUME NEW r \in Requests, Submit(r) \/ Step(r) \/ Abort(r)
      PROVE  DepositsInv'
  <2>1. /\ input' = input
        /\ \A q \in Requests \ {r} : pc'[q] = pc[q] /\ tx'[q] = tx[q]
        /\ ~Writes(r) => UNCHANGED money
    BY <1>2, OthersStay
  <2>2. ReceiptCreatedOnce' /\ RefundsAreOfDone'
    BY <1>2, NextCreatedOnce, NextRefundsAreOfDone DEF DepositsInv
  <2>3. ASSUME NEW q \in Requests \ {r} PROVE LinesAreDue(q)'
    <3>1. LinesAreDue(q)
      BY DEF DepositsInv
    <3>. QED  BY <2>1, <3>1 DEF LinesAreDue, DepositsDue
  <2>4. LinesAreDue(r)' /\ (~Commit(r) => Known(r)')
    <3>1. CASE Rollback(r) \/ Writes(r)
      <4>1. Answer(r, "failed") \/ Answer(r, "done")
        BY <3>1 DEF Rollback, Writes, InsertRefund, Decide, SetRefund, Commit
      <4>2. pc'[r] \in {"done", "failed"} /\ tx'[r] = Fresh
        BY <4>1, AnswerMoves, MoveOf
      <4>. QED  BY <4>2, DueAfterEnd, KnownAfterEnd
    <3>2. CASE ~Rollback(r) /\ ~Writes(r)
      <4>1. LinesAreDue(r) /\ RefundsAreOfDone
        BY DEF DepositsInv
      <4>2. LinesAreDue(r)'
        BY <1>2, <2>1, <3>2, <4>1, DueAfterStep
      <4>3. Known(r)'
        BY <1>2, <3>2, KnownAfterStep
      <4>. QED  BY <4>2, <4>3
    <3>. QED  BY <3>1, <3>2
  <2>5. CASE ~Commit(r)
    <3>1. /\ receiptStatus' = receiptStatus /\ unallocated' = unallocated /\ deposits' = deposits
          /\ allocations' = allocations
      BY <2>1, <2>5 DEF Writes, money, InsertRefund, Decide, SetRefund
    <3>2. ASSUME NEW rc \in ReceiptIds PROVE Balanced(rc)'
      BY <2>1, <3>1 DEF DepositsInv, Balanced, Refunded, Exists, RowsOf
    <3>3. ASSUME NEW q \in Requests \ {r} PROVE Known(q)'
      <4>1. Known(q)
        BY DEF DepositsInv
      <4>. QED  BY <2>1, <3>1, <4>1 DEF Known, Spends, Exists, RowsOf, Earlier
    <3>. QED  BY <2>2, <2>3, <2>4, <2>5, <3>2, <3>3 DEF DepositsInv
  <2>6. CASE Commit(r)
    <3>1. \A rc \in ReceiptIds : Balanced(rc)'
      BY <2>6, BalancedAfterCommit
    <3>2. \A q \in Requests \ {r} : Known(q)'
      BY <2>6, KnownAfterCommit DEF ReceivableInv
    <3>3. Known(r)'
      BY <2>6, CommitWrites, KnownAfterEnd
    <3>. QED  BY <2>2, <2>3, <2>4, <3>1, <3>2, <3>3 DEF DepositsInv
  <2>. QED  BY <2>5, <2>6
<1>. QED  BY <1>1, <1>2 DEF Next, Quiescent

LEMMA InitDepositsInv ==
  ASSUME Init
  PROVE  DepositsInv
<1>1. \A r \in Requests : tx[r] = Fresh /\ pc[r] = "idle" /\ Fresh.allocated = 0 /\ Fresh.draft = {}
  BY DEF Init, Fresh
<1>2. ASSUME NEW r \in Requests PROVE LinesAreDue(r) /\ Known(r)
  <2>1. Credited({}) = 0 /\ Cleared({}) = 0
    BY CreditedType, ClearedType
  <2>2. DepositsDue(r) = 0
    BY <1>1, <2>1 DEF DepositsDue, Deducting
  <2>3. pc[r] \notin Spending \union Paying /\ pc[r] \in Ends
    BY <1>1 DEF Spending, Allocating, Closing, Paying, Ends
  <2>4. Known(r)
    BY <1>1, <2>3 DEF Known, Spends
  <2>. QED  BY <1>1, <2>1, <2>2, <2>4 DEF LinesAreDue
<1>3. ReceiptCreatedOnce /\ RefundsAreOfDone
  BY <1>1 DEF Init, ReceiptCreatedOnce, RefundsAreOfDone, ReceiptEntry, AllocationEntry
<1>4. ASSUME NEW rc \in ReceiptIds PROVE Balanced(rc)
  <2>. DEFINE applied == Applied(RowsOf(Opening, rc))
  <2>1. /\ unallocated[rc] = (IF rc \in Posted THEN Amount[rc] - applied ELSE 0)
        /\ deposits[rc] = unallocated[rc] /\ allocations = Opening
        /\ receiptStatus[rc] = IF rc \in Posted THEN StatusAt(rc, applied) ELSE "ABSENT"
    BY DEF Init
  <2>2. rc \in Posted => Exists(rc)
    <3>1. applied \in Nat /\ Amount[rc] \in Nat \ {0}
      BY ConstantsAssumption, RowsOfType
    <3>. HIDE DEF applied
    <3>. QED  BY <2>1, <3>1 DEF Exists, StatusAt
  <2>3. rc \notin Posted => ~Exists(rc) /\ RowsOf(allocations, rc) = {}
    BY <2>1, ConstantsAssumption DEF Exists, RowsOf
  <2>. QED  BY <2>1, <2>2, <2>3 DEF Balanced
<1>. QED  BY <1>2, <1>3, <1>4 DEF DepositsInv

(* What a receipt has left is what account 2300 still owes for it, however *)
(* its allocations overlap, where any two of them have an invoice in       *)
(* common, no receipt is reversed or created with allocations, and none is *)
(* both refunded and allocated: the value allocateWithinTransaction stores *)
(* at the end is what its postings left.                                   *)
THEOREM DepositsMatchReceipts ==
  ASSUME NoReversals, PartsDiffer, RivalsMeet, CreatedUnallocated, SpentOneWay
  PROVE  Spec => []UnallocatedIsDeposits
<1>. DEFINE Inv == TypeInv /\ PostedInv /\ AloneInv /\ ReceivableInv /\ DepositsInv
<1>1. Init => Inv
  BY InitTypeInv, InitPostedInv, InitAloneInv, InitReceivableInv, InitDepositsInv
<1>2. Inv /\ [Next]_vars => Inv'
  <2>1. SUFFICES ASSUME Inv, [Next]_vars PROVE Inv'
    OBVIOUS
  <2>2. TypeInv' /\ PostedInv' /\ AloneInv'
    BY <2>1, NextTypeInv, NextPostedInv, NextAloneInv
  <2>3. ReceivableInv' /\ DepositsInv'
    BY <2>1, NextReceivableInv, NextDepositsInv DEF AloneInv
  <2>. QED  BY <2>2, <2>3
<1>3. Inv => UnallocatedIsDeposits
  BY DEF DepositsInv, Balanced, UnallocatedIsDeposits
<1>. HIDE DEF Inv
<1>. QED  BY <1>1, <1>2, <1>3, PTL DEF Spec

-------------------------------------------------------------------------------
(***************************************************************************)
(* Reversals.  What a reversal undoes is read from the rows and from the   *)
(* journal, so the proof goes through the journal: the accounts are the    *)
(* sums of its entries, whoever commits (LedgerInv); the entries of a      *)
(* receipt are those of its rows (Kept) until the entry that reverses the  *)
(* receipt is committed, and each has its reversal from then on (Undone).  *)
(***************************************************************************)
Originals == {"RECEIPT", "ALLOCATION"}
Reversals == {"RECEIPT_REVERSAL", "ALLOCATION_REVERSAL"}

EntriesOf(rc) == {e \in journals : e.receipt = rc}

(* The accounts are what the committed entries say. *)
AccountsAreEntries ==
  \A rc \in ReceiptIds :
    /\ receivable[rc] = Cleared(EntriesOf(rc))
    /\ deposits[rc] = Credited(EntriesOf(rc))

(* The unique reference: what a transaction has drafted, nobody else has,  *)
(* and nobody has committed.                                               *)
DraftIsNew(r) ==
  \A d \in tx[r].draft :
    /\ d.receipt = input[r].receipt
    /\ \A e \in journals : ~SameReference(d, e)
    /\ \A e \in tx[r].draft : SameReference(d, e) => d = e
    /\ \A q \in Requests \ {r} : \A e \in tx[q].draft : ~SameReference(d, e)

LedgerInv ==
  /\ IsFiniteSet(journals)
  /\ \A r \in Requests : DraftIsNew(r)
  /\ AccountsAreEntries

(* The entries a request drafts are of its body or reverse committed ones. *)
DraftIsOf(r) ==
  \A d \in tx[r].draft :
    \/ input[r].kind = "CREATE" /\ d.type = "RECEIPT" /\ d.about = d.receipt
    \/ Allocates(input[r]) /\ \E k \in 1..tx[r].n : d = PartEntry(input[r], k)
    \/ input[r].kind = "PAY" /\ d.type = "REFUND"
    \/ input[r].kind = "REVERSE" /\ \E e \in journals : e.type \in Originals /\ d = ReversalOf(e)

JournalIsSound ==
  /\ \A e \in journals : e.type = "RECEIPT" => e.about = e.receipt
  /\ \A d, e \in journals : d.type = "RECEIPT" /\ SameReference(d, e) => d = e
  /\ \A d \in journals : d.type \in Reversals =>
       \E e \in journals : e.type \in Originals /\ d = ReversalOf(e)
  /\ \A e \in journals : e.type = "REFUND" =>
       \A r \in Requests : input[r].kind = "REVERSE" => input[r].receipt # e.receipt

FormInv == JournalIsSound /\ \A r \in Requests : DraftIsOf(r)

Reversed(rc) == receiptStatus[rc] = "REVERSED"
Reverses(d, rc) == d.type = "RECEIPT_REVERSAL" /\ d.receipt = rc

(* A receipt that stands: its allocations are posted, and nothing else.    *)
Kept(rc) ==
  /\ \A e \in EntriesOf(rc) : e.type \notin Reversals
  /\ \A a \in RowsOf(allocations, rc) : AllocationEntry(a) \in journals
  /\ \A e \in EntriesOf(rc) : e.type = "ALLOCATION" =>
       \E a \in RowsOf(allocations, rc) : e = AllocationEntry(a)

(* A receipt that was reversed: whatever was posted is reversed.           *)
Undone(rc) ==
  /\ RowsOf(allocations, rc) = {} /\ unallocated[rc] = 0
  /\ \A e \in EntriesOf(rc) : e.type \in Originals => ReversalOf(e) \in journals
  /\ \E d \in journals : Reverses(d, rc)
  /\ \E r \in Requests : input[r].kind = "REVERSE" /\ input[r].receipt = rc

(* From the listing of the rows to the commit of the reversal. *)
Undoing == {"deleteRows", "reverseAllocation", "increment", "recompute", "writeInvoice",
            "reverseReceipt", "markReversed", "closeReversal", "commit"}

(* What a request has read of its receipt is still so. *)
Stands(r) ==
  LET rc == input[r].receipt IN
  /\ input[r].kind = "CREATE" /\ pc[r] \notin Ends => ~Exists(rc)
  /\ input[r].kind = "ALLOCATE" /\ pc[r] \in Spending => Standing(rc)
  /\ input[r].kind = "REVERSE" /\ pc[r] \in {"listRows"} \union Undoing => Exists(rc)

(* Every part a request has inserted is posted, but for the one it is at.  *)
PartsArePosted(r) ==
  Allocates(input[r]) =>
    \A k \in 1..tx[r].n :
      ~ (k = tx[r].n /\ pc[r] \in Posting) => PartEntry(input[r], k) \in Entries(r)

(* A reversal deletes the rows there are and has reversed those it is done *)
(* with; when it has reversed the receipt, nobody else has.                *)
UndoesAll(r) ==
  LET rc == input[r].receipt
      t == tx[r]
  IN input[r].kind = "REVERSE" =>
     /\ \A a \in t.list : a.receipt = rc
     /\ pc[r] \notin Undoing => t.gone = {}
     /\ pc[r] \in Undoing /\ ~Reversed(rc) =>
          IF pc[r] = "deleteRows"
          THEN t.list = RowsOf(allocations, rc)
          ELSE /\ t.gone = RowsOf(allocations, rc)
               /\ \A a \in t.gone \ t.list : ReversalOf(AllocationEntry(a)) \in t.draft
               /\ pc[r] \notin {"reverseAllocation", "increment"} => t.list = {}
     /\ pc[r] = "markReversed" => \E d \in Entries(r) : Reverses(d, rc)
     /\ pc[r] \in {"closeReversal", "commit"} => \E d \in t.draft : Reverses(d, rc)

UndoInv ==
  /\ ReceiptCreatedOnce
  /\ \A rc \in ReceiptIds : IF Reversed(rc) THEN Undone(rc) ELSE Kept(rc)
  /\ \A r \in Requests : Stands(r) /\ PartsArePosted(r) /\ UndoesAll(r)

(* The hypotheses.  No allocation of a receipt is between its read and its *)
(* commit while a reversal of the receipt is between listing the rows and  *)
(* its own.  A receipt that a request reverses is not refunded by another. *)
ReversalsTakeTurns ==
  \A q, r \in Requests :
    /\ input[q].kind = "ALLOCATE" /\ input[r].kind = "REVERSE"
    /\ input[q].receipt = input[r].receipt
    => ~ (pc[q] \in Spending /\ pc[r] \in Undoing)

ReversedUnrefunded ==
  \A w \in Workloads : \A q, r \in Requests :
    w[q].kind = "REVERSE" /\ w[r].kind = "PAY" => w[q].receipt # w[r].receipt

(* Earlier allocations have entries of their own, as the accounts of Init say. *)
OpeningDiffers ==
  \A a, b \in Opening : AllocationEntry(a) = AllocationEntry(b) => a = b

(***************************************************************************)
(* The statements of a reversal, one by one: what each changes of it.      *)
(***************************************************************************)
Same(r) == /\ tx'[r].list = tx[r].list /\ tx'[r].gone = tx[r].gone
           /\ tx'[r].draft = tx[r].draft

Listed(r) ==
  LET rows == RowsOf(allocations, input[r].receipt) IN
  /\ pc[r] = "listRows"
  /\ pc'[r] = IF rows = {} THEN "reverseReceipt" ELSE "deleteRows"
  /\ tx'[r].list = rows /\ tx'[r].gone = tx[r].gone /\ tx'[r].draft = tx[r].draft

Deleted(r) ==
  /\ pc[r] = "deleteRows" /\ pc'[r] = "reverseAllocation"
  /\ tx'[r].list = tx[r].list /\ tx'[r].draft = tx[r].draft
  /\ tx'[r].gone = RowsOf(allocations, input[r].receipt)

Unposted(r) ==
  \E a \in tx[r].list :
    LET e == AllocationEntry(a)
        d == ReversalOf(e)
    IN /\ pc[r] = "reverseAllocation"
       /\ tx'[r].list = tx[r].list \ {a} /\ tx'[r].gone = tx[r].gone
       /\ IF e \in Entries(r) /\ d \notin Entries(r)
          THEN pc'[r] = "increment" /\ tx'[r].draft = tx[r].draft \union {d}
          ELSE /\ pc'[r] = IF tx'[r].list = {} THEN "recompute" ELSE "reverseAllocation"
               /\ tx'[r].draft = tx[r].draft

ReceiptUnposted(r) ==
  \E e \in Entries(r) :
    /\ pc[r] = "reverseReceipt" /\ pc'[r] = "markReversed"
    /\ e.type = "RECEIPT" /\ e.receipt = input[r].receipt
    /\ tx'[r].list = tx[r].list /\ tx'[r].gone = tx[r].gone
    /\ tx'[r].draft = IF ReversalOf(e) \in Entries(r) THEN tx[r].draft
                                                      ELSE tx[r].draft \union {ReversalOf(e)}

UndoMoves(r) ==
  \/ Same(r) /\ pc[r] = "idle" /\ pc'[r] = "readReversed"
  \/ Same(r) /\ pc[r] = "readReversed" /\ pc'[r] = "listRows" /\ Standing(input[r].receipt)
  \/ Listed(r) \/ Deleted(r) \/ Unposted(r) \/ ReceiptUnposted(r)
  \/ /\ Same(r) /\ pc[r] = "increment"
     /\ pc'[r] = IF tx[r].list = {} THEN "recompute" ELSE "reverseAllocation"
  \/ Same(r) /\ pc[r] = "recompute" /\ pc'[r] = "writeInvoice"
  \/ Same(r) /\ pc[r] = "writeInvoice" /\ pc'[r] \in {"recompute", "reverseReceipt"}
  \/ Same(r) /\ pc[r] = "markReversed" /\ pc'[r] = "closeReversal" /\ Standing(input[r].receipt)
  \/ Same(r) /\ pc[r] = "closeReversal" /\ pc'[r] = "commit"

LEMMA UpdateMoves ==
  ASSUME TypeInv, NEW r \in Requests, NEW row, NEW label, Update(r, row, label)
  PROVE  Same(r) /\ pc'[r] = label
BY DEF Update, Goto, Same, TypeInv, StateOK, TypeOK

LEMMA PassMoves ==
  ASSUME TypeInv, NEW r \in Requests, NEW label, NEW seen, Passes(r, label, seen)
  PROVE  /\ pc'[r] = label /\ tx'[r].list = seen.list /\ tx'[r].gone = seen.gone
         /\ tx'[r].draft = seen.draft
BY PassOf

LEMMA UndoSteps ==
  ASSUME TypeInv, NEW r \in Requests, Submit(r) \/ Step(r) \/ Abort(r), ~Writes(r),
         input[r].kind = "REVERSE"
  PROVE  (pc'[r] = "failed" /\ tx'[r] = Fresh) \/ UndoMoves(r)
<1>. DEFINE Failed == pc'[r] = "failed" /\ tx'[r] = Fresh
<1>. SUFFICES ASSUME ~Failed PROVE UndoMoves(r)
  OBVIOUS
<1>1. ~Rollback(r) /\ ~Abort(r)
  BY RollbackOf DEF Abort
<1>. HIDE DEF Failed
<1>2. tx[r] \in TxType
  BY AtStep
<1>3. pc[r] \in PathOf["REVERSE"]
  BY AtStep DEF OnPath
<1>4. CASE Submit(r)
  <2>1. pc[r] = "idle" /\ pc'[r] = "readReversed" /\ tx' = tx
    BY <1>4 DEF Submit, Goto, FirstStep, TypeInv, StateOK, TypeOK
  <2>. QED  BY <2>1 DEF UndoMoves, Same
<1>5. CASE ReadReversed(r) \/ MarkReversed(r)
  <2>1. /\ Standing(input[r].receipt)
        /\ \/ pc[r] = "readReversed" /\ Passes(r, "listRows", tx[r])
           \/ pc[r] = "markReversed" /\ Passes(r, "closeReversal", tx[r])
    BY <1>1, <1>5 DEF ReadReversed, MarkReversed, Read, Passes
  <2>. QED  BY <2>1, PassMoves DEF UndoMoves, Same
<1>6. CASE ListRows(r)
  <2>. DEFINE rows == RowsOf(allocations, input[r].receipt)
              seen == [tx[r] EXCEPT !.list = rows]
              label == IF rows = {} THEN "reverseReceipt" ELSE "deleteRows"
  <2>1. pc[r] = "listRows" /\ Passes(r, label, seen)
    BY <1>1, <1>6 DEF ListRows, Read, Passes
  <2>2. seen.list = rows /\ seen.gone = tx[r].gone /\ seen.draft = tx[r].draft
    BY <1>2 DEF TxType
  <2>. HIDE DEF seen
  <2>3. Listed(r)
    BY <2>1, <2>2, PassMoves DEF Listed
  <2>. QED  BY <2>3 DEF UndoMoves
<1>7. CASE DeleteRows(r)
  <2>. DEFINE rows == RowsOf(allocations, input[r].receipt)
              seen == [tx[r] EXCEPT !.gone = rows, !.todo = {a.invoice : a \in tx[r].list}]
  <2>1. pc[r] = "deleteRows" /\ Passes(r, "reverseAllocation", seen)
    BY <1>1, <1>7 DEF DeleteRows, Read, Passes
  <2>2. seen.list = tx[r].list /\ seen.gone = rows /\ seen.draft = tx[r].draft
    BY <1>2 DEF TxType
  <2>. HIDE DEF seen
  <2>3. Deleted(r)
    BY <2>1, <2>2, PassMoves DEF Deleted
  <2>. QED  BY <2>3 DEF UndoMoves
<1>8. CASE ReverseAllocation(r)
  <2>1. PICK a \in tx[r].list :
          IF AllocationEntry(a) \in Entries(r) /\ ReversalOf(AllocationEntry(a)) \notin Entries(r)
          THEN Post(r, ReversalOf(AllocationEntry(a)), "increment", [tx[r] EXCEPT !.list = @ \ {a}])
          ELSE Read(r, TRUE, IF [tx[r] EXCEPT !.list = @ \ {a}].list = {} THEN "recompute"
                                                                         ELSE "reverseAllocation",
                    [tx[r] EXCEPT !.list = @ \ {a}])
    BY <1>8 DEF ReverseAllocation
  <2>. DEFINE e == AllocationEntry(a)
              d == ReversalOf(e)
              left == [tx[r] EXCEPT !.list = @ \ {a}]
              wrote == [left EXCEPT !.draft = @ \union {d}]
  <2>2. left.list = tx[r].list \ {a} /\ left.gone = tx[r].gone /\ left.draft = tx[r].draft
        /\ wrote.list = tx[r].list \ {a} /\ wrote.gone = tx[r].gone
        /\ wrote.draft = tx[r].draft \union {d}
    BY <1>2 DEF TxType
  <2>3. pc[r] = "reverseAllocation"
    BY <1>8 DEF ReverseAllocation
  <2>4. IF e \in Entries(r) /\ d \notin Entries(r)
        THEN Passes(r, "increment", wrote)
        ELSE Passes(r, IF left.list = {} THEN "recompute" ELSE "reverseAllocation", left)
    <3>. HIDE DEF left, d, e
    <3>1. Post(r, d, "increment", left) => Passes(r, "increment", wrote)
      BY <1>1, PostOf
    <3>. QED  BY <2>1, <3>1 DEF Read, Passes, left, d, e
  <2>. HIDE DEF left, wrote, d, e
  <2>5. /\ tx'[r].list = tx[r].list \ {a} /\ tx'[r].gone = tx[r].gone
        /\ IF e \in Entries(r) /\ d \notin Entries(r)
           THEN pc'[r] = "increment" /\ tx'[r].draft = tx[r].draft \union {d}
           ELSE /\ pc'[r] = IF left.list = {} THEN "recompute" ELSE "reverseAllocation"
                /\ tx'[r].draft = tx[r].draft
    <3>1. CASE e \in Entries(r) /\ d \notin Entries(r)
      BY <2>2, <2>4, <3>1, PassMoves
    <3>2. CASE ~ (e \in Entries(r) /\ d \notin Entries(r))
      BY <2>2, <2>4, <3>2, PassMoves
    <3>. QED  BY <3>1, <3>2
  <2>6. Unposted(r)
    BY <2>2, <2>3, <2>5 DEF Unposted, d, e
  <2>. QED  BY <2>6 DEF UndoMoves
<1>9. CASE ReverseReceipt(r)
  <2>1. PICK e \in Entries(r) :
          /\ e.type = "RECEIPT" /\ e.receipt = input[r].receipt
          /\ IF ReversalOf(e) \in Entries(r)
             THEN Read(r, TRUE, "markReversed", tx[r])
             ELSE Post(r, ReversalOf(e), "markReversed", tx[r])
    BY <1>9 DEF ReverseReceipt
  <2>. DEFINE d == ReversalOf(e)
              wrote == [tx[r] EXCEPT !.draft = @ \union {d}]
  <2>2. /\ wrote.list = tx[r].list /\ wrote.gone = tx[r].gone
        /\ wrote.draft = tx[r].draft \union {d}
    BY <1>2 DEF TxType
  <2>3. pc[r] = "reverseReceipt"
    BY <1>9 DEF ReverseReceipt
  <2>4. IF d \in Entries(r) THEN Passes(r, "markReversed", tx[r])
                            ELSE Passes(r, "markReversed", wrote)
    <3>. HIDE DEF d
    <3>1. Post(r, d, "markReversed", tx[r]) => Passes(r, "markReversed", wrote)
      BY <1>1, PostOf
    <3>. QED  BY <2>1, <3>1 DEF Read, Passes, d
  <2>. HIDE DEF wrote, d
  <2>5. /\ tx'[r].list = tx[r].list /\ tx'[r].gone = tx[r].gone /\ pc'[r] = "markReversed"
        /\ tx'[r].draft = IF d \in Entries(r) THEN tx[r].draft ELSE tx[r].draft \union {d}
    <3>1. CASE d \in Entries(r)
      BY <2>4, <3>1, PassMoves
    <3>2. CASE d \notin Entries(r)
      BY <2>2, <2>4, <3>2, PassMoves
    <3>. QED  BY <3>1, <3>2
  <2>6. ReceiptUnposted(r)
    BY <2>1, <2>3, <2>5 DEF ReceiptUnposted, d
  <2>. QED  BY <2>6 DEF UndoMoves
<1>10. CASE Recompute(r)
  <2>1. \E i : Passes(r, "writeInvoice",
            [tx[r] EXCEPT !.invoice = i, !.todo = @ \ {i},
                          !.paid = [j \in DOMAIN @ \union {i} |->
                                      IF j = i THEN Applied(RowsFor(Visible(r), i)) ELSE @[j]]])
        /\ pc[r] = "recompute"
    BY <1>1, <1>10 DEF Recompute, Read, Passes
  <2>2. \E seen : /\ seen.list = tx[r].list /\ seen.gone = tx[r].gone /\ seen.draft = tx[r].draft
                  /\ Passes(r, "writeInvoice", seen)
    BY <1>2, <2>1 DEF TxType
  <2>3. Same(r) /\ pc'[r] = "writeInvoice"
    BY <2>2, PassMoves DEF Same
  <2>. QED  BY <2>1, <2>3 DEF UndoMoves
<1>11. CASE WriteInvoice(r)
  <2>1. /\ pc[r] = "writeInvoice"
        /\ \E row : Update(r, row, IF tx[r].todo # {} THEN "recompute" ELSE "reverseReceipt")
    BY <1>11 DEF WriteInvoice
  <2>2. Same(r) /\ pc'[r] \in {"recompute", "reverseReceipt"}
    BY <2>1, UpdateMoves
  <2>. QED  BY <2>1, <2>2 DEF UndoMoves
<1>12. CASE UpdateReceipt(r)
  <2>1. pc[r] \in {"increment", "closeReversal"}
    BY <1>3, <1>12 DEF UpdateReceipt, PathOf, Ends
  <2>2. \E row : Update(r, row, IF pc[r] = "increment"
                               THEN IF tx[r].list = {} THEN "recompute" ELSE "reverseAllocation"
                               ELSE "commit")
    BY <1>12, <2>1 DEF UpdateReceipt
  <2>3. Same(r) /\ pc'[r] = (IF pc[r] = "increment"
                             THEN IF tx[r].list = {} THEN "recompute" ELSE "reverseAllocation"
                             ELSE "commit")
    BY <2>2, UpdateMoves
  <2>. QED  BY <2>1, <2>3 DEF UndoMoves
<1>13. ~ (\/ NextNumber(r) \/ InsertReceipt(r) \/ ReadReceipt(r) \/ ReadInvoices(r) \/ ReadDeposit(r)
          \/ EnsureSystemAccount(r) \/ PostAllocation(r) \/ PostReceipt(r) \/ ReadRefundable(r)
          \/ ReadPending(r) \/ ReadApproved(r) \/ CheckPosting(r) \/ PostRefund(r) \/ PayRefund(r))
  BY <1>3 DEF PathOf, Ends, NextNumber, InsertReceipt, ReadReceipt, ReadInvoices, ReadDeposit,
     EnsureSystemAccount, AccountCall, PostAllocation, PostReceipt, ReadRefundable, ReadPending,
     ReadApproved, CheckPosting, PostRefund, PayRefund
<1>. QED  BY <1>1, <1>4, <1>5, <1>6, <1>7, <1>8, <1>9, <1>10, <1>11, <1>12, <1>13 DEF Step, Writes

LEMMA ReversalFields ==
  ASSUME NEW e \in EntryType, e.type \in Originals
  PROVE  /\ ReversalOf(e) \in EntryType
         /\ ReversalOf(e).type = IF e.type = "RECEIPT" THEN "RECEIPT_REVERSAL" ELSE "ALLOCATION_REVERSAL"
         /\ ReversalOf(e).type \in Reversals /\ ReversalOf(e).type \notin Originals
         /\ ReversalOf(e).receipt = e.receipt /\ ReversalOf(e).about = e.about
         /\ ReversalOf(e).amount = e.amount /\ ReversalOf(e).cleared = e.cleared
         /\ ReceivableLine(e) \in Int /\ ReceivableLine(ReversalOf(e)) = -ReceivableLine(e)
         /\ DepositLine(e) \in Int /\ DepositLine(ReversalOf(e)) = -DepositLine(e)
<1>. DEFINE d == ReversalOf(e)
<1>1. /\ d \in EntryType
      /\ d.type = IF e.type = "RECEIPT" THEN "RECEIPT_REVERSAL" ELSE "ALLOCATION_REVERSAL"
      /\ d.receipt = e.receipt /\ d.about = e.about /\ d.amount = e.amount /\ d.cleared = e.cleared
  BY DEF ReversalOf, EntryType, EntryTypes
<1>2. d.type \in Reversals /\ d.type \notin Originals
  BY <1>1 DEF Originals, Reversals
<1>3. e.amount \in Int /\ e.cleared \in Int
  BY DEF EntryType
<1>. HIDE DEF d
<1>4. ReceivableLine(e) = e.cleared /\ ReceivableLine(d) = -e.cleared
  BY <1>1, <1>2 DEF ReceivableLine, Originals
<1>5. CASE e.type = "RECEIPT"
  <2>1. DepositLine(e) = e.amount - e.cleared /\ DepositLine(d) = e.cleared - e.amount
    BY <1>1, <1>5 DEF DepositLine
  <2>2. DepositLine(e) \in Int /\ DepositLine(d) = -DepositLine(e)
    BY <1>3, <2>1
  <2>. QED  BY <1>1, <1>2, <1>3, <1>4, <2>2 DEF d
<1>6. CASE e.type = "ALLOCATION"
  <2>1. DepositLine(e) = -e.amount /\ DepositLine(d) = e.amount
    BY <1>1, <1>6 DEF DepositLine
  <2>2. DepositLine(e) \in Int /\ DepositLine(d) = -DepositLine(e)
    BY <1>3, <2>1
  <2>. QED  BY <1>1, <1>2, <1>3, <1>4, <2>2 DEF d
<1>. QED  BY <1>5, <1>6 DEF Originals

LEMMA ReversalsDiffer ==
  ASSUME NEW e \in EntryType, NEW f \in EntryType, e.type \in Originals, f.type \in Originals
  PROVE  /\ ReversalOf(e) = ReversalOf(f) => e = f
         /\ SameReference(ReversalOf(e), ReversalOf(f)) => SameReference(e, f)
<1>1. ReversalOf(e).type = ReversalOf(f).type => e.type = f.type
  BY ReversalFields DEF Originals
<1>2. SameReference(ReversalOf(e), ReversalOf(f)) => SameReference(e, f)
  BY <1>1, ReversalFields DEF SameReference
<1>3. ASSUME ReversalOf(e) = ReversalOf(f) PROVE e = f
  <2>1. e.type = f.type /\ e.receipt = f.receipt /\ e.about = f.about /\ e.amount = f.amount
        /\ e.cleared = f.cleared
    BY <1>1, <1>3, ReversalFields
  <2>. QED  BY <2>1 DEF EntryType
<1>. QED  BY <1>2, <1>3

LEMMA EntryIs ==
  ASSUME TypeInv, NEW r \in Requests, NEW e \in Entries(r)
  PROVE  e \in EntryType
BY AtStep DEF Entries, TypeInv, StateOK, TxType

(* What a reversal undoes was committed. *)
LEMMA UndoesCommitted ==
  ASSUME TypeInv, FormInv, NEW r \in Requests, input[r].kind = "REVERSE",
         NEW e \in Entries(r), e.type \in Originals
  PROVE  e \in journals
<1>1. ASSUME e \in tx[r].draft PROVE FALSE
  <2>1. PICK o \in journals : o.type \in Originals /\ e = ReversalOf(o)
    BY <1>1 DEF FormInv, DraftIsOf, Allocates
  <2>2. o \in EntryType
    BY DEF TypeInv, StateOK
  <2>. QED  BY <2>1, <2>2, ReversalFields
<1>. QED  BY <1>1 DEF Entries

(* The entry that a step drafts is of the body, or reverses a committed one. *)
DraftedBy(r, e) ==
  \/ input[r].kind = "CREATE" /\ e.type = "RECEIPT" /\ e.about = e.receipt
  \/ Allocates(input[r]) /\ tx[r].n > 0 /\ e = PartEntry(input[r], tx[r].n)
  \/ input[r].kind = "PAY" /\ e.type = "REFUND"
  \/ input[r].kind = "REVERSE" /\ \E o \in journals : o.type \in Originals /\ e = ReversalOf(o)

LEMMA DraftedEntry ==
  ASSUME TypeInv, FormInv, UndoInv, NEW r \in Requests, Submit(r) \/ Step(r) \/ Abort(r), ~Writes(r),
         NEW e, Drafts(r, e)
  PROVE  e.receipt = input[r].receipt /\ DraftedBy(r, e)
<1>. DEFINE Goal == e.receipt = input[r].receipt /\ DraftedBy(r, e)
<1>. SUFFICES Goal
  OBVIOUS
<1>1. /\ pc[r] \in PathOf[input[r].kind] /\ input[r].kind \in Kinds
      /\ input[r].kind # "REVERSE" /\ pc[r] \in Inserted => tx[r].n > 0
  BY AtStep DEF OnPath
<1>2. CASE pc[r] = "postAllocation" /\ e = PartEntry(input[r], tx[r].n)
  <2>1. Allocates(input[r])
    BY <1>1, <1>2 DEF PathOf, Kinds, Ends, Allocates
  <2>2. tx[r].n > 0
    BY <1>1, <1>2, <2>1 DEF Allocates, Inserted
  <2>3. e.receipt = input[r].receipt
    BY <1>2 DEF PartEntry, AllocationEntry
  <2>. QED  BY <1>2, <2>1, <2>2, <2>3 DEF DraftedBy
<1>3. CASE pc[r] = "postReceipt" /\ e = ReceiptEntry(input[r].receipt, Applied(OwnRows(r)))
  <2>1. input[r].kind = "CREATE"
    BY <1>1, <1>3 DEF PathOf, Kinds, Ends, Allocating
  <2>2. e.type = "RECEIPT" /\ e.receipt = input[r].receipt /\ e.about = input[r].receipt
    BY <1>3 DEF ReceiptEntry
  <2>. QED  BY <2>1, <2>2 DEF DraftedBy
<1>4. CASE pc[r] = "postRefund" /\ e = RefundEntry(input[r].refund)
  <2>1. input[r].kind = "PAY"
    BY <1>1, <1>4 DEF PathOf, Kinds, Ends, Allocating
  <2>2. input[r].receipt = RefundReceipt[input[r].refund]
    BY <2>1, BodyType DEF WellFormed, TypeInv, StateOK
  <2>3. e.type = "REFUND" /\ e.receipt = input[r].receipt
    BY <1>4, <2>2 DEF RefundEntry
  <2>. QED  BY <2>1, <2>3 DEF DraftedBy
<1>5. CASE pc[r] \in {"reverseAllocation", "reverseReceipt"}
  <2>1. input[r].kind = "REVERSE"
    BY <1>1, <1>5 DEF PathOf, Kinds, Ends, Allocating
  <2>2. e \notin tx[r].draft /\ tx'[r].draft = tx[r].draft \union {e}
    BY DraftsAlone DEF Drafts
  <2>3. ~ (pc'[r] = "failed" /\ tx'[r] = Fresh)
    <3>1. Fresh.draft = {}
      BY DEF Fresh
    <3>. QED  BY <2>2, <3>1
  <2>4. Unposted(r) \/ ReceiptUnposted(r)
    <3>1. UndoMoves(r)
      BY <2>1, <2>3, UndoSteps
    <3>. QED  BY <1>5, <3>1 DEF UndoMoves, Listed, Deleted
  <2>5. ASSUME NEW o \in Entries(r), o.type \in Originals, o.receipt = input[r].receipt,
               tx'[r].draft = tx[r].draft \union {ReversalOf(o)}
        PROVE  Goal
    <3>1. e = ReversalOf(o)
      BY <2>2, <2>5
    <3>2. o \in journals
      BY <2>1, <2>5, UndoesCommitted
    <3>3. o \in EntryType
      BY EntryIs
    <3>4. e.receipt = input[r].receipt
      BY <2>5, <3>1, <3>3, ReversalFields
    <3>. QED  BY <2>1, <2>5, <3>1, <3>2, <3>4 DEF DraftedBy
  <2>6. CASE Unposted(r)
    <3>1. PICK a \in tx[r].list :
            /\ AllocationEntry(a) \in Entries(r)
            /\ tx'[r].draft = tx[r].draft \union {ReversalOf(AllocationEntry(a))}
      BY <2>2, <2>6 DEF Unposted
    <3>2. a.receipt = input[r].receipt
      BY <2>1 DEF UndoInv, UndoesAll
    <3>3. AllocationEntry(a).type \in Originals /\ AllocationEntry(a).receipt = input[r].receipt
      BY <3>2 DEF AllocationEntry, Originals
    <3>. HIDE DEF Goal
    <3>. QED  BY <2>5, <3>1, <3>3
  <2>7. CASE ReceiptUnposted(r)
    <3>1. PICK o \in Entries(r) : /\ o.type = "RECEIPT" /\ o.receipt = input[r].receipt
                                  /\ tx'[r].draft = tx[r].draft \union {ReversalOf(o)}
      BY <2>2, <2>7 DEF ReceiptUnposted
    <3>. HIDE DEF Goal
    <3>. QED  BY <2>5, <3>1 DEF Originals
  <2>. HIDE DEF Goal
  <2>. QED  BY <2>4, <2>6, <2>7
<1>. HIDE DEF Goal
<1>. QED  BY <1>2, <1>3, <1>4, <1>5 DEF Drafts

(* Drafts keep their form and their references from step to step. *)
LEMMA NextDrafts ==
  ASSUME TypeInv, LedgerInv, FormInv, UndoInv,
         NEW r \in Requests, Submit(r) \/ Step(r) \/ Abort(r), ~Writes(r)
  PROVE  \A q \in Requests : DraftIsNew(q)' /\ DraftIsOf(q)'
<1>1. /\ input' = input /\ journals' = journals
      /\ \A q \in Requests \ {r} : tx'[q] = tx[q]
  BY OthersStay DEF money
<1>2. /\ \A q \in Requests : DraftIsNew(q) /\ DraftIsOf(q)
  BY DEF LedgerInv, FormInv
<1>3. Fresh.draft = {}
  BY DEF Fresh
<1>4. \/ tx'[r].draft = {} \/ tx'[r].draft = tx[r].draft \/ \E e : Drafts(r, e)
  BY <1>3, DraftSteps
<1>5. ASSUME tx'[r].draft \subseteq tx[r].draft PROVE \A q \in Requests : DraftIsNew(q)'
  <2>1. ASSUME NEW q \in Requests PROVE DraftIsNew(q)'
    <3>1. \A p \in Requests : tx'[p].draft \subseteq tx[p].draft
      BY <1>1, <1>5
    <3>. QED  BY <1>1, <1>2, <3>1 DEF DraftIsNew
  <2>. QED  BY <2>1
<1>6. ASSUME NEW e, Drafts(r, e) PROVE \A q \in Requests : DraftIsNew(q)'
  <2>1. /\ tx'[r].draft = tx[r].draft \union {e}
        /\ \A d \in journals \union tx[r].draft : ~SameReference(d, e) /\ ~SameReference(e, d)
    BY <1>6 DEF Drafts, SameReference
  <2>2. \A q \in Requests \ {r} : \A d \in tx[q].draft : ~SameReference(d, e) /\ ~SameReference(e, d)
    BY <1>6, DraftsAlone DEF SameReference
  <2>3. e.receipt = input[r].receipt
    BY <1>6, DraftedEntry
  <2>4. DraftIsNew(r)'
    <3>. SUFFICES ASSUME NEW d \in tx[r].draft \union {e}
                  PROVE  /\ d.receipt = input[r].receipt
                         /\ \A f \in journals : ~SameReference(d, f)
                         /\ \A f \in tx[r].draft \union {e} : SameReference(d, f) => d = f
                         /\ \A q \in Requests \ {r} : \A f \in tx[q].draft : ~SameReference(d, f)
      BY <1>1, <2>1 DEF DraftIsNew
    <3>. QED  BY <1>2, <2>1, <2>2, <2>3 DEF DraftIsNew
  <2>5. ASSUME NEW q \in Requests \ {r} PROVE DraftIsNew(q)'
    <3>1. ASSUME NEW d \in tx[q].draft, NEW p \in Requests \ {q}, NEW f \in tx'[p].draft
          PROVE  ~SameReference(d, f)
      <4>1. CASE p = r
        BY <1>2, <2>1, <2>2, <3>1, <4>1 DEF DraftIsNew
      <4>2. CASE p # r
        BY <1>1, <1>2, <3>1, <4>2 DEF DraftIsNew
      <4>. QED  BY <4>1, <4>2
    <3>. QED  BY <1>1, <1>2, <3>1 DEF DraftIsNew
  <2>. QED  BY <2>4, <2>5
<1>7. ASSUME NEW q \in Requests PROVE DraftIsOf(q)'
  <2>1. CASE q # r
    BY <1>1, <1>2, <2>1 DEF DraftIsOf
  <2>2. CASE q = r /\ tx'[r].draft = {}
    BY <2>2 DEF DraftIsOf
  <2>3. CASE q = r /\ tx'[r].draft # {}
    <3>1. Allocates(input[r]) => tx[r].n \in Nat /\ tx'[r].n \in {tx[r].n, tx[r].n + 1}
      BY <1>3, <2>3, PartsNotFewer DEF Allocates
    <3>2. ASSUME NEW d, d \in tx[r].draft \/ DraftedBy(r, d)
          PROVE  \/ input[r].kind = "CREATE" /\ d.type = "RECEIPT" /\ d.about = d.receipt
                 \/ Allocates(input[r]) /\ \E k \in 1..tx'[r].n : d = PartEntry(input[r], k)
                 \/ input[r].kind = "PAY" /\ d.type = "REFUND"
                 \/ input[r].kind = "REVERSE" /\ \E e \in journals : e.type \in Originals /\ d = ReversalOf(e)
      <4>1. CASE Allocates(input[r]) /\ \E k \in 1..tx[r].n : d = PartEntry(input[r], k)
        BY <3>1, <4>1
      <4>2. CASE Allocates(input[r]) /\ tx[r].n > 0 /\ d = PartEntry(input[r], tx[r].n)
        BY <3>1, <4>2
      <4>. QED  BY <1>2, <3>2, <4>1, <4>2 DEF DraftIsOf, DraftedBy
    <3>3. \A d \in tx'[r].draft : d \in tx[r].draft \/ DraftedBy(r, d)
      BY <1>4, <2>3, DraftedEntry DEF Drafts
    <3>. QED  BY <1>1, <2>3, <3>2, <3>3 DEF DraftIsOf
  <2>. QED  BY <2>1, <2>2, <2>3
<1>. QED  BY <1>4, <1>5, <1>6, <1>7

(* The lines of entries of which none is the other's. *)
LEMMA LinesUnion ==
  ASSUME NEW S, IsFiniteSet(S), S \subseteq EntryType, NEW T, IsFiniteSet(T), T \subseteq EntryType,
         S \intersect T = {}
  PROVE  /\ Cleared(S \union T) = Cleared(S) + Cleared(T)
         /\ Credited(S \union T) = Credited(S) + Credited(T)
<1>1. \A d \in S \union T : ReceivableLine(d) \in Int /\ DepositLine(d) \in Int
  BY EntriesType
<1>2. Cleared(S \union T) = Cleared(S) + Cleared(T)
  <2>. DEFINE f == [d \in S |-> ReceivableLine(d)]
              g == [d \in T |-> ReceivableLine(d)]
              h == [d \in S \union T |-> ReceivableLine(d)]
  <2>1. (\A d \in S : h[d] = f[d]) /\ (\A d \in T : h[d] = g[d]) /\ \A d \in S \union T : h[d] \in Int
    BY <1>1
  <2>2. DOMAIN f = S /\ DOMAIN g = T /\ DOMAIN h = S \union T
    OBVIOUS
  <2>. HIDE DEF f, g, h
  <2>3. SumFunctionOnSet(h, S \union T) = SumFunctionOnSet(h, S) + SumFunctionOnSet(h, T)
    BY <2>1, SumOfUnion
  <2>4. SumFunctionOnSet(h, S) = SumFunctionOnSet(f, S) /\ SumFunctionOnSet(h, T) = SumFunctionOnSet(g, T)
    BY <2>1, SumCongruence
  <2>5. SumFunction(h) = SumFunction(f) + SumFunction(g)
    BY <2>2, <2>3, <2>4 DEF SumFunction
  <2>. QED  BY <2>5 DEF Cleared, f, g, h
<1>3. Credited(S \union T) = Credited(S) + Credited(T)
  <2>. DEFINE f == [d \in S |-> DepositLine(d)]
              g == [d \in T |-> DepositLine(d)]
              h == [d \in S \union T |-> DepositLine(d)]
  <2>1. (\A d \in S : h[d] = f[d]) /\ (\A d \in T : h[d] = g[d]) /\ \A d \in S \union T : h[d] \in Int
    BY <1>1
  <2>2. DOMAIN f = S /\ DOMAIN g = T /\ DOMAIN h = S \union T
    OBVIOUS
  <2>. HIDE DEF f, g, h
  <2>3. SumFunctionOnSet(h, S \union T) = SumFunctionOnSet(h, S) + SumFunctionOnSet(h, T)
    BY <2>1, SumOfUnion
  <2>4. SumFunctionOnSet(h, S) = SumFunctionOnSet(f, S) /\ SumFunctionOnSet(h, T) = SumFunctionOnSet(g, T)
    BY <2>1, SumCongruence
  <2>5. SumFunction(h) = SumFunction(f) + SumFunction(g)
    BY <2>2, <2>3, <2>4 DEF SumFunction
  <2>. QED  BY <2>5 DEF Credited, f, g, h
<1>. QED  BY <1>2, <1>3

(* What a commit writes. *)
LEMMA CommitOf ==
  ASSUME TypeInv, NEW r \in Requests, Commit(r)
  PROVE  LET rc == input[r].receipt IN
         /\ pc[r] = "commit" /\ input[r].kind \in {"CREATE", "ALLOCATE", "REVERSE", "PAY"}
         /\ rc \in ReceiptIds
         /\ pc'[r] = "done" /\ tx'[r] = Fresh /\ input' = input
         /\ \A q \in Requests \ {r} : pc'[q] = pc[q] /\ tx'[q] = tx[q]
         /\ allocations' = Visible(r) /\ journals' = journals \union tx[r].draft
         /\ receivable'[rc] = receivable[rc] + Cleared(tx[r].draft)
         /\ deposits'[rc] = deposits[rc] + Credited(tx[r].draft)
         /\ input[r].kind \in {"CREATE", "ALLOCATE"} =>
              receiptStatus'[rc] \in {"RECEIVED", "PARTIALLY_ALLOCATED", "ALLOCATED"}
         /\ input[r].kind = "REVERSE" => receiptStatus'[rc] = "REVERSED" /\ unallocated'[rc] = 0
         /\ input[r].kind = "PAY" => receiptStatus'[rc] = receiptStatus[rc]
         /\ \A sc \in ReceiptIds \ {rc} :
              /\ receiptStatus'[sc] = receiptStatus[sc] /\ unallocated'[sc] = unallocated[sc]
              /\ receivable'[sc] = receivable[sc] /\ deposits'[sc] = deposits[sc]
<1>. DEFINE rc == input[r].receipt
            kind == input[r].kind
<1>1. pc[r] = "commit" /\ rc \in ReceiptIds
  BY BodyType DEF Commit, TypeInv, StateOK, InputType
<1>2. kind \in {"CREATE", "ALLOCATE", "REVERSE", "PAY"}
  BY <1>1, AtStep DEF OnPath, PathOf, Kinds, Ends, Allocating
<1>3. Answer(r, "done")
  BY DEF Commit
<1>4. /\ pc'[r] = "done" /\ tx'[r] = Fresh /\ input' = input
      /\ \A q \in Requests \ {r} : pc'[q] = pc[q] /\ tx'[q] = tx[q]
  BY <1>3, AnswerMoves, MoveOf
<1>5. /\ allocations' = Visible(r) /\ journals' = journals \union tx[r].draft
      /\ receivable' = [receivable EXCEPT ![rc] = @ + Cleared(tx[r].draft)]
      /\ deposits' = [deposits EXCEPT ![rc] = @ + Credited(tx[r].draft)]
  BY DEF Commit, PublishJournals, Credited, Cleared
<1>6. \E status, left :
        /\ receiptStatus' = [receiptStatus EXCEPT ![rc] = status]
        /\ unallocated' = [unallocated EXCEPT ![rc] = left]
        /\ kind = "REVERSE" => status = "REVERSED" /\ left = 0
        /\ kind = "PAY" => status = receiptStatus[rc]
        /\ kind \in {"CREATE", "ALLOCATE"} => status = StatusAt(rc, tx[r].allocated)
  BY <1>2 DEF Commit, PublishReceipt
<1>7. StatusAt(rc, tx[r].allocated) \in {"RECEIVED", "PARTIALLY_ALLOCATED", "ALLOCATED"}
  BY DEF StatusAt
<1>8. /\ DOMAIN receiptStatus = ReceiptIds /\ DOMAIN unallocated = ReceiptIds
      /\ DOMAIN deposits = ReceiptIds /\ DOMAIN receivable = ReceiptIds
      /\ receiptStatus = [sc \in ReceiptIds |-> receiptStatus[sc]]
      /\ unallocated = [sc \in ReceiptIds |-> unallocated[sc]]
      /\ deposits = [sc \in ReceiptIds |-> deposits[sc]]
      /\ receivable = [sc \in ReceiptIds |-> receivable[sc]]
  BY DEF TypeInv, StateOK, TypeOK
<1>. HIDE DEF rc, kind
<1>9. /\ receivable'[rc] = receivable[rc] + Cleared(tx[r].draft)
      /\ deposits'[rc] = deposits[rc] + Credited(tx[r].draft)
      /\ \A sc \in ReceiptIds \ {rc} : receivable'[sc] = receivable[sc] /\ deposits'[sc] = deposits[sc]
  BY <1>1, <1>5, <1>8
<1>10. /\ kind \in {"CREATE", "ALLOCATE"} =>
            receiptStatus'[rc] \in {"RECEIVED", "PARTIALLY_ALLOCATED", "ALLOCATED"}
       /\ kind = "REVERSE" => receiptStatus'[rc] = "REVERSED" /\ unallocated'[rc] = 0
       /\ kind = "PAY" => receiptStatus'[rc] = receiptStatus[rc]
       /\ \A sc \in ReceiptIds \ {rc} : /\ receiptStatus'[sc] = receiptStatus[sc]
                                        /\ unallocated'[sc] = unallocated[sc]
  BY <1>1, <1>6, <1>7, <1>8
<1>. QED  BY <1>1, <1>2, <1>4, <1>5, <1>9, <1>10 DEF rc, kind

(* The entries of a receipt after a commit of that receipt or of another. *)
LEMMA EntriesAfter ==
  ASSUME TypeInv, LedgerInv, NEW r \in Requests, Commit(r), NEW rc \in ReceiptIds
  PROVE  /\ EntriesOf(rc)' = IF rc = input[r].receipt THEN EntriesOf(rc) \union tx[r].draft
                                                      ELSE EntriesOf(rc)
         /\ EntriesOf(rc) \intersect tx[r].draft = {}
         /\ EntriesOf(rc) \subseteq EntryType /\ IsFiniteSet(EntriesOf(rc))
<1>1. journals' = journals \union tx[r].draft
  BY CommitOf
<1>2. \A d \in tx[r].draft : d.receipt = input[r].receipt /\ \A e \in journals : ~SameReference(d, e)
  BY DEF LedgerInv, DraftIsNew
<1>3. EntriesOf(rc) \subseteq journals /\ IsFiniteSet(EntriesOf(rc)) /\ EntriesOf(rc) \subseteq EntryType
  BY FS_Subset DEF EntriesOf, LedgerInv, TypeInv, StateOK
<1>4. EntriesOf(rc) \intersect tx[r].draft = {}
  BY <1>2, <1>3 DEF SameReference
<1>5. EntriesOf(rc)' = {e \in journals \union tx[r].draft : e.receipt = rc}
  BY <1>1 DEF EntriesOf
<1>. QED  BY <1>2, <1>3, <1>4, <1>5 DEF EntriesOf

LEMMA LedgerAfterCommit ==
  ASSUME TypeInv, LedgerInv, NEW r \in Requests, Commit(r)
  PROVE  LedgerInv'
<1>. DEFINE rc == input[r].receipt
            draft == tx[r].draft
<1>1. /\ journals' = journals \union draft /\ tx'[r] = Fresh /\ input' = input
      /\ \A q \in Requests \ {r} : tx'[q] = tx[q]
      /\ rc \in ReceiptIds
      /\ receivable'[rc] = receivable[rc] + Cleared(draft) /\ deposits'[rc] = deposits[rc] + Credited(draft)
      /\ \A sc \in ReceiptIds \ {rc} : receivable'[sc] = receivable[sc] /\ deposits'[sc] = deposits[sc]
  BY CommitOf
<1>2. Fresh.draft = {}
  BY DEF Fresh
<1>3. IsFiniteSet(draft) /\ draft \subseteq EntryType
  BY AtStep DEF TxType
<1>4. IsFiniteSet(journals')
  BY <1>1, <1>3, FS_Union DEF LedgerInv
<1>5. ASSUME NEW q \in Requests PROVE DraftIsNew(q)'
  <2>1. CASE q = r
    BY <1>1, <1>2, <2>1 DEF DraftIsNew
  <2>2. CASE q # r
    <3>1. \A p \in Requests \ {q} : tx'[p].draft \subseteq tx[p].draft
      BY <1>1, <1>2
    <3>2. DraftIsNew(q)
      BY DEF LedgerInv
    <3>3. ASSUME NEW d \in tx[q].draft, NEW e \in journals \union draft PROVE ~SameReference(d, e)
      BY <2>2, <3>2, <3>3 DEF DraftIsNew
    <3>. QED  BY <1>1, <2>2, <3>1, <3>2, <3>3 DEF DraftIsNew
  <2>. QED  BY <2>1, <2>2
<1>6. ASSUME NEW sc \in ReceiptIds
      PROVE  receivable'[sc] = Cleared(EntriesOf(sc))' /\ deposits'[sc] = Credited(EntriesOf(sc))'
  <2>1. receivable[sc] = Cleared(EntriesOf(sc)) /\ deposits[sc] = Credited(EntriesOf(sc))
    BY DEF LedgerInv, AccountsAreEntries
  <2>2. Cleared(EntriesOf(sc))' = Cleared(EntriesOf(sc)') /\ Credited(EntriesOf(sc))' = Credited(EntriesOf(sc)')
    BY DEF Cleared, Credited, ReceivableLine, DepositLine
  <2>3. CASE sc # rc
    <3>1. EntriesOf(sc)' = EntriesOf(sc)
      BY <2>3, EntriesAfter
    <3>. QED  BY <1>1, <2>1, <2>2, <2>3, <3>1
  <2>4. CASE sc = rc
    <3>. DEFINE S == EntriesOf(sc)
    <3>1. /\ EntriesOf(sc)' = S \union draft /\ S \intersect draft = {}
          /\ S \subseteq EntryType /\ IsFiniteSet(S)
      BY <2>4, EntriesAfter
    <3>. HIDE DEF S, draft
    <3>2. Cleared(S \union draft) = Cleared(S) + Cleared(draft)
          /\ Credited(S \union draft) = Credited(S) + Credited(draft)
      BY <1>3, <3>1, LinesUnion
    <3>3. receivable[sc] = Cleared(S) /\ deposits[sc] = Credited(S)
      BY <2>1 DEF S
    <3>4. Cleared(EntriesOf(sc))' = Cleared(S \union draft) /\ Credited(EntriesOf(sc))' = Credited(S \union draft)
      BY <2>2, <3>1
    <3>5. /\ receivable'[sc] = receivable[sc] + Cleared(draft)
          /\ deposits'[sc] = deposits[sc] + Credited(draft)
      BY <1>1, <2>4 DEF draft
    <3>. QED  BY <3>2, <3>3, <3>4, <3>5
  <2>. QED  BY <2>3, <2>4
<1>7. AccountsAreEntries'
  BY <1>6 DEF AccountsAreEntries
<1>. QED  BY <1>4, <1>5, <1>7 DEF LedgerInv

LEMMA FormAfterCommit ==
  ASSUME TypeInv, LedgerInv, FormInv, ReversedUnrefunded, NEW r \in Requests, Commit(r)
  PROVE  FormInv'
<1>. DEFINE draft == tx[r].draft
<1>1. /\ journals' = journals \union draft /\ tx'[r] = Fresh /\ input' = input
      /\ \A q \in Requests \ {r} : tx'[q] = tx[q]
  BY CommitOf
<1>2. Fresh.draft = {}
  BY DEF Fresh
<1>3. DraftIsNew(r) /\ DraftIsOf(r) /\ JournalIsSound
  BY DEF LedgerInv, FormInv
<1>4. ASSUME NEW q \in Requests PROVE DraftIsOf(q)'
  <2>1. CASE q = r
    BY <1>1, <1>2, <2>1 DEF DraftIsOf
  <2>2. CASE q # r
    BY <1>1, <2>2 DEF FormInv, DraftIsOf
  <2>. QED  BY <2>1, <2>2
<1>5. ASSUME NEW e \in draft PROVE e.type = "RECEIPT" => e.about = e.receipt
  <2>1. \A k : PartEntry(input[r], k).type # "RECEIPT"
    BY DEF PartEntry, AllocationEntry
  <2>2. \A o \in journals : o.type \in Originals => ReversalOf(o).type # "RECEIPT"
    BY ReversalFields DEF TypeInv, StateOK, Originals
  <2>. QED  BY <1>3, <2>1, <2>2 DEF DraftIsOf
<1>6. ASSUME NEW d \in journals \union draft, NEW e \in journals \union draft,
             d.type = "RECEIPT", SameReference(d, e)
      PROVE  d = e
  <2>1. SameReference(e, d)
    BY <1>6 DEF SameReference
  <2>. QED  BY <1>3, <1>6, <2>1 DEF JournalIsSound, DraftIsNew
<1>7. ASSUME NEW d \in draft, d.type \in Reversals
      PROVE  \E e \in journals : e.type \in Originals /\ d = ReversalOf(e)
  <2>1. \A k : PartEntry(input[r], k).type \notin Reversals
    BY DEF PartEntry, AllocationEntry, Reversals
  <2>. QED  BY <1>3, <1>7, <2>1 DEF DraftIsOf, Reversals
<1>8. ASSUME NEW e \in draft, e.type = "REFUND", NEW q \in Requests, input[q].kind = "REVERSE"
      PROVE  input[q].receipt # e.receipt
  <2>1. \A k : PartEntry(input[r], k).type # "REFUND"
    BY DEF PartEntry, AllocationEntry
  <2>2. \A o \in journals : o.type \in Originals => ReversalOf(o).type # "REFUND"
    BY ReversalFields DEF TypeInv, StateOK, Originals
  <2>3. input[r].kind = "PAY"
    BY <1>3, <1>8, <2>1, <2>2 DEF DraftIsOf
  <2>4. e.receipt = input[r].receipt /\ input \in Workloads
    BY <1>3 DEF DraftIsNew, TypeInv, StateOK
  <2>. QED  BY <1>8, <2>3, <2>4 DEF ReversedUnrefunded
<1>9. JournalIsSound'
  <2>. HIDE DEF draft
  <2>1. \A e \in journals \union draft : e.type = "RECEIPT" => e.about = e.receipt
    BY <1>3, <1>5 DEF JournalIsSound
  <2>2. \A d \in journals \union draft : d.type \in Reversals =>
          \E e \in journals \union draft : e.type \in Originals /\ d = ReversalOf(e)
    BY <1>3, <1>7 DEF JournalIsSound
  <2>3. \A e \in journals \union draft : e.type = "REFUND" =>
          \A q \in Requests : input[q].kind = "REVERSE" => input[q].receipt # e.receipt
    BY <1>3, <1>8 DEF JournalIsSound
  <2>. QED  BY <1>1, <1>6, <2>1, <2>2, <2>3 DEF JournalIsSound
<1>. QED  BY <1>4, <1>9 DEF FormInv

(* Every step keeps the accounts to the entries and the entries to their form. *)
LEMMA NextLedgerInv ==
  ASSUME TypeInv, LedgerInv, FormInv, UndoInv, ReversedUnrefunded,
         NEW r \in Requests, Submit(r) \/ Step(r) \/ Abort(r)
  PROVE  LedgerInv' /\ FormInv'
<1>1. CASE Commit(r)
  BY <1>1, LedgerAfterCommit, FormAfterCommit
<1>2. ASSUME UNCHANGED <<journals, receivable, deposits, input>>, \A q \in Requests : DraftIsNew(q)' /\ DraftIsOf(q)'
      PROVE  LedgerInv' /\ FormInv'
  <2>1. AccountsAreEntries'
    BY <1>2 DEF LedgerInv, AccountsAreEntries, EntriesOf, Cleared, Credited, ReceivableLine, DepositLine
  <2>2. JournalIsSound'
    BY <1>2 DEF FormInv, JournalIsSound, SameReference, ReversalOf
  <2>. QED  BY <1>2, <2>1, <2>2 DEF LedgerInv, FormInv
<1>3. CASE ~Writes(r)
  <2>1. input' = input /\ UNCHANGED money
    BY <1>3, OthersStay
  <2>. QED  BY <1>2, <1>3, <2>1, NextDrafts DEF money
<1>4. CASE InsertRefund(r) \/ Decide(r)
  <2>1. Answer(r, "done") /\ UNCHANGED <<journals, receivable, deposits>>
    BY <1>4 DEF InsertRefund, Decide, SetRefund
  <2>2. /\ tx'[r] = Fresh /\ input' = input
        /\ \A q \in Requests \ {r} : tx'[q] = tx[q]
    BY <2>1, AnswerMoves, MoveOf
  <2>3. Fresh.draft = {}
    BY DEF Fresh
  <2>4. \A q \in Requests : DraftIsNew(q) /\ DraftIsOf(q)
    BY DEF LedgerInv, FormInv
  <2>5. ASSUME NEW q \in Requests PROVE DraftIsNew(q)' /\ DraftIsOf(q)'
    <3>1. CASE q = r
      BY <2>2, <2>3, <3>1 DEF DraftIsNew, DraftIsOf
    <3>2. CASE q # r
      <4>1. \A p \in Requests : tx'[p].draft \subseteq tx[p].draft
        BY <2>2, <2>3
      <4>2. DraftIsNew(q)'
        BY <2>1, <2>2, <2>4, <3>2, <4>1 DEF DraftIsNew
      <4>3. DraftIsOf(q)'
        BY <2>1, <2>2, <2>4, <3>2 DEF DraftIsOf
      <4>. QED  BY <4>2, <4>3
    <3>. QED  BY <3>1, <3>2
  <2>. QED  BY <1>2, <2>1, <2>2, <2>5
<1>. QED  BY <1>1, <1>3, <1>4 DEF Writes

(* A request that fails leaves nothing to hold it to. *)
LEMMA NothingHeld ==
  ASSUME TypeInv, NEW r \in Requests, pc'[r] \in Ends, tx'[r] = Fresh, input' = input
  PROVE  Stands(r)' /\ PartsArePosted(r)' /\ UndoesAll(r)'
<1>1. Fresh.n = 0 /\ Fresh.list = {} /\ Fresh.gone = {}
  BY DEF Fresh
<1>2. /\ pc'[r] \notin Spending \union Undoing
      /\ pc'[r] \notin {"listRows", "markReversed", "closeReversal", "commit"}
  BY DEF Ends, Spending, Undoing, Allocating, Closing
<1>3. Stands(r)'
  BY <1>2 DEF Stands
<1>4. PartsArePosted(r)'
  <2>1. \A k \in 1..tx'[r].n : FALSE
    BY <1>1
  <2>. QED  BY <2>1 DEF PartsArePosted
<1>5. UndoesAll(r)'
  BY <1>1, <1>2 DEF UndoesAll
<1>. QED  BY <1>3, <1>4, <1>5

LEMMA NextStands ==
  ASSUME TypeInv, UndoInv, NEW r \in Requests, Submit(r) \/ Step(r) \/ Abort(r), ~Writes(r), ~Rollback(r),
         ~ (pc'[r] = "failed" /\ tx'[r] = Fresh)
  PROVE  Stands(r)'
<1>. DEFINE rc == input[r].receipt
<1>1. input' = input /\ receiptStatus' = receiptStatus
  BY OthersStay DEF money
<1>2. Stands(r)
  BY DEF UndoInv
<1>3. ASSUME input[r].kind = "CREATE", pc'[r] \notin Ends PROVE ~Exists(rc)
  <2>1. CASE pc[r] \notin Ends
    BY <1>2, <1>3, <2>1 DEF Stands
  <2>2. CASE pc[r] \in Ends
    <3>1. Submit(r)
      BY <2>2, EndedStays, IdleSubmits DEF Ends
    <3>. QED  BY <1>3, <3>1 DEF Submit, FreshId
  <2>. QED  BY <2>1, <2>2
<1>4. ASSUME input[r].kind = "ALLOCATE", pc'[r] \in Spending PROVE Standing(rc)
  <2>1. CASE ReadReceipt(r)
    BY <1>4, <2>1 DEF ReadReceipt, Read
  <2>2. CASE ~ReadReceipt(r)
    <3>1. Spends(r)'
      BY <1>1, <1>4, AtStep DEF Spends, Allocates
    <3>2. pc[r] \in Spending
      BY <2>2, <3>1, SpendingSteps DEF Spends
    <3>. QED  BY <1>2, <1>4, <3>2 DEF Stands
  <2>. QED  BY <2>1, <2>2
<1>5. ASSUME input[r].kind = "REVERSE", pc'[r] \in {"listRows"} \union Undoing PROVE Exists(rc)
  <2>1. UndoMoves(r)
    BY <1>5, UndoSteps
  <2>2. Standing(rc) \/ pc[r] \in {"listRows"} \union Undoing
    BY <1>5, <2>1 DEF UndoMoves, Listed, Deleted, Unposted, ReceiptUnposted, Undoing
  <2>. QED  BY <1>2, <1>5, <2>2 DEF Stands, Standing, Exists
<1>. QED  BY <1>1, <1>3, <1>4, <1>5 DEF Stands, Exists, Standing

LEMMA NextPartsArePosted ==
  ASSUME TypeInv, UndoInv, NEW r \in Requests, Submit(r) \/ Step(r) \/ Abort(r), ~Writes(r), ~Rollback(r),
         ~ (pc'[r] = "failed" /\ tx'[r] = Fresh), Allocates(input[r])
  PROVE  PartsArePosted(r)'
<1>1. input' = input /\ journals' = journals
  BY OthersStay DEF money
<1>2. /\ tx[r].n \in Nat /\ tx'[r].n \in {tx[r].n, tx[r].n + 1}
      /\ ~Inserts(r) => tx'[r].n = tx[r].n
  BY PartsNotFewer DEF Allocates
<1>3. \A k \in 1..tx[r].n : ~ (k = tx[r].n /\ pc[r] \in Posting) => PartEntry(input[r], k) \in Entries(r)
  BY DEF UndoInv, PartsArePosted
<1>4. Entries(r) \subseteq Entries(r)'
  <2>1. tx'[r].draft = tx[r].draft \/ \E e : tx'[r].draft = tx[r].draft \union {e}
    BY DraftSteps DEF Drafts
  <2>. QED  BY <1>1, <2>1 DEF Entries
<1>5. ASSUME NEW k \in 1..tx'[r].n, ~ (k = tx'[r].n /\ pc'[r] \in Posting)
      PROVE  PartEntry(input[r], k) \in Entries(r)'
  <2>1. CASE Inserts(r)
    <3>1. /\ pc[r] \notin Posting /\ tx'[r].n = tx[r].n + 1
          /\ pc'[r] \in Posting \/ PartEntry(input[r], tx[r].n + 1) \in Entries(r)
      <4>1. tx[r] \in TxType
        BY AtStep
      <4>. QED  BY <2>1, <4>1 DEF Inserts, Posting, TxType
    <3>2. CASE k = tx[r].n + 1
      BY <1>4, <1>5, <3>1, <3>2
    <3>3. CASE k # tx[r].n + 1
      <4>1. k \in 1..tx[r].n
        BY <1>2, <3>1, <3>3
      <4>. QED  BY <1>3, <1>4, <3>1, <4>1
    <3>. QED  BY <3>2, <3>3
  <2>2. CASE ~Inserts(r)
    <3>1. tx'[r].n = tx[r].n /\ k \in 1..tx[r].n
      BY <1>2, <2>2
    <3>2. CASE ~ (k = tx[r].n /\ pc[r] \in Posting)
      BY <1>3, <1>4, <3>1, <3>2
    <3>3. CASE k = tx[r].n /\ pc[r] \in Posting
      <4>1. pc[r] = "postAllocation" /\ tx'[r].draft # tx[r].draft
        <5>1. pc'[r] \notin Posting
          BY <1>5, <3>1, <3>3
        <5>. QED  BY <3>3, <5>1, PostingSteps DEF Posting
      <4>2. PICK e : Drafts(r, e)
        BY <4>1, DraftSteps
      <4>3. e = PartEntry(input[r], k) /\ e \in tx'[r].draft
        BY <3>3, <4>1, <4>2 DEF Drafts
      <4>. QED  BY <4>3 DEF Entries
    <3>. QED  BY <3>2, <3>3
  <2>. QED  BY <2>1, <2>2
<1>. QED  BY <1>1, <1>5 DEF PartsArePosted

LEMMA NextUndoesAll ==
  ASSUME TypeInv, UndoInv, NEW r \in Requests, Submit(r) \/ Step(r) \/ Abort(r), ~Writes(r),
         ~ (pc'[r] = "failed" /\ tx'[r] = Fresh), input[r].kind = "REVERSE"
  PROVE  UndoesAll(r)'
<1>. DEFINE rc == input[r].receipt
            t == tx[r]
<1>1. /\ input' = input /\ journals' = journals /\ allocations' = allocations
      /\ receiptStatus' = receiptStatus
  BY OthersStay DEF money
<1>2. UndoMoves(r)
  BY UndoSteps
<1>3. UndoesAll(r)
  BY DEF UndoInv
<1>4. rc \in ReceiptIds /\ tx[r] \in TxType
  BY AtStep
<1>5. ASSUME ~Reversed(rc)
      PROVE  /\ \A e \in journals : e.receipt = rc => e.type \notin Reversals
             /\ \A a \in RowsOf(allocations, rc) : AllocationEntry(a) \in journals
  BY <1>4, <1>5 DEF UndoInv, Kept, EntriesOf
<1>6. tx'[r].draft = tx[r].draft \/ \E e : tx'[r].draft = tx[r].draft \union {e}
  BY DraftSteps DEF Drafts
<1>7. \A a \in tx'[r].list : a.receipt = rc
  BY <1>2, <1>3 DEF UndoMoves, Same, Listed, Deleted, Unposted, ReceiptUnposted, UndoesAll, RowsOf
<1>8. pc'[r] \notin Undoing => tx'[r].gone = {}
  BY <1>2, <1>3 DEF UndoMoves, Same, Listed, Deleted, Unposted, ReceiptUnposted, UndoesAll, Undoing
<1>9. ASSUME pc'[r] \in Undoing, ~Reversed(rc)
      PROVE  IF pc'[r] = "deleteRows"
             THEN tx'[r].list = RowsOf(allocations, rc)
             ELSE /\ tx'[r].gone = RowsOf(allocations, rc)
                  /\ \A a \in tx'[r].gone \ tx'[r].list : ReversalOf(AllocationEntry(a)) \in tx'[r].draft
                  /\ pc'[r] \notin {"reverseAllocation", "increment"} => tx'[r].list = {}
  <2>0. pc[r] \in Undoing =>
          IF pc[r] = "deleteRows"
          THEN t.list = RowsOf(allocations, rc)
          ELSE /\ t.gone = RowsOf(allocations, rc)
               /\ \A a \in t.gone \ t.list : ReversalOf(AllocationEntry(a)) \in t.draft
               /\ pc[r] \notin {"reverseAllocation", "increment"} => t.list = {}
    BY <1>3, <1>9 DEF UndoesAll
  <2>1. CASE Listed(r)
    <3>1. tx[r].gone = {}
      BY <1>3, <2>1 DEF Listed, UndoesAll, Undoing
    <3>. QED  BY <2>1, <3>1 DEF Listed
  <2>2. CASE Deleted(r)
    BY <2>0, <2>2 DEF Deleted, Undoing
  <2>3. CASE Unposted(r)
    <3>. DEFINE e(a) == AllocationEntry(a)
    <3>1. PICK a \in t.list :
            /\ pc[r] = "reverseAllocation"
            /\ tx'[r].list = t.list \ {a} /\ tx'[r].gone = t.gone
            /\ IF e(a) \in Entries(r) /\ ReversalOf(e(a)) \notin Entries(r)
               THEN pc'[r] = "increment" /\ tx'[r].draft = t.draft \union {ReversalOf(e(a))}
               ELSE /\ pc'[r] = IF tx'[r].list = {} THEN "recompute" ELSE "reverseAllocation"
                    /\ tx'[r].draft = t.draft
      BY <2>3 DEF Unposted
    <3>2. /\ t.gone = RowsOf(allocations, rc)
          /\ \A b \in t.gone \ t.list : ReversalOf(e(b)) \in t.draft
      BY <2>0, <3>1 DEF Undoing
    <3>3. ASSUME a \in t.gone PROVE ReversalOf(e(a)) \in tx'[r].draft
      <4>1. a \in RowsOf(allocations, rc) /\ e(a) \in journals
        BY <1>5, <1>9, <3>2, <3>3
      <4>2. e(a) \in EntryType /\ e(a).type \in Originals /\ e(a).receipt = rc
        BY <4>1 DEF TypeInv, StateOK, AllocationEntry, Originals, RowsOf
      <4>. HIDE DEF e
      <4>3. ReversalOf(e(a)) \notin journals
        BY <1>5, <1>9, <4>2, ReversalFields
      <4>. QED  BY <3>1, <4>1, <4>3 DEF Entries
    <3>. HIDE DEF e
    <3>4. \A b \in tx'[r].gone \ tx'[r].list : ReversalOf(e(b)) \in tx'[r].draft
      BY <3>1, <3>2, <3>3
    <3>5. pc'[r] # "deleteRows" /\ (pc'[r] \notin {"reverseAllocation", "increment"} => tx'[r].list = {})
      BY <3>1
    <3>. QED  BY <3>1, <3>2, <3>4, <3>5 DEF e
  <2>4. CASE /\ tx'[r].list = t.list /\ tx'[r].gone = t.gone
             /\ pc[r] \in Undoing \ {"deleteRows"} /\ pc'[r] # "deleteRows"
             /\ pc'[r] \in {"reverseAllocation", "increment"} \/ t.list = {}
    BY <1>6, <2>0, <2>4
  <2>5. CASE ReceiptUnposted(r)
    <3>1. /\ tx'[r].list = t.list /\ tx'[r].gone = t.gone
          /\ pc[r] = "reverseReceipt" /\ pc'[r] = "markReversed"
      BY <2>5 DEF ReceiptUnposted
    <3>. QED  BY <2>0, <2>4, <3>1 DEF Undoing
  <2>6. ASSUME Same(r), pc[r] \in Undoing \ {"deleteRows"}, pc'[r] # "deleteRows",
               \/ pc[r] \notin {"reverseAllocation", "increment"}
               \/ pc[r] = "increment" /\ pc'[r] = IF t.list = {} THEN "recompute" ELSE "reverseAllocation"
        PROVE  /\ tx'[r].gone = RowsOf(allocations, rc)
               /\ \A a \in tx'[r].gone \ tx'[r].list : ReversalOf(AllocationEntry(a)) \in tx'[r].draft
               /\ pc'[r] \notin {"reverseAllocation", "increment"} => tx'[r].list = {}
    <3>1. pc'[r] \in {"reverseAllocation", "increment"} \/ t.list = {}
      BY <2>0, <2>6
    <3>. QED  BY <2>0, <2>6, <3>1 DEF Same
  <2>7. \/ Listed(r) \/ Deleted(r) \/ Unposted(r) \/ ReceiptUnposted(r)
        \/ /\ Same(r)
           /\ pc[r] \in Undoing \ {"deleteRows"} /\ pc'[r] # "deleteRows"
           /\ \/ pc[r] \notin {"reverseAllocation", "increment"}
              \/ pc[r] = "increment" /\ pc'[r] = IF t.list = {} THEN "recompute" ELSE "reverseAllocation"
    BY <1>2, <1>9 DEF UndoMoves, Undoing
  <2>. QED  BY <2>1, <2>2, <2>3, <2>5, <2>6, <2>7
<1>10. ASSUME pc'[r] = "markReversed" PROVE \E d \in Entries(r)' : Reverses(d, rc)
  <2>1. ReceiptUnposted(r)
    BY <1>2, <1>10 DEF UndoMoves, Listed, Deleted, Unposted
  <2>2. PICK e \in Entries(r) :
          /\ e.type = "RECEIPT" /\ e.receipt = rc
          /\ tx'[r].draft = IF ReversalOf(e) \in Entries(r) THEN tx[r].draft
                                                            ELSE tx[r].draft \union {ReversalOf(e)}
    BY <2>1 DEF ReceiptUnposted
  <2>3. e \in EntryType
    BY EntryIs
  <2>4. Reverses(ReversalOf(e), rc)
    BY <2>2, <2>3, ReversalFields DEF Reverses, Originals
  <2>5. ReversalOf(e) \in Entries(r)'
    BY <1>1, <2>2 DEF Entries
  <2>. QED  BY <2>4, <2>5
<1>11. ASSUME pc'[r] \in {"closeReversal", "commit"} PROVE \E d \in tx'[r].draft : Reverses(d, rc)
  <2>1. \/ pc[r] = "markReversed" /\ Standing(rc) /\ Same(r)
        \/ pc[r] = "closeReversal" /\ Same(r)
    BY <1>2, <1>11 DEF UndoMoves, Listed, Deleted, Unposted, ReceiptUnposted
  <2>2. CASE pc[r] = "markReversed" /\ Standing(rc)
    <3>1. PICK d \in Entries(r) : Reverses(d, rc)
      BY <1>3, <2>2 DEF UndoesAll
    <3>2. d \notin journals
      BY <1>5, <2>2, <3>1 DEF Reverses, Reversals, Standing, Reversed
    <3>. QED  BY <2>1, <3>1, <3>2 DEF Entries, Same
  <2>3. CASE pc[r] = "closeReversal"
    BY <1>3, <2>1, <2>3 DEF UndoesAll, Same
  <2>. QED  BY <2>1, <2>2, <2>3
<1>12. /\ Reversed(rc)' = Reversed(rc)
       /\ RowsOf(allocations, rc)' = RowsOf(allocations, rc)
       /\ input'[r].receipt = rc /\ input'[r].kind = "REVERSE"
  BY <1>1 DEF Reversed, RowsOf
<1>. HIDE DEF rc, t
<1>. QED  BY <1>1, <1>7, <1>8, <1>9, <1>10, <1>11, <1>12 DEF UndoesAll, rc, Reversed, RowsOf, Reverses

(* The rows of a receipt after a commit of that receipt or of another. *)
LEMMA RowsAfter ==
  ASSUME TypeInv, NEW r \in Requests, Commit(r), NEW rc \in ReceiptIds
  PROVE  /\ rc # input[r].receipt => RowsOf(allocations, rc)' = RowsOf(allocations, rc)
         /\ rc = input[r].receipt /\ input[r].kind = "REVERSE" =>
              RowsOf(allocations, rc)' = RowsOf(allocations, rc) \ tx[r].gone
         /\ rc = input[r].receipt /\ input[r].kind # "REVERSE" =>
              RowsOf(allocations, rc)' = RowsOf(allocations, rc) \union OwnRows(r)
         /\ rc = input[r].receipt /\ input[r].kind = "PAY" =>
              RowsOf(allocations, rc)' = RowsOf(allocations, rc)
<1>1. /\ \A a \in tx[r].gone : a.receipt = input[r].receipt
      /\ input[r].kind # "REVERSE" => tx[r].gone = {}
      /\ input[r].kind \in {"REVERSE", "PAY"} => tx[r].n = 0
  BY AtStep DEF OnPath
<1>2. \A a \in OwnRows(r) : a.receipt = input[r].receipt
  BY DEF OwnRows
<1>3. input[r].kind \in {"REVERSE", "PAY"} => OwnRows(r) = {}
  BY <1>1, OwnRowsOf
<1>4. allocations' = (allocations \ tx[r].gone) \union OwnRows(r)
  BY CommitOf DEF Visible
<1>5. RowsOf(allocations, rc)' = {a \in (allocations \ tx[r].gone) \union OwnRows(r) : a.receipt = rc}
  BY <1>4 DEF RowsOf
<1>. QED  BY <1>1, <1>2, <1>3, <1>5 DEF RowsOf

(* Nobody commits to a receipt that was reversed. *)
LEMMA CommitsUnreversed ==
  ASSUME TypeInv, LedgerInv, FormInv, UndoInv, ReversedUnrefunded, NEW r \in Requests, Commit(r)
  PROVE  ~Reversed(input[r].receipt)
<1>. DEFINE rc == input[r].receipt
<1>1. pc[r] = "commit" /\ rc \in ReceiptIds /\ input[r].kind \in {"CREATE", "ALLOCATE", "REVERSE", "PAY"}
  BY CommitOf
<1>2. Stands(r) /\ UndoesAll(r) /\ (Reversed(rc) => Undone(rc))
  BY <1>1 DEF UndoInv
<1>3. CASE input[r].kind = "CREATE"
  BY <1>1, <1>2, <1>3 DEF Stands, Ends, Exists, Reversed
<1>4. CASE input[r].kind = "ALLOCATE"
  BY <1>1, <1>2, <1>4 DEF Stands, Spending, Closing, Standing, Reversed
<1>5. CASE input[r].kind = "PAY"
  <2>1. ASSUME Undone(rc) PROVE FALSE
    <3>1. PICK q \in Requests : input[q].kind = "REVERSE" /\ input[q].receipt = rc
      BY <2>1 DEF Undone
    <3>. QED  BY <1>5, <3>1 DEF ReversedUnrefunded, TypeInv, StateOK
  <2>. QED  BY <1>2, <2>1
<1>6. CASE input[r].kind = "REVERSE"
  <2>1. PICK d \in tx[r].draft : Reverses(d, rc)
    BY <1>1, <1>2, <1>6 DEF UndoesAll
  <2>2. PICK o \in journals : o.type \in Originals /\ d = ReversalOf(o)
    BY <1>6, <2>1 DEF FormInv, DraftIsOf, Allocates
  <2>. DEFINE OfReceipt(e) == e.type = "RECEIPT_REVERSAL" /\ e.receipt = rc /\ e.about = rc
  <2>3. ASSUME NEW e, Reverses(e, rc), NEW p \in journals, p.type \in Originals, e = ReversalOf(p)
        PROVE  OfReceipt(e)
    <3>1. p \in EntryType
      BY DEF TypeInv, StateOK
    <3>2. p.type = "RECEIPT" /\ p.receipt = rc /\ e.about = p.about
      BY <2>3, <3>1, ReversalFields DEF Reverses, Originals
    <3>3. p.about = p.receipt
      BY <3>2 DEF FormInv, JournalIsSound
    <3>. QED  BY <2>3, <3>2, <3>3 DEF Reverses
  <2>4. OfReceipt(d)
    BY <2>1, <2>2, <2>3
  <2>5. ASSUME NEW e \in journals, Reverses(e, rc) PROVE FALSE
    <3>1. PICK p \in journals : p.type \in Originals /\ e = ReversalOf(p)
      BY <2>5 DEF FormInv, JournalIsSound, Reverses, Reversals
    <3>2. OfReceipt(e)
      BY <2>3, <2>5, <3>1
    <3>3. SameReference(d, e)
      BY <2>4, <3>2 DEF SameReference
    <3>. QED  BY <2>1, <3>3 DEF LedgerInv, DraftIsNew
  <2>. QED  BY <1>2, <2>5 DEF Undone
<1>. QED  BY <1>1, <1>3, <1>4, <1>5, <1>6

(* A reversal that commits leaves no row and no entry that is not reversed. *)
LEMMA UndoneAfterCommit ==
  ASSUME TypeInv, LedgerInv, FormInv, UndoInv, ReversedUnrefunded, NEW r \in Requests, Commit(r),
         input[r].kind = "REVERSE", NEW rc \in ReceiptIds, rc = input[r].receipt
  PROVE  Undone(rc)'
<1>. DEFINE t == tx[r]
<1>1. /\ pc[r] = "commit" /\ journals' = journals \union t.draft /\ input' = input
      /\ unallocated'[rc] = 0
  BY CommitOf
<1>2. ~Reversed(rc) /\ Kept(rc)
  BY CommitsUnreversed DEF UndoInv
<1>3. /\ t.gone = RowsOf(allocations, rc) /\ \A a \in t.gone : ReversalOf(AllocationEntry(a)) \in t.draft
      /\ \E d \in t.draft : Reverses(d, rc)
  <2>1. UndoesAll(r)
    BY DEF UndoInv
  <2>2. /\ t.gone = RowsOf(allocations, rc) /\ t.list = {}
        /\ \A a \in t.gone \ t.list : ReversalOf(AllocationEntry(a)) \in t.draft
        /\ \E d \in t.draft : Reverses(d, rc)
    BY <1>1, <1>2, <2>1 DEF UndoesAll, Undoing
  <2>. QED  BY <2>2
<1>4. RowsOf(allocations, rc)' = {}
  BY <1>3, RowsAfter
<1>5. EntriesOf(rc)' = EntriesOf(rc) \union t.draft
  BY EntriesAfter
<1>6. \A o \in journals : o \in EntryType
  BY DEF TypeInv, StateOK
<1>7. \A d \in t.draft : \E o \in journals : o.type \in Originals /\ d = ReversalOf(o)
  BY DEF FormInv, DraftIsOf, Allocates
<1>8. PICK d \in t.draft : Reverses(d, rc)
  BY <1>3
<1>9. PICK o \in journals : o.type = "RECEIPT" /\ o.receipt = rc /\ o.about = rc /\ d = ReversalOf(o)
  <2>1. PICK o \in journals : o.type \in Originals /\ d = ReversalOf(o)
    BY <1>7
  <2>2. o.type = "RECEIPT" /\ o.receipt = rc
    BY <1>6, <1>8, <2>1, ReversalFields DEF Reverses, Originals
  <2>. QED  BY <2>1, <2>2 DEF FormInv, JournalIsSound
<1>10. ASSUME NEW e \in EntriesOf(rc)', e.type \in Originals PROVE ReversalOf(e) \in journals'
  <2>1. e \in EntriesOf(rc)
    <3>1. ASSUME e \in t.draft PROVE FALSE
      BY <1>6, <1>7, <1>10, <3>1, ReversalFields
    <3>. QED  BY <1>5, <3>1
  <2>2. CASE e.type = "ALLOCATION"
    <3>1. PICK a \in RowsOf(allocations, rc) : e = AllocationEntry(a)
      BY <1>2, <2>1, <2>2 DEF Kept
    <3>. QED  BY <1>1, <1>3, <3>1
  <2>3. CASE e.type = "RECEIPT"
    <3>1. e \in journals /\ e.receipt = rc /\ e.about = rc
      BY <2>1, <2>3 DEF EntriesOf, FormInv, JournalIsSound
    <3>2. SameReference(e, o)
      BY <1>9, <2>3, <3>1 DEF SameReference
    <3>3. e = o
      BY <2>3, <3>1, <3>2 DEF FormInv, JournalIsSound
    <3>. QED  BY <1>1, <1>8, <1>9, <3>3
  <2>. QED  BY <1>10, <2>2, <2>3 DEF Originals
<1>11. \E f \in journals' : Reverses(f, rc)
  BY <1>1, <1>8
<1>. QED  BY <1>1, <1>4, <1>10, <1>11 DEF Undone, Reverses

(* An allocation posts what it inserts, and posts nothing else. *)
LEMMA KeptAfterCommit ==
  ASSUME TypeInv, LedgerInv, FormInv, UndoInv, ReversedUnrefunded, NEW r \in Requests, Commit(r),
         input[r].kind # "REVERSE", NEW rc \in ReceiptIds, rc = input[r].receipt
  PROVE  Kept(rc)' /\ ~Reversed(rc)'
<1>1. /\ pc[r] = "commit" /\ journals' = journals \union tx[r].draft
      /\ input[r].kind \in {"CREATE", "ALLOCATE", "PAY"}
      /\ input[r].kind \in {"CREATE", "ALLOCATE"} =>
           receiptStatus'[rc] \in {"RECEIVED", "PARTIALLY_ALLOCATED", "ALLOCATED"}
      /\ input[r].kind = "PAY" => receiptStatus'[rc] = receiptStatus[rc]
  BY CommitOf
<1>2. ~Reversed(rc) /\ Kept(rc)
  BY CommitsUnreversed DEF UndoInv
<1>3. ~Reversed(rc)'
  BY <1>1, <1>2 DEF Reversed
<1>4. EntriesOf(rc)' = EntriesOf(rc) \union tx[r].draft
  BY EntriesAfter
<1>5. RowsOf(allocations, rc)' = RowsOf(allocations, rc) \union OwnRows(r)
  BY RowsAfter
<1>6. \A k : PartEntry(input[r], k).type = "ALLOCATION"
  BY DEF PartEntry, AllocationEntry
<1>7. \A d \in tx[r].draft : d.type \notin Reversals
  BY <1>1, <1>6 DEF FormInv, DraftIsOf, Reversals
<1>. DEFINE row(k) == [by |-> r, n |-> k, receipt |-> input[r].receipt,
                       invoice |-> input[r].parts[k].invoice, amount |-> input[r].parts[k].amount]
<1>8. \A k : AllocationEntry(row(k)) = PartEntry(input[r], k)
  BY DEF PartEntry, AllocationEntry
<1>9. OwnRows(r) = {row(k) : k \in 1..tx[r].n}
  BY DEF OwnRows
<1>. HIDE DEF row
<1>10. ASSUME NEW a \in OwnRows(r) PROVE AllocationEntry(a) \in journals'
  <2>1. Allocates(input[r])
    <3>1. input[r].kind = "PAY" => tx[r].n = 0
      BY AtStep DEF OnPath
    <3>2. input[r].kind = "PAY" => OwnRows(r) = {}
      BY <3>1, OwnRowsOf
    <3>. QED  BY <1>1, <3>2 DEF Allocates
  <2>2. PICK k \in 1..tx[r].n : a = row(k)
    BY <1>9
  <2>3. PartEntry(input[r], k) \in Entries(r)
    BY <1>1, <2>1 DEF UndoInv, PartsArePosted, Posting
  <2>. QED  BY <1>1, <1>8, <2>2, <2>3 DEF Entries
<1>11. ASSUME NEW d \in tx[r].draft, d.type = "ALLOCATION"
       PROVE  \E a \in OwnRows(r) : d = AllocationEntry(a)
  <2>1. PICK k \in 1..tx[r].n : d = PartEntry(input[r], k)
    BY <1>1, <1>11 DEF FormInv, DraftIsOf
  <2>. QED  BY <1>8, <1>9, <2>1
<1>12. /\ \A e \in EntriesOf(rc) : e.type \notin Reversals
       /\ \A a \in RowsOf(allocations, rc) : AllocationEntry(a) \in journals
       /\ \A e \in EntriesOf(rc) : e.type = "ALLOCATION" =>
            \E a \in RowsOf(allocations, rc) : e = AllocationEntry(a)
  BY <1>2 DEF Kept
<1>13. \A e \in EntriesOf(rc)' : e.type \notin Reversals
  BY <1>4, <1>7, <1>12
<1>14. \A a \in RowsOf(allocations, rc)' : AllocationEntry(a) \in journals'
  BY <1>1, <1>5, <1>10, <1>12
<1>15. \A e \in EntriesOf(rc)' : e.type = "ALLOCATION" =>
         \E a \in RowsOf(allocations, rc)' : e = AllocationEntry(a)
  BY <1>4, <1>5, <1>11, <1>12
<1>16. Kept(rc)'
  BY <1>13, <1>14, <1>15 DEF Kept, AllocationEntry
<1>. QED  BY <1>3, <1>16

(* Every receipt is kept or undone after a commit. *)
LEMMA ReceiptsAfterCommit ==
  ASSUME TypeInv, LedgerInv, FormInv, UndoInv, ReversedUnrefunded, NEW r \in Requests, Commit(r),
         NEW rc \in ReceiptIds
  PROVE  /\ IF Reversed(rc)' THEN Undone(rc)' ELSE Kept(rc)'
         /\ Reversed(rc) => Reversed(rc)'
<1>1. CASE rc = input[r].receipt /\ input[r].kind = "REVERSE"
  <2>1. Reversed(rc)'
    BY <1>1, CommitOf DEF Reversed
  <2>2. Undone(rc)'
    BY <1>1, UndoneAfterCommit
  <2>. QED  BY <2>1, <2>2
<1>2. CASE rc = input[r].receipt /\ input[r].kind # "REVERSE"
  <2>1. Kept(rc)' /\ ~Reversed(rc)'
    BY <1>2, KeptAfterCommit
  <2>. QED  BY <1>2, <2>1, CommitsUnreversed
<1>3. CASE rc # input[r].receipt
  <2>1. /\ receiptStatus'[rc] = receiptStatus[rc] /\ unallocated'[rc] = unallocated[rc]
        /\ input' = input /\ journals \subseteq journals'
    BY <1>3, CommitOf
  <2>2. EntriesOf(rc)' = EntriesOf(rc) /\ RowsOf(allocations, rc)' = RowsOf(allocations, rc)
    BY <1>3, EntriesAfter, RowsAfter
  <2>3. Reversed(rc)' = Reversed(rc)
    BY <2>1 DEF Reversed
  <2>4. CASE Reversed(rc)
    <3>1. Undone(rc)
      BY <2>4 DEF UndoInv
    <3>2. Undone(rc)'
      <4>1. RowsOf(allocations, rc)' = {} /\ unallocated'[rc] = 0
        BY <2>1, <2>2, <3>1 DEF Undone
      <4>2. \A e \in EntriesOf(rc)' : e.type \in Originals => ReversalOf(e) \in journals'
        BY <2>1, <2>2, <3>1 DEF Undone
      <4>3. \E d \in journals' : Reverses(d, rc)
        BY <2>1, <3>1 DEF Undone
      <4>4. \E q \in Requests : input'[q].kind = "REVERSE" /\ input'[q].receipt = rc
        BY <2>1, <3>1 DEF Undone
      <4>. QED  BY <4>1, <4>2, <4>3, <4>4 DEF Undone, Reverses
    <3>. QED  BY <2>3, <2>4, <3>2
  <2>5. CASE ~Reversed(rc)
    <3>1. Kept(rc)
      BY <2>5 DEF UndoInv
    <3>2. Kept(rc)'
      <4>1. \A e \in EntriesOf(rc)' : e.type \notin Reversals
        BY <2>2, <3>1 DEF Kept
      <4>2. \A a \in RowsOf(allocations, rc)' : AllocationEntry(a) \in journals'
        BY <2>1, <2>2, <3>1 DEF Kept
      <4>3. \A e \in EntriesOf(rc)' : e.type = "ALLOCATION" =>
              \E a \in RowsOf(allocations, rc)' : e = AllocationEntry(a)
        BY <2>2, <3>1 DEF Kept
      <4>. QED  BY <4>1, <4>2, <4>3 DEF Kept, AllocationEntry
    <3>. QED  BY <2>3, <2>5, <3>2
  <2>. QED  BY <2>4, <2>5
<1>. QED  BY <1>1, <1>2, <1>3

(* What the other requests have read stands after a commit. *)
LEMMA OthersAfterCommit ==
  ASSUME TypeInv, LedgerInv, FormInv, UndoInv, ReversedUnrefunded, ReversalsTakeTurns,
         NEW r \in Requests, Commit(r), NEW q \in Requests, q # r
  PROVE  Stands(q)' /\ PartsArePosted(q)' /\ UndoesAll(q)'
<1>. DEFINE rc == input[r].receipt
<1>1. /\ pc[r] = "commit" /\ rc \in ReceiptIds
      /\ input[r].kind \in {"CREATE", "ALLOCATE", "REVERSE", "PAY"}
      /\ input' = input /\ pc'[q] = pc[q] /\ tx'[q] = tx[q]
      /\ journals \subseteq journals'
      /\ input[r].kind \in {"CREATE", "ALLOCATE"} =>
           receiptStatus'[rc] \in {"RECEIVED", "PARTIALLY_ALLOCATED", "ALLOCATED"}
      /\ input[r].kind = "REVERSE" => receiptStatus'[rc] = "REVERSED"
      /\ input[r].kind = "PAY" => receiptStatus'[rc] = receiptStatus[rc]
      /\ \A sc \in ReceiptIds \ {rc} : receiptStatus'[sc] = receiptStatus[sc]
  BY CommitOf
<1>2. /\ Stands(r) /\ Stands(q) /\ PartsArePosted(q) /\ UndoesAll(q) /\ ReceiptCreatedOnce
  BY DEF UndoInv
<1>3. /\ input[r].kind = "CREATE" => ~Exists(rc)
      /\ input[r].kind = "ALLOCATE" => Standing(rc)
      /\ input[r].kind = "REVERSE" => Exists(rc)
  BY <1>1, <1>2 DEF Stands, Ends, Spending, Closing, Undoing
<1>4. pc[r] \in Spending /\ pc[r] \in Undoing /\ pc[r] # "idle"
  BY <1>1 DEF Spending, Closing, Undoing
<1>5. input[q].receipt \in ReceiptIds
  BY AtStep
<1>6. Stands(q)'
  <2>. DEFINE sc == input[q].receipt
  <2>1. ASSUME input[q].kind = "CREATE", pc[q] \notin Ends PROVE receiptStatus'[sc] = "ABSENT"
    <3>1. ~Exists(sc) /\ pc[q] # "idle"
      BY <1>2, <2>1 DEF Stands, Ends
    <3>2. sc = rc => input[r].kind = "PAY"
      BY <1>1, <1>2, <1>3, <1>4, <2>1, <3>1 DEF ReceiptCreatedOnce, Standing, Exists
    <3>. QED  BY <1>1, <1>5, <3>1, <3>2 DEF Exists
  <2>2. ASSUME input[q].kind = "ALLOCATE", pc[q] \in Spending PROVE receiptStatus'[sc] \notin {"ABSENT", "REVERSED"}
    <3>1. Standing(sc)
      BY <1>2, <2>2 DEF Stands
    <3>2. sc = rc => input[r].kind # "REVERSE"
      BY <1>4, <2>2 DEF ReversalsTakeTurns
    <3>. QED  BY <1>1, <1>5, <3>1, <3>2 DEF Standing
  <2>3. ASSUME input[q].kind = "REVERSE", pc[q] \in {"listRows"} \union Undoing PROVE receiptStatus'[sc] # "ABSENT"
    <3>1. Exists(sc)
      BY <1>2, <2>3 DEF Stands
    <3>. QED  BY <1>1, <1>5, <3>1 DEF Exists
  <2>. HIDE DEF sc
  <2>. QED  BY <1>1, <2>1, <2>2, <2>3 DEF Stands, Exists, Standing, sc
<1>7. Entries(q) \subseteq Entries(q)'
  BY <1>1 DEF Entries
<1>8. PartsArePosted(q)'
  BY <1>1, <1>2, <1>7 DEF PartsArePosted
<1>9. UndoesAll(q)'
  <2>. SUFFICES ASSUME input[q].kind = "REVERSE" PROVE UndoesAll(q)'
    BY <1>1 DEF UndoesAll
  <2>1. ASSUME NEW sc \in ReceiptIds, sc = input[q].receipt, pc[q] \in Undoing, ~Reversed(sc)'
        PROVE  ~Reversed(sc) /\ RowsOf(allocations, sc)' = RowsOf(allocations, sc)
    <3>1. ~Reversed(sc)
      BY <2>1, ReceiptsAfterCommit
    <3>2. Exists(sc)
      BY <1>2, <2>1 DEF Stands
    <3>3. sc = rc => input[r].kind = "PAY"
      <4>1. ASSUME sc = rc PROVE input[r].kind \notin {"CREATE", "ALLOCATE", "REVERSE"}
        BY <1>1, <1>3, <1>4, <2>1, <3>2, <4>1 DEF ReversalsTakeTurns, Reversed
      <4>. QED  BY <1>1, <4>1
    <3>. QED  BY <2>1, <3>1, <3>3, RowsAfter
  <2>. DEFINE sc == input[q].receipt
              t == tx[q]
  <2>2. pc[q] \in Undoing /\ ~(receiptStatus'[sc] = "REVERSED") =>
          /\ receiptStatus[sc] # "REVERSED"
          /\ {a \in allocations' : a.receipt = sc} = RowsOf(allocations, sc)
    <3>1. ASSUME NEW x \in ReceiptIds, x = sc, pc[q] \in Undoing, ~(receiptStatus'[x] = "REVERSED")
          PROVE  /\ receiptStatus[x] # "REVERSED"
                 /\ {a \in allocations' : a.receipt = x} = RowsOf(allocations, x)
      BY <2>1, <3>1 DEF Reversed, RowsOf
    <3>. QED  BY <1>5, <3>1
  <2>3. (\E d \in Entries(q) : Reverses(d, sc)) => \E d \in Entries(q)' : Reverses(d, sc)
    BY <1>7
  <2>4. /\ \A a \in t.list : a.receipt = sc
        /\ pc[q] \notin Undoing => t.gone = {}
        /\ pc[q] \in Undoing /\ receiptStatus[sc] # "REVERSED" =>
             IF pc[q] = "deleteRows"
             THEN t.list = RowsOf(allocations, sc)
             ELSE /\ t.gone = RowsOf(allocations, sc)
                  /\ \A a \in t.gone \ t.list : ReversalOf(AllocationEntry(a)) \in t.draft
                  /\ pc[q] \notin {"reverseAllocation", "increment"} => t.list = {}
        /\ pc[q] = "markReversed" => \E d \in Entries(q) : Reverses(d, sc)
        /\ pc[q] \in {"closeReversal", "commit"} => \E d \in t.draft : Reverses(d, sc)
    BY <1>2 DEF UndoesAll, Reversed
  <2>5. /\ pc[q] \in Undoing /\ ~(receiptStatus'[sc] = "REVERSED") =>
             IF pc[q] = "deleteRows"
             THEN t.list = {a \in allocations' : a.receipt = sc}
             ELSE /\ t.gone = {a \in allocations' : a.receipt = sc}
                  /\ \A a \in t.gone \ t.list : ReversalOf(AllocationEntry(a)) \in t.draft
                  /\ pc[q] \notin {"reverseAllocation", "increment"} => t.list = {}
    BY <2>2, <2>4
  <2>. HIDE DEF sc, t
  <2>. QED  BY <1>1, <2>3, <2>4, <2>5 DEF UndoesAll, sc, t, Reversed, RowsOf, Reverses
<1>. QED  BY <1>6, <1>8, <1>9

LEMMA NextUndoInv ==
  ASSUME TypeInv, LedgerInv, FormInv, UndoInv, ReversedUnrefunded, ReversalsTakeTurns,
         NEW r \in Requests, Submit(r) \/ Step(r) \/ Abort(r)
  PROVE  UndoInv'
<1>1. ReceiptCreatedOnce'
  BY NextCreatedOnce DEF UndoInv
<1>2. CASE Commit(r)
  <2>1. pc'[r] \in Ends /\ tx'[r] = Fresh /\ input' = input
    BY <1>2, CommitOf DEF Ends
  <2>2. Stands(r)' /\ PartsArePosted(r)' /\ UndoesAll(r)'
    BY <2>1, NothingHeld
  <2>3. \A q \in Requests : Stands(q)' /\ PartsArePosted(q)' /\ UndoesAll(q)'
    BY <1>2, <2>2, OthersAfterCommit
  <2>4. \A rc \in ReceiptIds : IF Reversed(rc)' THEN Undone(rc)' ELSE Kept(rc)'
    BY <1>2, ReceiptsAfterCommit
  <2>. QED  BY <1>1, <2>3, <2>4 DEF UndoInv
<1>3. ASSUME UNCHANGED <<receiptStatus, unallocated, allocations, journals>>,
             Stands(r)' /\ PartsArePosted(r)' /\ UndoesAll(r)'
      PROVE  UndoInv'
  <2>1. /\ input' = input
        /\ \A q \in Requests \ {r} : pc'[q] = pc[q] /\ tx'[q] = tx[q]
    BY OthersStay
  <2>2. ASSUME NEW q \in Requests \ {r} PROVE Stands(q)' /\ PartsArePosted(q)' /\ UndoesAll(q)'
    <3>1. Stands(q) /\ PartsArePosted(q) /\ UndoesAll(q)
      BY DEF UndoInv
    <3>2. Stands(q)'
      BY <1>3, <2>1, <3>1 DEF Stands, Exists, Standing
    <3>3. PartsArePosted(q)'
      BY <1>3, <2>1, <3>1 DEF PartsArePosted, Entries
    <3>4. UndoesAll(q)'
      BY <1>3, <2>1, <3>1 DEF UndoesAll, Entries, Reversed, RowsOf, Reverses
    <3>. QED  BY <3>2, <3>3, <3>4
  <2>3. ASSUME NEW rc \in ReceiptIds PROVE IF Reversed(rc)' THEN Undone(rc)' ELSE Kept(rc)'
    <3>1. IF Reversed(rc) THEN Undone(rc) ELSE Kept(rc)
      BY DEF UndoInv
    <3>2. Reversed(rc)' = Reversed(rc)
      BY <1>3 DEF Reversed
    <3>3. Undone(rc) => Undone(rc)'
      BY <1>3, <2>1 DEF Undone, RowsOf, EntriesOf, Reverses
    <3>4. Kept(rc) => Kept(rc)'
      BY <1>3, <2>1 DEF Kept, RowsOf, EntriesOf
    <3>. QED  BY <3>1, <3>2, <3>3, <3>4
  <2>4. \A q \in Requests : Stands(q)' /\ PartsArePosted(q)' /\ UndoesAll(q)'
    BY <1>3, <2>2
  <2>. QED  BY <1>1, <2>3, <2>4 DEF UndoInv
<1>4. CASE InsertRefund(r) \/ Decide(r)
  <2>1. Answer(r, "done") /\ UNCHANGED <<receiptStatus, unallocated, allocations, journals>>
    BY <1>4 DEF InsertRefund, Decide, SetRefund
  <2>2. pc'[r] \in Ends /\ tx'[r] = Fresh /\ input' = input
    BY <2>1, AnswerMoves, MoveOf DEF Ends
  <2>. QED  BY <1>3, <2>1, <2>2, NothingHeld
<1>5. CASE ~Writes(r)
  <2>1. UNCHANGED <<receiptStatus, unallocated, allocations, journals>> /\ input' = input
    BY <1>5, OthersStay DEF money
  <2>2. CASE (pc'[r] = "failed" /\ tx'[r] = Fresh) \/ Rollback(r)
    <3>1. pc'[r] \in Ends /\ tx'[r] = Fresh
      BY <2>2, RollbackOf DEF Ends
    <3>. QED  BY <1>3, <2>1, <3>1, NothingHeld
  <2>3. CASE ~(pc'[r] = "failed" /\ tx'[r] = Fresh) /\ ~Rollback(r)
    <3>1. Stands(r)'
      BY <1>5, <2>3, NextStands
    <3>2. PartsArePosted(r)'
      <4>1. CASE Allocates(input[r])
        BY <1>5, <2>3, <4>1, NextPartsArePosted
      <4>2. CASE ~Allocates(input[r])
        BY <2>1, <4>2 DEF PartsArePosted
      <4>. QED  BY <4>1, <4>2
    <3>3. UndoesAll(r)'
      <4>1. CASE input[r].kind = "REVERSE"
        BY <1>5, <2>3, <4>1, NextUndoesAll
      <4>2. CASE input[r].kind # "REVERSE"
        BY <2>1, <4>2 DEF UndoesAll
      <4>. QED  BY <4>1, <4>2
    <3>. QED  BY <1>3, <2>1, <3>1, <3>2, <3>3
  <2>. QED  BY <2>2, <2>3
<1>. QED  BY <1>2, <1>4, <1>5 DEF Writes

(* The lines of entries and of their reversals cancel out. *)
LEMMA ReversedLines ==
  ASSUME NEW P, IsFiniteSet(P), P \subseteq EntryType, \A e \in P : e.type \in Originals
  PROVE  LET Q == {ReversalOf(e) : e \in P}
         IN Cleared(P \union Q) = 0 /\ Credited(P \union Q) = 0
<1>. DEFINE h == [e \in P |-> ReversalOf(e)]
            Q == {h[e] : e \in P}
<1>1. /\ Q = {ReversalOf(e) : e \in P} /\ Q \subseteq EntryType /\ P \intersect Q = {}
      /\ \A e \in Q : e.type \notin Originals
  BY ReversalFields
<1>2. \A e, f \in P : h[e] = h[f] => e = f
  BY ReversalsDiffer
<1>3. \A e \in P : /\ ReceivableLine(e) \in Int /\ ReceivableLine(h[e]) = -ReceivableLine(e)
                   /\ DepositLine(e) \in Int /\ DepositLine(h[e]) = -DepositLine(e)
  BY ReversalFields
<1>. HIDE DEF h
<1>4. IsFiniteSet(Q)
  BY FiniteRange
<1>5. Cleared(P) + Cleared(Q) = 0
  <2>. DEFINE f == [e \in P |-> ReceivableLine(e)]
              n == [e \in P |-> -ReceivableLine(e)]
              g == [e \in Q |-> ReceivableLine(e)]
  <2>1. /\ \A e \in P : f[e] \in Int /\ n[e] = -f[e]
        /\ \A e \in P : n[e] \in Int /\ g[h[e]] = n[e]
    BY <1>3
  <2>2. DOMAIN f = P /\ DOMAIN g = Q
    OBVIOUS
  <2>. HIDE DEF f, g, n
  <2>3. SumFunctionOnSet(f, P) + SumFunctionOnSet(n, P) = 0
    BY <2>1, SumOfOpposites
  <2>4. SumFunctionOnSet(g, Q) = SumFunctionOnSet(n, P)
    BY <1>2, <2>1, SumOfImage
  <2>5. SumFunction(f) + SumFunction(g) = 0
    BY <2>2, <2>3, <2>4 DEF SumFunction
  <2>. QED  BY <2>5 DEF Cleared, f, g
<1>6. Credited(P) + Credited(Q) = 0
  <2>. DEFINE f == [e \in P |-> DepositLine(e)]
              n == [e \in P |-> -DepositLine(e)]
              g == [e \in Q |-> DepositLine(e)]
  <2>1. /\ \A e \in P : f[e] \in Int /\ n[e] = -f[e]
        /\ \A e \in P : n[e] \in Int /\ g[h[e]] = n[e]
    BY <1>3
  <2>2. DOMAIN f = P /\ DOMAIN g = Q
    OBVIOUS
  <2>. HIDE DEF f, g, n
  <2>3. SumFunctionOnSet(f, P) + SumFunctionOnSet(n, P) = 0
    BY <2>1, SumOfOpposites
  <2>4. SumFunctionOnSet(g, Q) = SumFunctionOnSet(n, P)
    BY <1>2, <2>1, SumOfImage
  <2>5. SumFunction(f) + SumFunction(g) = 0
    BY <2>2, <2>3, <2>4 DEF SumFunction
  <2>. QED  BY <2>5 DEF Credited, f, g
<1>. HIDE DEF Q
<1>7. Cleared(P \union Q) = 0 /\ Credited(P \union Q) = 0
  BY <1>1, <1>4, <1>5, <1>6, LinesUnion
<1>. QED  BY <1>1, <1>7

LEMMA NothingLeft ==
  ASSUME TypeInv, LedgerInv, FormInv, NEW rc \in ReceiptIds, Undone(rc)
  PROVE  receivable[rc] = 0 /\ deposits[rc] = 0
<1>. DEFINE E == EntriesOf(rc)
            P == {e \in E : e.type \in Originals}
            Q == {ReversalOf(e) : e \in P}
<1>1. E \subseteq EntryType /\ IsFiniteSet(E) /\ E \subseteq journals
  BY FS_Subset DEF EntriesOf, LedgerInv, TypeInv, StateOK
<1>2. P \subseteq EntryType /\ IsFiniteSet(P) /\ \A e \in P : e.type \in Originals /\ e.receipt = rc
  BY <1>1, FS_Subset DEF EntriesOf
<1>3. Q \subseteq E
  <2>1. \A e \in P : ReversalOf(e) \in journals /\ ReversalOf(e).receipt = rc
    BY <1>2, ReversalFields DEF Undone
  <2>. QED  BY <2>1 DEF EntriesOf
<1>4. ASSUME NEW e \in E, e.type \notin Originals PROVE e \in Q
  <2>1. e.type # "REFUND"
    <3>1. PICK q \in Requests : input[q].kind = "REVERSE" /\ input[q].receipt = rc
      BY DEF Undone
    <3>. QED  BY <1>1, <3>1 DEF FormInv, JournalIsSound, EntriesOf
  <2>2. e.type \in Reversals
    BY <1>1, <1>4, <2>1 DEF EntryType, EntryTypes, Originals, Reversals
  <2>3. PICK o \in journals : o.type \in Originals /\ e = ReversalOf(o)
    BY <1>1, <2>2 DEF FormInv, JournalIsSound
  <2>4. o \in EntryType /\ e.receipt = rc
    BY DEF EntriesOf, TypeInv, StateOK
  <2>5. o.receipt = rc
    BY <2>3, <2>4, ReversalFields
  <2>6. o \in P
    BY <2>3, <2>5 DEF EntriesOf
  <2>. HIDE DEF P
  <2>. QED  BY <2>3, <2>6
<1>5. E = P \union Q
  <2>1. \A e \in E : e \in P \/ e \in Q
    BY <1>4
  <2>. QED  BY <1>3, <2>1
<1>. HIDE DEF P, E
<1>6. Cleared(P \union Q) = 0 /\ Credited(P \union Q) = 0
  BY <1>2, ReversedLines
<1>. QED  BY <1>5, <1>6 DEF LedgerInv, AccountsAreEntries, E

(* What the opening allocations were posted with. *)
LEMMA OpeningLines ==
  ASSUME OpeningDiffers, NEW S, S \subseteq Opening
  PROVE  LET T == {AllocationEntry(a) : a \in S}
         IN /\ IsFiniteSet(T) /\ T \subseteq EntryType
            /\ Applied(S) \in Int /\ Cleared(T) = Applied(S) /\ Credited(T) = -Applied(S)
<1>. DEFINE h == [a \in S |-> AllocationEntry(a)]
            T == {h[a] : a \in S}
<1>1. IsFiniteSet(S) /\ S \subseteq RowType
  BY ConstantsAssumption, FS_Subset
<1>2. T = {AllocationEntry(a) : a \in S} /\ T \subseteq EntryType
  BY <1>1, EntriesType
<1>3. \A a, b \in S : h[a] = h[b] => a = b
  BY DEF OpeningDiffers
<1>4. \A a \in S : a.amount \in Nat /\ ReceivableLine(h[a]) = a.amount /\ DepositLine(h[a]) = -a.amount
  BY <1>1 DEF RowType, AllocationEntry, ReceivableLine, DepositLine
<1>. HIDE DEF h
<1>5. IsFiniteSet(T)
  BY <1>1, FiniteRange
<1>. DEFINE f == [a \in S |-> a.amount]
            n == [a \in S |-> -a.amount]
            c == [e \in T |-> ReceivableLine(e)]
            d == [e \in T |-> DepositLine(e)]
<1>6. \A a \in S : f[a] \in Int /\ n[a] \in Int /\ n[a] = -f[a] /\ c[h[a]] = f[a] /\ d[h[a]] = n[a]
  BY <1>4
<1>7. DOMAIN f = S /\ DOMAIN c = T /\ DOMAIN d = T
  OBVIOUS
<1>. HIDE DEF f, n, c, d
<1>8. SumFunctionOnSet(f, S) \in Int /\ SumFunctionOnSet(n, S) \in Int
  BY <1>1, <1>6, SumIsInt
<1>9. SumFunctionOnSet(c, T) = SumFunctionOnSet(f, S)
  BY <1>1, <1>3, <1>6, SumOfImage
<1>10. SumFunctionOnSet(d, T) = SumFunctionOnSet(n, S)
  BY <1>1, <1>3, <1>6, SumOfImage
<1>11. SumFunctionOnSet(f, S) + SumFunctionOnSet(n, S) = 0
  BY <1>1, <1>6, SumOfOpposites
<1>. HIDE DEF T
<1>12. SumFunction(f) \in Int /\ SumFunction(c) = SumFunction(f) /\ SumFunction(d) = -SumFunction(f)
  BY <1>7, <1>8, <1>9, <1>10, <1>11 DEF SumFunction
<1>13. Applied(S) = SumFunction(f) /\ Cleared(T) = SumFunction(c) /\ Credited(T) = SumFunction(d)
  BY DEF Applied, Cleared, Credited, f, c, d
<1>. QED  BY <1>2, <1>5, <1>12, <1>13

LEMMA InitLedgerInv ==
  ASSUME Init, OpeningDiffers
  PROVE  LedgerInv /\ FormInv
<1>1. journals = {ReceiptEntry(rc, 0) : rc \in Posted} \union {AllocationEntry(a) : a \in Opening}
  BY DEF Init
<1>2. \A r \in Requests : tx[r].draft = {}
  <2>1. Fresh.draft = {}
    BY DEF Fresh
  <2>. QED  BY <2>1 DEF Init
<1>3. IsFiniteSet(journals)
  <2>. DEFINE g == [rc \in Posted |-> ReceiptEntry(rc, 0)]
              h == [a \in Opening |-> AllocationEntry(a)]
  <2>1. journals = {g[rc] : rc \in Posted} \union {h[a] : a \in Opening}
    BY <1>1
  <2>2. IsFiniteSet(Posted) /\ IsFiniteSet(Opening)
    BY ConstantsAssumption, FS_Subset
  <2>. HIDE DEF g, h
  <2>3. IsFiniteSet({g[rc] : rc \in Posted}) /\ IsFiniteSet({h[a] : a \in Opening})
    BY <2>2, FiniteRange
  <2>. QED  BY <2>1, <2>3, FS_Union
<1>4. ASSUME NEW rc \in ReceiptIds
      PROVE  receivable[rc] = Cleared(EntriesOf(rc)) /\ deposits[rc] = Credited(EntriesOf(rc))
  <2>. DEFINE S == RowsOf(Opening, rc)
              T == {AllocationEntry(a) : a \in S}
              e == ReceiptEntry(rc, 0)
  <2>1. /\ receivable[rc] = Applied(S)
        /\ deposits[rc] = IF rc \in Posted THEN Amount[rc] - Applied(S) ELSE 0
    BY DEF Init
  <2>2. S \subseteq Opening
    BY DEF RowsOf
  <2>3. EntriesOf(rc) = IF rc \in Posted THEN T \union {e} ELSE {}
    <3>1. \A a \in Opening : AllocationEntry(a).receipt = a.receipt /\ a.receipt \in Posted
      BY ConstantsAssumption DEF AllocationEntry
    <3>2. \A sc \in Posted : ReceiptEntry(sc, 0).receipt = sc
      BY DEF ReceiptEntry
    <3>3. EntriesOf(rc) = {d \in {ReceiptEntry(sc, 0) : sc \in Posted} : d.receipt = rc}
                            \union {d \in {AllocationEntry(a) : a \in Opening} : d.receipt = rc}
      BY <1>1 DEF EntriesOf
    <3>4. {d \in {AllocationEntry(a) : a \in Opening} : d.receipt = rc} = T
      BY <3>1 DEF RowsOf
    <3>5. {d \in {ReceiptEntry(sc, 0) : sc \in Posted} : d.receipt = rc}
            = IF rc \in Posted THEN {e} ELSE {}
      BY <3>2
    <3>6. rc \notin Posted => T = {}
      BY <3>1 DEF RowsOf
    <3>. HIDE DEF T, e
    <3>. QED  BY <3>3, <3>4, <3>5, <3>6
  <2>4. /\ IsFiniteSet(T) /\ T \subseteq EntryType
        /\ Applied(S) \in Int /\ Cleared(T) = Applied(S) /\ Credited(T) = -Applied(S)
    BY <2>2, OpeningLines
  <2>5. /\ e.type = "RECEIPT" /\ ReceivableLine(e) = 0 /\ DepositLine(e) = Amount[rc]
        /\ Amount[rc] \in Int /\ e \notin T
    <3>1. \A d \in T : d.type = "ALLOCATION"
      BY DEF AllocationEntry
    <3>2. /\ e.type = "RECEIPT" /\ e.amount = Amount[rc] /\ e.cleared = 0
          /\ Amount[rc] \in Int
      BY ConstantsAssumption DEF ReceiptEntry
    <3>. HIDE DEF e, T
    <3>3. ReceivableLine(e) = 0 /\ DepositLine(e) = Amount[rc] - 0
      BY <3>2 DEF ReceivableLine, DepositLine
    <3>. QED  BY <3>1, <3>2, <3>3
  <2>6. rc \notin Posted => S = {}
    BY ConstantsAssumption DEF RowsOf
  <2>. HIDE DEF S, T, e
  <2>7. CASE rc \in Posted
    <3>1. /\ Cleared(T \union {e}) = Cleared(T) + ReceivableLine(e)
          /\ Credited(T \union {e}) = Credited(T) + DepositLine(e)
      BY <2>4, <2>5, ClearedAdd, CreditedAdd
    <3>2. Cleared(T \union {e}) = Applied(S) /\ Credited(T \union {e}) = Amount[rc] - Applied(S)
      BY <2>4, <2>5, <3>1
    <3>. QED  BY <2>1, <2>3, <2>7, <3>2
  <2>8. CASE rc \notin Posted
    <3>1. Applied(S) = 0 /\ Cleared({}) = 0 /\ Credited({}) = 0
      BY <2>6, <2>8, NothingApplied, ClearedType, CreditedType
    <3>. QED  BY <2>1, <2>3, <2>8, <3>1
  <2>. QED  BY <2>7, <2>8
<1>5. LedgerInv
  BY <1>2, <1>3, <1>4 DEF LedgerInv, DraftIsNew, AccountsAreEntries
<1>6. JournalIsSound
  <2>1. ASSUME NEW e \in journals
        PROVE  \/ e.type = "ALLOCATION"
               \/ \E rc \in Posted : e = ReceiptEntry(rc, 0) /\ e.type = "RECEIPT" /\ e.about = rc /\ e.receipt = rc
    BY <1>1 DEF ReceiptEntry, AllocationEntry
  <2>2. \A e \in journals : e.type = "RECEIPT" => e.about = e.receipt
    BY <2>1
  <2>3. \A d, e \in journals : d.type = "RECEIPT" /\ SameReference(d, e) => d = e
    <3>. SUFFICES ASSUME NEW d \in journals, NEW e \in journals, d.type = "RECEIPT", SameReference(d, e)
                  PROVE  d = e
      OBVIOUS
    <3>1. d.receipt = e.receipt /\ e.type = "RECEIPT"
      BY DEF SameReference
    <3>2. d = ReceiptEntry(d.receipt, 0) /\ e = ReceiptEntry(e.receipt, 0)
      BY <2>1, <3>1
    <3>. QED  BY <3>1, <3>2
  <2>4. \A e \in journals : e.type \notin Reversals /\ e.type # "REFUND"
    BY <2>1 DEF Reversals
  <2>. QED  BY <2>2, <2>3, <2>4 DEF JournalIsSound
<1>7. FormInv
  BY <1>2, <1>6 DEF FormInv, DraftIsOf
<1>. QED  BY <1>5, <1>7

LEMMA InitUndoInv ==
  ASSUME Init
  PROVE  UndoInv
<1>1. \A r \in Requests : tx[r] = Fresh /\ pc[r] = "idle"
  BY DEF Init
<1>2. Fresh.n = 0 /\ Fresh.list = {} /\ Fresh.gone = {} /\ Fresh.draft = {}
  BY DEF Fresh
<1>3. ReceiptCreatedOnce
  BY <1>1 DEF ReceiptCreatedOnce
<1>4. ASSUME NEW r \in Requests PROVE Stands(r) /\ PartsArePosted(r) /\ UndoesAll(r)
  <2>1. Stands(r)
    BY <1>1 DEF Stands, Ends, Spending, Allocating, Closing, Undoing
  <2>2. PartsArePosted(r)
    <3>1. \A k \in 1..tx[r].n : FALSE
      BY <1>1, <1>2
    <3>. QED  BY <3>1 DEF PartsArePosted
  <2>3. UndoesAll(r)
    BY <1>1, <1>2 DEF UndoesAll, Undoing
  <2>. QED  BY <2>1, <2>2, <2>3
<1>5. ASSUME NEW rc \in ReceiptIds PROVE ~Reversed(rc) /\ Kept(rc)
  <2>1. ~Reversed(rc)
    BY DEF Init, Reversed, StatusAt
  <2>2. journals = {ReceiptEntry(sc, 0) : sc \in Posted} \union {AllocationEntry(a) : a \in Opening}
        /\ allocations = Opening
    BY DEF Init
  <2>3. \A e \in journals : e.type \notin Reversals
    BY <2>2 DEF ReceiptEntry, AllocationEntry, Reversals
  <2>4. ASSUME NEW e \in EntriesOf(rc), e.type = "ALLOCATION"
        PROVE  \E a \in RowsOf(allocations, rc) : e = AllocationEntry(a)
    <3>1. e \in journals /\ e.receipt = rc
      BY DEF EntriesOf
    <3>2. PICK a \in Opening : e = AllocationEntry(a)
      BY <2>2, <2>4, <3>1 DEF ReceiptEntry
    <3>3. a.receipt = rc
      BY <3>1, <3>2 DEF AllocationEntry
    <3>. QED  BY <2>2, <3>2, <3>3 DEF RowsOf
  <2>5. Kept(rc)
    BY <2>2, <2>3, <2>4 DEF Kept, EntriesOf, RowsOf
  <2>. QED  BY <2>1, <2>5
<1>. QED  BY <1>3, <1>4, <1>5 DEF UndoInv

(* A reversed receipt leaves nothing behind, and one whose posting was     *)
(* reversed stays reversed, in a behaviour in which no allocation of a     *)
(* receipt is made while a reversal of it is under way, and where no       *)
(* receipt that is reversed is refunded: every posting that the deletion   *)
(* of the rows makes stale is reversed with them (reversePaymentReceipt),  *)
(* once, however often the reversal is requested, and whatever fails.      *)
LEMMA ReversedLeavesNothing ==
  ASSUME OpeningDiffers, ReversedUnrefunded
  PROVE  Spec /\ []ReversalsTakeTurns => []ReversedIsUnposted
<1>. DEFINE Inv == TypeInv /\ LedgerInv /\ FormInv /\ UndoInv
<1>1. Init => Inv
  BY InitTypeInv, InitLedgerInv, InitUndoInv
<1>2. Inv /\ ReversalsTakeTurns /\ [Next]_vars => Inv'
  <2>1. SUFFICES ASSUME Inv, ReversalsTakeTurns, [Next]_vars PROVE Inv'
    OBVIOUS
  <2>2. TypeInv'
    BY <2>1, NextTypeInv
  <2>3. ASSUME NEW r \in Requests, Submit(r) \/ Step(r) \/ Abort(r)
        PROVE  LedgerInv' /\ FormInv' /\ UndoInv'
    BY <2>1, <2>3, NextLedgerInv, NextUndoInv
  <2>4. ASSUME UNCHANGED vars PROVE LedgerInv' /\ FormInv' /\ UndoInv'
    <3>1. LedgerInv'
      BY <2>1, <2>4 DEF LedgerInv, DraftIsNew, AccountsAreEntries, EntriesOf, Cleared, Credited,
         ReceivableLine, DepositLine, SameReference, vars, money
    <3>2. FormInv'
      BY <2>1, <2>4 DEF FormInv, JournalIsSound, DraftIsOf, SameReference, ReversalOf, vars, money
    <3>3. UndoInv'
      <4>1. /\ ReceiptCreatedOnce'
            /\ \A r \in Requests : Stands(r)' /\ PartsArePosted(r)'
        BY <2>1, <2>4 DEF UndoInv, ReceiptCreatedOnce, Stands, Exists, Standing, PartsArePosted,
           Entries, vars, money
      <4>2. \A r \in Requests : UndoesAll(r)'
        BY <2>1, <2>4 DEF UndoInv, UndoesAll, Entries, Reversed, RowsOf, Reverses, vars, money
      <4>3. \A rc \in ReceiptIds : IF Reversed(rc)' THEN Undone(rc)' ELSE Kept(rc)'
        BY <2>1, <2>4 DEF UndoInv, Undone, Kept, Reversed, RowsOf, EntriesOf, Reverses, vars, money
      <4>. QED  BY <4>1, <4>2, <4>3 DEF UndoInv
    <3>. QED  BY <3>1, <3>2, <3>3
  <2>. QED  BY <2>1, <2>2, <2>3, <2>4 DEF Next, Quiescent
<1>3. Inv => ReversedIsUnposted
  <2>1. SUFFICES ASSUME Inv PROVE ReversedIsUnposted
    OBVIOUS
  <2>2. ASSUME NEW rc \in ReceiptIds, receiptStatus[rc] = "REVERSED"
        PROVE  /\ RowsOf(allocations, rc) = {}
               /\ receivable[rc] = 0 /\ deposits[rc] = 0 /\ unallocated[rc] = 0
    <3>1. Undone(rc)
      BY <2>1, <2>2 DEF UndoInv, Reversed
    <3>. QED  BY <2>1, <3>1, NothingLeft DEF Undone
  <2>3. ASSUME NEW e \in journals, e.type = "RECEIPT_REVERSAL" PROVE receiptStatus[e.receipt] = "REVERSED"
    <3>1. e.receipt \in ReceiptIds
      BY <2>1 DEF TypeInv, StateOK, EntryType
    <3>. QED  BY <2>1, <2>3, <3>1 DEF UndoInv, Kept, Reversed, EntriesOf, Reversals
  <2>. QED  BY <2>2, <2>3 DEF ReversedIsUnposted
<1>. HIDE DEF Inv
<1>. QED  BY <1>1, <1>2, <1>3, PTL DEF Spec

(* A request that allocates a receipt and one that reverses it.            *)
ReversedUnallocated ==
  \A w \in Workloads : \A q, r \in Requests :
    w[q].kind = "REVERSE" /\ w[r].kind = "ALLOCATE" => w[q].receipt # w[r].receipt

(* No hypothesis on the behaviour is needed where the receipts that are    *)
(* reversed get their allocations when they are created: a reversal of a   *)
(* receipt competes then with other reversals of it, and with its own      *)
(* creation, in any order.                                                 *)
COROLLARY ReversedWhenNotAllocated ==
  ASSUME OpeningDiffers, ReversedUnrefunded, ReversedUnallocated
  PROVE  Spec => []ReversedIsUnposted
<1>1. Init => TypeInv
  BY InitTypeInv
<1>2. TypeInv /\ [Next]_vars => TypeInv'
  BY NextTypeInv
<1>3. TypeInv => ReversalsTakeTurns
  <2>1. SUFFICES ASSUME TypeInv PROVE ReversalsTakeTurns
    OBVIOUS
  <2>2. input \in Workloads
    BY <2>1 DEF TypeInv, StateOK
  <2>. QED  BY <2>2 DEF ReversalsTakeTurns, ReversedUnallocated
<1>4. Spec /\ []ReversalsTakeTurns => []ReversedIsUnposted
  BY ReversedLeavesNothing
<1>. QED  BY <1>1, <1>2, <1>3, <1>4, PTL DEF Spec
===============================================================================
