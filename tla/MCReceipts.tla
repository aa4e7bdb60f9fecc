------------------------------ MODULE MCReceipts ------------------------------
(***************************************************************************)
(* Instances of Receipts for TLC: which bodies the requests carry.         *)
(***************************************************************************)
EXTENDS Receipts, TLC

CONSTANTS c1, c2, c3, c4, i1, i2, f1, f2, f3, r1, r2, r3, r4

Body(kind, receipt, parts, refund) ==
  [kind |-> kind, receipt |-> receipt, parts |-> parts, refund |-> refund]
To(invoice, amount) == [invoice |-> invoice, amount |-> amount]

Create(rc, parts) == Body("CREATE", rc, parts, NoRefund)
Allocate(rc, parts) == Body("ALLOCATE", rc, parts, NoRefund)
Reverse(rc) == Body("REVERSE", rc, <<>>, NoRefund)
OfRefund(kind, f) == Body(kind, RefundReceipt[f], <<>>, f)

(* Any bodies of a set, or each body at most once; since the requests are  *)
(* interchangeable, Canonical keeps one workload for each bag of bodies.    *)
Bodies(w) == [body \in Range(w) |-> Cardinality({r \in Requests : w[r] = body})]
Canonical(load) == {CHOOSE w \in load : Bodies(w) = bag : bag \in {Bodies(w) : w \in load}}
Anything(bodies) == [Requests -> bodies]
Distinct(bodies) == Canonical({w \in Anything(bodies) : IsInjective(w)})

MCAmount == [rc \in ReceiptIds |-> IF rc = c1 THEN 3 ELSE 2]
LargeAmount == [MCAmount EXCEPT ![c1] = 5]
MCBalanceDue == [i \in Invoices |-> IF i = i1 THEN 4 ELSE 2]
MCRefundReceipt == [f \in Refunds |-> c1]
MCRefundAmount == [f \in Refunds |-> IF f = f1 THEN 2 ELSE 1]

Allocated == {[by |-> NoRequest, n |-> 1, receipt |-> c1, invoice |-> i1, amount |-> 1],
              [by |-> NoRequest, n |-> 2, receipt |-> c1, invoice |-> i2, amount |-> 1]}

(* Receipts of one tenant created and allocated side by side. *)
AllocateBodies ==
  {Allocate(c1, <<To(i1, 3)>>), Allocate(c1, <<To(i1, 2)>>), Allocate(c1, <<To(i1, 1)>>),
   Allocate(c2, <<To(i1, 1), To(i2, 1)>>),
   Create(c3, <<>>), Create(c4, <<>>), Allocate(c3, <<To(i1, 1)>>)}
AllocateLoad == Distinct(AllocateBodies)

(* One receipt, allocated to two invoices: reversed from several screens,  *)
(* or its rest refunded, by refunds created, approved and paid, some twice. *)
ReverseLoad ==
  {w \in Anything({Reverse(c1), OfRefund("REFUND", f2)}) :
     \A q, r \in Requests : w[q] = w[r] /\ w[q].kind = "REFUND" => q = r}
RefundLoad ==
  {w \in Anything({OfRefund("REFUND", f2), OfRefund("APPROVE", f2), OfRefund("PAY", f1),
                   OfRefund("PAY", f2), OfRefund("PAY", f3)}) :
     \A q, r \in Requests : w[q] = w[r] /\ w[q].kind # "PAY" => q = r}
(* Transactions on receipts that share invoices and lock the account rows  *)
(* in different orders.                                                     *)
LockLoad ==
  UNION {Distinct({Create(c3, parts), Allocate(c2, <<To(i1, 1), To(i2, 1)>>),
                   OfRefund("PAY", f1), OfRefund("REJECT", f1)}) :
           parts \in {<<>>, <<To(i2, 1)>>}}
UndoLoad == Canonical(ReverseLoad) \cup Canonical(RefundLoad) \cup LockLoad

(* The workloads of the violations; README.md, section 8, names the property of each. *)
TwoInvoicesLoad == Distinct({Allocate(c1, <<To(i1, 2)>>), Allocate(c1, <<To(i2, 2)>>)})
TwoReceiptsLoad == Distinct({Allocate(c1, <<To(i1, 3)>>), Allocate(c2, <<To(i1, 2)>>)})
RefundAndAllocateLoad ==
  Distinct({OfRefund("PAY", f1), OfRefund("PAY", f2), Allocate(c1, <<To(i1, 1)>>)})
InstalmentsLoad == Anything({Allocate(c1, <<To(i1, 1)>>)})
AllocateAndReverseLoad == Distinct({Reverse(c1), Allocate(c1, <<To(i1, 2)>>)})
RefundAndReverseLoad == Distinct({Reverse(c1), OfRefund("PAY", f1)})
ReverseOtherLoad == Distinct({Reverse(c1), Allocate(c2, <<To(i1, 2)>>)})
CreateAllocatedLoad == Anything({Create(c1, <<To(i1, 2)>>)})
DecideLoad == Distinct({OfRefund(kind, f2) : kind \in {"REFUND", "APPROVE", "REJECT", "PAY"}})

Symmetry == Permutations(Requests)
===============================================================================
