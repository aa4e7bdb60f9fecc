\* Receipts created and allocated side by side, each body submitted once.
SPECIFICATION Spec
CONSTANTS
  c1 = c1
  c2 = c2
  c3 = c3
  c4 = c4
  i1 = i1
  i2 = i2
  f1 = f1
  f2 = f2
  f3 = f3
  r1 = r1
  r2 = r2
  r3 = r3
  r4 = r4
  ReceiptIds = {c1, c2, c3, c4}
  Invoices = {i1, i2}
  Refunds = {f1}
  Requests = {r1, r2, r3}
  NoRequest = NoRequest
  NoRefund = NoRefund
  Posted = {c1, c2}
  Opening = {}
  Approved = {}
  Amount <- MCAmount
  BalanceDue <- MCBalanceDue
  RefundReceipt <- MCRefundReceipt
  RefundAmount <- MCRefundAmount
  SystemAccounts = {"1000", "1200"}
  Workloads <- AllocateLoad
SYMMETRY Symmetry
INVARIANTS
  TypeOK
  PaidIsAllocated
  AllocatedWithinReceipt
  ReceivableIsAllocated
  UnallocatedIsDeposits
