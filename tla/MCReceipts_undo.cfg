\* Receipts reversed, refunded, created and allocated: undone once, and answered.
SPECIFICATION FairSpec
CONSTANTS
  c1 = c1
  c2 = c2
  c3 = c3
  c4 = c4
  i1 = i1
  i2 = i2
  f1 = f1
  f2 = f2
  f3 = f3
  r1 = r1
  r2 = r2
  r3 = r3
  r4 = r4
  ReceiptIds = {c1, c2, c3}
  Invoices = {i1, i2}
  Refunds = {f1, f2, f3}
  Requests = {r1, r2, r3}
  NoRequest = NoRequest
  NoRefund = NoRefund
  Posted = {c1, c2}
  Opening <- Allocated
  Approved = {f1, f3}
  Amount <- LargeAmount
  BalanceDue <- MCBalanceDue
  RefundReceipt <- MCRefundReceipt
  RefundAmount <- MCRefundAmount
  SystemAccounts = {"1000", "1200", "2300"}
  Workloads <- UndoLoad
INVARIANTS
  ReversedIsUnposted
  PaidRefundsArePosted
PROPERTIES
  OnlyApprovedRefundsArePaid
  EveryRequestIsAnswered
