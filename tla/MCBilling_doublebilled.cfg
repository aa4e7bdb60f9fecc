\* One entry billed from two forms, one after the other.
SPECIFICATION Spec
CONSTANTS
  e1 = e1
  e2 = e2
  e3 = e3
  x1 = x1
  i1 = i1
  i2 = i2
  i3 = i3
  i4 = i4
  p1 = p1
  p2 = p2
  n1 = n1
  t1 = t1
  u1 = u1
  u2 = u2
  r1 = r1
  r2 = r2
  r3 = r3
  r4 = r4
  TimeEntries = {e1, e2, e3}
  Expenses = {x1}
  Invoices = {i1, i2, i3, i4}
  Approvals = {p1, p2}
  CreditNotes = {n1}
  Retainers = {t1}
  Users = {u1, u2}
  Requests = {r1, r2, r3, r4}
  None = None
  Issued = {i4}
  Billable = {e1, e2, e3, x1}
  Price <- MCPrice
  RetainerAmount <- MCRetainerAmount
  OpeningLines <- MCOpeningLines
  Workloads <- BillTwiceLoad
INVARIANTS
  BilledOnce
