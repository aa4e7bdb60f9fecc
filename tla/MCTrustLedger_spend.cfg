\* Racing spends of one shared trust account.
SPECIFICATION Spec
CONSTANTS
  NumHolders = 2
  a1 = a1
  a2 = a2
  i1 = i1
  d1 = d1
  r1 = r1
  r2 = r2
  r3 = r3
  Accounts = {a1}
  MatterHolders <- MCMatterHolders
  Invoices = {i1}
  Drns = {d1}
  Periods <- MCPeriods
  Requests = {r1, r2, r3}
  Inputs <- SpendInputs
  NoRequest = NoRequest
  NoInvoice = NoInvoice
  NoDrn = NoDrn
  Opening <- MCOpening
  Billed <- MCBilled
  DrnAmount <- MCDrnAmount
SYMMETRY Symmetry
INVARIANTS
  TypeOK
  LedgersNeverNegative
  ControlMatchesLedgers
  CheckedFundsStayAvailable
  ReferenceMovesMoneyOnce
PROPERTIES
  BookSpec
