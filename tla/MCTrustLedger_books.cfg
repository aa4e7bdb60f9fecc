\* Booked, journalled, settled and answered movements on two accounts.
SPECIFICATION FairSpec
CONSTANTS
  NumHolders = 2
  a1 = a1
  a2 = a2
  i1 = i1
  d1 = d1
  r1 = r1
  r2 = r2
  r3 = r3
  Accounts = {a1, a2}
  MatterHolders <- MCMatterHolders
  Invoices = {i1}
  Drns = {d1}
  Periods <- MCPeriods
  Requests = {r1, r2}
  Inputs <- BookInputs
  NoRequest = NoRequest
  NoInvoice = NoInvoice
  NoDrn = NoDrn
  Opening <- MCOpening
  Billed <- MCBilled
  DrnAmount <- MCDrnAmount
INVARIANTS
  TransactionsExplainBalance
  LedgerBankMatchesControl
  PaidIsWhatWasTransferred
  OfficeReceivesWhatTrustReleases
PROPERTIES
  EveryRequestIsAnswered
