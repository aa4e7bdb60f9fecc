\* Two firms: one whose users wait for each other, one whose users do not.
SPECIFICATION Spec
CONSTANTS
  firm = firm
  other = other
  r1 = r1
  r2 = r2
  r3 = r3
  jan = jan
  feb = feb
  Periods = {jan, feb}
  Tenants = {firm, other}
  Requests = {r1, r2, r3}
  Genesis = Genesis
  Workloads <- TwoFirms
INVARIANTS
  TypeOK
  LinksAreBackward
  AuditedHappened
  DoneIsAudited
PROPERTIES
  TrailIsChainedLog
