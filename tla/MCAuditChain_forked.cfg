\* Two periods closed at the same time.
SPECIFICATION Spec
CONSTANTS
  firm = firm
  other = other
  r1 = r1
  r2 = r2
  r3 = r3
  jan = jan
  feb = feb
  Periods = {jan, feb}
  Tenants = {firm}
  Requests = {r1, r2}
  Genesis = Genesis
  Workloads <- TwoClosings
INVARIANTS
  ChainVerifies
