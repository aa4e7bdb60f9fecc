SPECIFICATION FairSpec
CONSTANTS
  j1 = j1
  j2 = j2
  u1 = u1
  u2 = u2
  Jobs = {j1}
  Users = {u1, u2}
  Recipients <- OneJob
  MaxAttempts = 3
  MaxStalls = 1
  MaxEvents = 2
CHECK_DEADLOCK FALSE
INVARIANTS
  TypeOK
  CompletedWasHandled
  RowsAreTruthful
  MailsWithinTries
PROPERTIES
  EveryJobEnds
