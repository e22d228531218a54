CONSTANTS
  e1 = e1
  e2 = e2
  Exec = {e1, e2}
  Actions = 1
  Queueing = {e2}
  MaxAttempts = 2
  MaxTroubles = 1
SPECIFICATION FairSpec
CHECK_DEADLOCK FALSE
INVARIANTS
  SentWithinAttempts
PROPERTIES
  HolderConcludes
  ExecutionsEnd
  DeliveriesSettle
