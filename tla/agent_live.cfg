CONSTANTS
  r1 = r1
  r2 = r2
  t1 = t1
  t2 = t2
  Run = {r1}
  Ticket = {t1}
  TicketOf <- OneRun
  Gen = {g1}
  NoGen = NoGen
  NoRun = NoRun
  MaxConcurrent = 1
  RetainedLimit = 2
  MaxCalls = 2
  Limit <- AllButHuman
  MaxKinds = 2
SPECIFICATION FairSpec
CHECK_DEADLOCK FALSE
PROPERTIES
  ResolvingRunsEnd
