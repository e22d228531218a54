CONSTANTS
  r1 = r1
  r2 = r2
  t1 = t1
  t2 = t2
  Run = {r1, r2}
  Ticket = {t1}
  TicketOf <- SameTicket
  Gen = {g1}
  NoGen = NoGen
  NoRun = NoRun
  MaxConcurrent = 2
  RetainedLimit = 2
  MaxCalls = 1
  Limit <- AnythingOnce
  MaxKinds = 1
SPECIFICATION Spec
CHECK_DEADLOCK FALSE
SYMMETRY Symmetry
INVARIANTS
  OneRunPerTicket
  RoutingMeansRun
  LatestRunDecides
  VerdictIsKept
PROPERTIES
  RunsAsPromised
