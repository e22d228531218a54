CONSTANTS
  Call = {p1, p2, p3}
  Key = {k1, k2}
  Message = {m1, m2}
  Doc = {d1, d2}
  MaxLapses = 1
  MaxCalls = 6
  Sweeper = {s1, s2}
  Budget = 2
  Window = 1
  MaxTime = 3
  Starts = {0, 1}
  Intervals = {1, 2}
  MaxEdits = 1
SPECIFICATION RecurrenceSpec
CHECK_DEADLOCK FALSE
SYMMETRY Symmetry
INVARIANTS
  HandledOnce
  PeriodsInTurn
PROPERTIES
  TicketKeepsDocuments
