CONSTANTS
  Ticket = {t1}
  WarningAt <- Warnings
  BreachAt <- Breaches
  Followups = 1
  Frequency = 1
  SweepLimit = 2
  MaxTime = 2
  MaxActs = 2
  MaxCalls = 1
  MaxRuns = 1
SPECIFICATION FairSpec
CHECK_DEADLOCK FALSE
INVARIANTS
  StopwatchIsTrue
  BreachStaysShown
PROPERTIES
  ResolvedAfterFollowups
  HoldsEnd
  BreachesAreMarked
