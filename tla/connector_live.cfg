CONSTANTS
  Incident = {i1}
  Note = {n1}
  Nothing = Nothing
  DispatchCeiling = 1
  CreateCeiling = 1
  FailureCeiling = 2
  MaxAttempts = 2
  MaxTime = 1
  MaxActs = 1
  MaxRuns = 1
  Gone = {i1}
  Limit <- Anything
  MaxKinds = 2
SPECIFICATION FairSpec
CHECK_DEADLOCK FALSE
PROPERTIES
  
  DispatchesSettle
