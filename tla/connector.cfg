CONSTANTS
  Incident = {i1, i2}
  Note = {n1}
  Nothing = Nothing
  DispatchCeiling = 1
  CreateCeiling = 1
  FailureCeiling = 2
  MaxAttempts = 2
  MaxTime = 2
  MaxActs = 2
  MaxRuns = 2
  Gone = {}
  Limit <- Anything
  MaxKinds = 1
SPECIFICATION Spec
SYMMETRY Symmetry
CHECK_DEADLOCK FALSE
INVARIANTS
  OneTicket
  
  PassedIsImported
  PassedIsAnswered
PROPERTIES
  AckedIsNotRepeated
