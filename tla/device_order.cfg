CONSTANTS
  Cmd = {c1, c2, c3}
  NoCmd = NoCmd
  OutboxLimit = 2
  MaxPending = 2
  Timed = {c3}
  MaxGen = 1
  MaxRestarts = 0
  MaxRevokes = 0
  MaxDbFaults = 0
SPECIFICATION Spec
CHECK_DEADLOCK FALSE
SYMMETRY Symmetry
INVARIANTS
  SuccessMeansRan
PROPERTIES
  RunsInOrder
