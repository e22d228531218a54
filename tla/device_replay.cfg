CONSTANTS
  Cmd = {c1, c2}
  NoCmd = NoCmd
  OutboxLimit = 1
  MaxPending = 1
  Timed = {}
  MaxGen = 2
  MaxRestarts = 1
  MaxRevokes = 0
  MaxDbFaults = 0
SPECIFICATION Spec
CHECK_DEADLOCK FALSE
SYMMETRY Symmetry
INVARIANTS
  AtMostOnce
PROPERTIES
  DeliversOnce
