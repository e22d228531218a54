CONSTANTS
  Cmd = {c1, c2}
  NoCmd = NoCmd
  OutboxLimit = 2
  MaxPending = 2
  Timed = {c1}
  MaxGen = 1
  MaxRestarts = 0
  MaxRevokes = 1
  MaxDbFaults = 1
SPECIFICATION FairSpec
CHECK_DEADLOCK FALSE
INVARIANTS
  WaitingIsHeld
PROPERTIES
  RevokedWorkStaysDiscarded
  
