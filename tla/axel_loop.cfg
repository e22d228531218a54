SPECIFICATION FairSpec
CONSTANTS
  Requests <- MCRequests
  Resources <- MCResources
  Facets <- MCFacets
  ActionFacets <- MCActionFacets
  MaxTurns = 4
  CallLimits <- MCCallLimits
  MaxFailures = 3
CHECK_DEADLOCK FALSE
INVARIANTS ResolvedIsVerified
PROPERTIES RunEnds ClosedChangesStay ChangesClose
