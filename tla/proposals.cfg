CONSTANTS
  Proposal = {p1}
  Person = {ann, bob}
  Nobody = Nobody
  Call = {c1, c2, c3}
  Limit <- EachOnce
SPECIFICATION FairSpec
CHECK_DEADLOCK FALSE
INVARIANTS
  DispatchedOnce
  SecondPerson
PROPERTIES
  ClosedStaysUnsent
  ProposalsClose
