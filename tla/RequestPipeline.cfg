CONSTANTS
  Conn = {c1, c2, c3}
  MaxConcurrent = 1
  MaxRequests = 3
SPECIFICATION FairSpec
INVARIANT PermitsConserved
PROPERTIES
  PermitsComeBack
  OnlyClientsHoldUpDrain
