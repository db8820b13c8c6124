CONSTANTS
  RouteTables <- Tables
  Requests <- TableRequests
  f1 = f1
  f2 = f2
  HeaderName <- Names
  Replies <- Heads
  Inode = {f1, f2}
  MaxLength = 2
  MaxChanges = 3
SYMMETRY Files
SPECIFICATION ExchangeSpec
INVARIANTS
  ExchangeTypeOK
  DispatchCorrect
  LocalRoutesDisjoint
  RequestIdCorrelates
  OwnAnswersWhole
  ServedFileComplete
  FormRoundTrip
  RedirectKeepsHost
