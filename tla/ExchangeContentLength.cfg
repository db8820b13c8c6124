CONSTANTS
  RouteTables <- WholeTable
  Requests <- UpstreamRequests
  f1 = f1
  f2 = f2
  HeaderName <- Names
  Replies <- NotModified
  Inode = {f1, f2}
  MaxLength = 2
  MaxChanges = 3
SPECIFICATION ExchangeSpec
INVARIANT ContentLengthHonest
