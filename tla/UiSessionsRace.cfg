CONSTANTS
  Handler = {h1, h2}
  Token = {t1}
  Item = {i1}
  Ttl = 2
  MaxTime = 3
  MaxRequests = 3
SPECIFICATION Spec
INVARIANT LookupRemovesOnlyExpired
