CONSTANTS
  Handler = {h1, h2, h3}
  Token = {t1}
  Item = {i1}
  Ttl = 2
  MaxTime = 3
  MaxRequests = 4
SPECIFICATION Spec
SYMMETRY Symmetric
INVARIANTS
  LogoutFinal
  NoWriteAfterLogout
PROPERTY FoundWithinTtl
