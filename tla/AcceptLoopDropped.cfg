CONSTANTS
  c1 = c1
  c2 = c2
  c3 = c3
  c4 = c4
  ipA = ipA
  ipB = ipB
  Conn = {c1, c2, c3}
  MaxConnections = 2
  TlsEnabled = TRUE
  PeerIp <- ThreePeers
  BlockedIps = {ipB}
  AllowedIps = {}
SPECIFICATION Spec
INVARIANT DroppedOnlyAfterTimeout
