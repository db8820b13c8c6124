CONSTANTS
  c1 = c1
  c2 = c2
  c3 = c3
  c4 = c4
  ipA = ipA
  ipB = ipB
  Conn = {c1, c2, c3, c4}
  MaxConnections = 2
  TlsEnabled = TRUE
  PeerIp <- FourPeers
  BlockedIps = {ipB}
  AllowedIps = {}
SPECIFICATION SchedulerSpec
INVARIANTS
  PermitsConserved
  InFlightExact
  AcceptedAccounted
  AtMostOneLate
  QuietExit
PROPERTIES
  DrainWakesUp
  ShutdownCompletes
