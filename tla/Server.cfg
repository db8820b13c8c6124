CONSTANTS
  c1 = c1
  c2 = c2
  ip = ip
  Conn = {c1, c2}
  MaxConnections = 1
  TlsEnabled = TRUE
  PeerIp <- Peers
  BlockedIps = {}
  AllowedIps = {}
  MaxConcurrent = 1
  MaxRequests = 1
  HandlerAnswers = {"2xx"}
  Thread = {t1}
  Free = Free
  Detached = Detached
SPECIFICATION FairSpec
INVARIANTS
  CountedOutIsFinished
  ExitLosesNothing
PROPERTIES
  AcceptLoopImplemented
  RequestPipelineImplemented
  HandlersDoNotHoldUpDrain
  ProcessExits
