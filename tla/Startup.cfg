CONSTANTS
  r1 = r1
  r2 = r2
  r3 = r3
  r4 = r4
  Replica = {r1, r2, r3, r4}
  Env <- MCEnv
  MaxFaults = 2
SPECIFICATION StartupFairSpec
INVARIANTS ServingIsReady ConflictAtMostOnce RedirectLeadsToTls
PROPERTIES BootstrapNeverOverwrites ValidReplicasServe
