CONSTANTS
  Handler = {h1, h2, h3}
  Item = {i1, i2}
  MaxRequests = 4
  Ip = {ip1, ip2}
  Worker = {w1, w2}
  EvictionTask = EvictionTask
  Cost = 2
  Capacity = 4
  StaleTtl = 4
  SweepInterval = 2
  EvictEvery = 2
  Start = 2
  MaxTime = 9
  MaxChecks = 3
SPECIFICATION SharedSpec
SYMMETRY Symmetric
INVARIANTS
  OneDeleteConfirmed
  DeletedStaysGone
  CreatedIsFound
  WindowBound
  IdleBucketBound
PROPERTY ImplementsTokenBuckets
