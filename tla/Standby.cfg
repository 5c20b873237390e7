SPECIFICATION FairSpec
CONSTANTS
  None = None
  Instance = {i1, i2, i3}
  Heartbeat = 2
  LockTTL = 4
  MaxLatency = 1
INVARIANTS TypeOK LeadersExclusive
PROPERTIES LockNotStolen LeaderElected
