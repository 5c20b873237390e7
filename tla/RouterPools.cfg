SPECIFICATION Spec
CONSTANTS
  None = None
  Broker = {"b1", "b2"}
  Message = {"m1", "m2"}
  AppId <- MCAppId
  HandleBound = 1
  Group = {"g1"}
  GroupId <- MCGroupId
  Immediate = {"m2"}
  Code = {"DEFAULT-POOL", "P"}
  DefaultPool = "DEFAULT-POOL"
  PoolCode <- MCPoolCode
  Pool = {p1, p2, p3}
  Consumer = {c1, c2}
  Worker = {w1, w2}
  MaxPoll = 1
  Concurrency = 1
  Capacity = 2
  U32 = 8
  StableIds = TRUE
  RemembersAcks = TRUE
  Operations = {"pools", "restart"}
INVARIANTS NothingStranded TrackedHasOwner QueueSizeAccounts
SYMMETRY Symmetry
CHECK_DEADLOCK FALSE
