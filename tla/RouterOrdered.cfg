SPECIFICATION Spec
CONSTANTS
  None = None
  Broker = {"b1", "b2"}
  Message = {"m1", "m2"}
  AppId <- MCAppId
  HandleBound = 1
  Group = {"g1"}
  GroupId <- MCGroupId
  Immediate = {}
  Code = {"DEFAULT-POOL"}
  DefaultPool = "DEFAULT-POOL"
  PoolCode <- MCPoolCode
  Pool = {p1, p2}
  Consumer = {c1, c2}
  Worker = {w1, w2}
  MaxPoll = 2
  Concurrency = 1
  Capacity = 2
  U32 = 8
  StableIds = TRUE
  RemembersAcks = TRUE
  Operations = {"restart", "queue", "shutdown"}
INVARIANTS TypeOK SingleDrainer WorkingIffDrained QueueSizeAccounts
PROPERTIES GroupOrder
SYMMETRY Symmetry
CHECK_DEADLOCK FALSE
