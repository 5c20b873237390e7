SPECIFICATION Spec
CONSTANTS
  None = None
  Broker = {"b1"}
  Message = {"m1"}
  AppId <- MCAppId
  HandleBound = 2
  Group = {"g1"}
  GroupId <- MCGroupId
  Immediate = {}
  Code = {"DEFAULT-POOL"}
  DefaultPool = "DEFAULT-POOL"
  PoolCode <- MCPoolCode
  Pool = {p1}
  Consumer = {c1, c2}
  Worker = {w1, w2}
  MaxPoll = 1
  Concurrency = 1
  Capacity = 2
  U32 = 8
  StableIds = FALSE
  RemembersAcks = FALSE
  Operations = {"restart"}
INVARIANT NoLoss
SYMMETRY Symmetry
CHECK_DEADLOCK FALSE
