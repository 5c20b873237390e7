SPECIFICATION Spec
CONSTANTS
  None = None
  Broker = {"b1", "r1"}
  Message = {"m1"}
  AppId <- MCAppId
  HandleBound = 2
  Group = {"g1"}
  GroupId <- MCGroupId
  Immediate = {}
  Code = {"DEFAULT-POOL"}
  DefaultPool = "DEFAULT-POOL"
  PoolCode <- MCPoolCode
  Pool = {p1}
  Consumer = {c1}
  Worker = {w1, w2}
  MaxPoll = 1
  Concurrency = 1
  Capacity = 1
  U32 = 8
  StableIds = TRUE
  RemembersAcks = TRUE
  Operations = {"reap", "forceNack"}
INVARIANTS TrackerMapsAgree TrackedHasOwner NoLoss
SYMMETRY Symmetry
CHECK_DEADLOCK FALSE
