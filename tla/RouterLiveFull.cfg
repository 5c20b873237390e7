SPECIFICATION FairSpec
CONSTANTS
  None = None
  Broker = {"b1"}
  Message = {"m1"}
  AppId <- MCAppId
  HandleBound = 3
  Group = {"g1"}
  GroupId <- MCGroupId
  Immediate = {}
  Code = {"DEFAULT-POOL"}
  DefaultPool = "DEFAULT-POOL"
  PoolCode <- MCPoolCode
  Pool = {p1}
  Consumer = {c1, c2}
  Worker = {w1}
  MaxPoll = 1
  Concurrency = 1
  Capacity = 1
  U32 = 8
  StableIds = TRUE
  RemembersAcks = FALSE
  Operations = {"restart"}
PROPERTY ParkedGroupResumes
CHECK_DEADLOCK FALSE
