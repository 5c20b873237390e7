SPECIFICATION FairSpec
CONSTANTS
  Calls = {c1, c2}
  Breakers = {b1, b2}
  NoBreaker = NoBreaker
  BufferSize = 2
  MinCalls = 2
  SuccessThreshold = 2
  ResetTimeout = 1
  MaxIdle = 1
  RateNum = 1
  RateDen = 2
INVARIANTS TypeOK WindowCountsRecent OpenHasFailureTime
PROPERTIES TripsExactlyOnRate HealthyEndpointCloses
