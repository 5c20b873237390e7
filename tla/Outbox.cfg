SPECIFICATION FairSpec
CONSTANTS
  None = None
  Item = {1, 2, 3}
  MessageGroup <- MCMessageGroup
  BatchSize = 2
  MaxRetries = 2
  MaxInFlight = 1
  MaxConcurrentGroups = 1
  Operations = {"pause", "unblock", "crash", "dbError"}
INVARIANTS TypeOK InFlightAccounts
PROPERTIES AtMostOnePastBlock ItemsSettle
