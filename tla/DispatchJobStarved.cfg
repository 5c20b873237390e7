SPECIFICATION FairSpec
CONSTANTS
  None = None
  Job = {2, 3}
  MessageGroup <- MCMessageGroup
  Subscription <- MCSubscription
  Scheduler = {s1}
  Router = {r1}
  BatchSize = 1
  MaxRetries = 1
  MaxCopies = 1
  Operations = {"pause"}
PROPERTY UnblockedIsDispatched
CHECK_DEADLOCK FALSE
