SPECIFICATION FairSpec
CONSTANTS
  None = None
  Job = {2}
  MessageGroup <- MCMessageGroup
  Subscription <- MCSubscription
  Scheduler = {s1}
  Router = {r1}
  BatchSize = 2
  MaxRetries = 2
  MaxCopies = 2
  Operations = {"requeue", "pause"}
INVARIANTS TypeOK NoJobForgotten WithinRetryBudget
PROPERTY JobSettles
