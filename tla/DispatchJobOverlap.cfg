SPECIFICATION FairSpec
CONSTANTS
  None = None
  Job = {2}
  MessageGroup <- MCMessageGroup
  Subscription <- MCSubscription
  Scheduler = {s1}
  Router = {r1, r2}
  BatchSize = 2
  MaxRetries = 2
  MaxCopies = 2
  Operations = {}
PROPERTY TerminalStays
CHECK_DEADLOCK FALSE
