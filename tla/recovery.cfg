SPECIFICATION FairSpec
CONSTANTS
  p1 = p1
  t1 = t1
  t2 = t2
  w1 = w1
  w2 = w2
  None = None
  Posts <- OnePost
  Targets <- OnlyBuffered
  Workers <- OneWorker
  PostOf <- PostOfBuffered
  Buffer <- OnlyBuffered
  Lax <- NoTargets
  MaxAttempts = 2
  SlowCalls = FALSE
  UserOps <- NoRewrites
  MaxApprovals = 1
  MaxFaults = 2
CHECK_DEADLOCK FALSE
PROPERTY TargetSettles
PROPERTY ScheduledStarts
