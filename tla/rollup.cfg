SPECIFICATION FairSpec
CONSTANTS
  p1 = p1
  t1 = t1
  t2 = t2
  w1 = w1
  w2 = w2
  None = None
  Posts <- OnePost
  Targets <- TwoTargets
  Workers <- OneWorker
  PostOf <- PostOfTwo
  Buffer <- OnlyBuffered
  Lax <- NoTargets
  MaxAttempts = 2
  SlowCalls = FALSE
  UserOps <- OnlyPublish
  MaxApprovals = 1
  MaxFaults = 1
CHECK_DEADLOCK FALSE
INVARIANT TerminalPostIsSettled
PROPERTY PublishingEnds
