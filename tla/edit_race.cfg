SPECIFICATION Spec
CONSTANTS
  p1 = p1
  t1 = t1
  t2 = t2
  w1 = w1
  w2 = w2
  None = None
  Posts <- OnePost
  Targets <- OnlyDirect
  Workers <- TwoWorkers
  PostOf <- PostOfDirect
  Buffer <- NoTargets
  Lax <- NoTargets
  MaxAttempts = 3
  SlowCalls = FALSE
  UserOps <- PublishEdit
  MaxApprovals = 2
  MaxFaults = 0
SYMMETRY Perms
CHECK_DEADLOCK FALSE
INVARIANT AtMostOncePerApproval
