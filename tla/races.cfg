SPECIFICATION Spec
CONSTANTS
  p1 = p1
  t1 = t1
  t2 = t2
  w1 = w1
  w2 = w2
  None = None
  Posts <- OnePost
  Targets <- OnlyDirect
  Workers <- TwoWorkers
  PostOf <- PostOfDirect
  Buffer <- NoTargets
  Lax <- OnlyDirect
  MaxAttempts = 3
  SlowCalls = TRUE
  UserOps <- Rewrites
  MaxApprovals = 2
  MaxFaults = 0
SYMMETRY Perms
CHECK_DEADLOCK FALSE
INVARIANT TypeOK
INVARIANT ClaimBudget
PROPERTY SettledStaysSettled
