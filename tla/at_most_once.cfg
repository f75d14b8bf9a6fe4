SPECIFICATION Spec
CONSTANTS
  p1 = p1
  t1 = t1
  t2 = t2
  w1 = w1
  w2 = w2
  None = None
  Posts <- OnePost
  Targets <- OnlyBuffered
  Workers <- TwoWorkers
  PostOf <- PostOfBuffered
  Buffer <- OnlyBuffered
  Lax <- NoTargets
  MaxAttempts = 3
  SlowCalls = FALSE
  UserOps <- NoRewrites
  MaxApprovals = 2
  MaxFaults = 2
SYMMETRY Perms
CHECK_DEADLOCK FALSE
INVARIANT AtMostOncePerApproval
INVARIANT InFlightIsDue
INVARIANT PublishedIsReal
PROPERTY PublishedIsFinal
