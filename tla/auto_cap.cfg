SPECIFICATION Spec
CONSTANTS
  c1 = c1
  c2 = c2
  c3 = c3
  r1 = r1
  r2 = r2
  r3 = r3
  w1 = w1
  w2 = w2
  None = None
  Comments <- ThreeComments
  Replies <- ThreeReplies
  CommentOf <- OneOfEach
  Workers <- TwoWorkers
  Cap = 1
  MaxAttempts = 2
  Lax = FALSE
  SlowCalls = FALSE
  Refetched <- NoComments
  Removable <- NoComments
  OwnerOps <- Nothing
  MaxFaults = 0
CHECK_DEADLOCK FALSE
SYMMETRY Perms
INVARIANT AutoCap
