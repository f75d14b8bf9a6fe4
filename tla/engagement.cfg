SPECIFICATION FairSpec
CONSTANTS
  c1 = c1
  c2 = c2
  c3 = c3
  r1 = r1
  r2 = r2
  r3 = r3
  w1 = w1
  w2 = w2
  None = None
  Comments <- OneComment
  Replies <- TwoReplies
  CommentOf <- BothOfOne
  Workers <- TwoWorkers
  Cap = 1
  MaxAttempts = 2
  Lax = FALSE
  SlowCalls = FALSE
  Refetched <- NoComments
  Removable <- OneComment
  OwnerOps <- AllOps
  MaxFaults = 2
CHECK_DEADLOCK FALSE
INVARIANT SentIsAnswered
PROPERTY Promised
PROPERTY TriageEnds
PROPERTY SendingEnds
