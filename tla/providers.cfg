SPECIFICATION UnionSpec
CONSTANTS
  fb = fb
  ig = ig
  s1 = s1
  s2 = s2
  r1 = r1
  r2 = r2
  j1 = j1
  j2 = j2
  w1 = w1
  w2 = w2
  w3 = w3
  None = None
  MaxAttempts = 3
  MaxReopens = 2
  Workers <- ThreeWorkers
  Provider = "buffer"
  Outcomes <- AllOutcomes
  MaxTokens = 4
  MaxReplays = 2
  MaxFaults = 2
SYMMETRY Perms
CHECK_DEADLOCK FALSE
INVARIANT DeliveryKept
INVARIANT AdaptersKept
INVARIANT RefreshKept
INVARIANT ConnectionsKept
PROPERTY Contract
PROPERTY RefusedIsClean
PROPERTY GrantsKept
