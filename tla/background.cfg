SPECIFICATION UnionSpec
CONSTANTS
  r1 = r1
  r2 = r2
  s1 = s1
  s2 = s2
  w1 = w1
  w2 = w2
  None = None
  Deploys = {"old", "new", "late"}
  Files = {1, 2, 3, 4}
  Has <- Images
  MaxFaults = 2
SYMMETRY Perms
CHECK_DEADLOCK FALSE
INVARIANT MigrationsKept
INVARIANT QuotaKept
INVARIANT KnowledgeKept
INVARIANT ReadingKept
INVARIANT LegacyMovedOnce
PROPERTY InVersionOrder
