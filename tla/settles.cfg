SPECIFICATION UnionSpec
CONSTANTS
  a1 = a1
  a2 = a2
  c1 = c1
  s1 = s1
  s2 = s2
  r1 = r1
  r2 = r2
  j1 = j1
  w1 = w1
  w2 = w2
  None = None
CHECK_DEADLOCK FALSE
PROPERTY NothingMissed
PROPERTY JobsSettle
