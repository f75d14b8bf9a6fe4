SPECIFICATION UnionSpec
CONSTANTS
  c1 = c1
  t1 = t1
  t2 = t2
  w1 = w1
  w2 = w2
  None = None
  Policies <- SomePolicies
  Comments <- SomeComments
  Suggestions <- SomeSuggestions
  Flags <- AllFlags
  Hours = {0, 2, 5, 7}
  Day = 8
SYMMETRY Perms
CHECK_DEADLOCK FALSE
INVARIANT GatesKept
INVARIANT InboxKept
INVARIANT NoticesKept
INVARIANT ModelKept
INVARIANT TimesKept
