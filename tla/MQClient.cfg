SPECIFICATION MQFairSpec
CONSTANTS
  Subs = {s1, s2}
  Closers = {k1, k2}
INVARIANTS
  ConnectionLast
  ReadersOwned
PROPERTIES
  TeardownEnds
CHECK_DEADLOCK FALSE
