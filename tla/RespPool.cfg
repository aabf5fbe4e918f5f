SPECIFICATION PoolFairSpec
CONSTANTS
  Procs = {p1, p2}
  Conns = {k1, k2, k3}
  PoolSizes = {1, 2}
  NoConn = NoConn
INVARIANTS
  OneOwner
  LiveCapped
PROPERTIES
  CloseDrains
  DoReturns
