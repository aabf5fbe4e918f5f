SPECIFICATION FairSpec
CONSTANTS
  Streams = {w1, w2, w3}
  Keys = {k1, k2}
  MaxWatchers = 2
  MaxWatchersPerPeer = 1
  None = None
INVARIANTS
  WatchersExact
PROPERTY
  DrainEnds
