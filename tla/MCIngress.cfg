SPECIFICATION IngressSpec
CONSTANTS
  Peers = {"net", "a", "b", "bufconn"}
  Clients = {"v6", "v6b", "a", "b"}
  Loopback = "bufconn"
  KeyOf <- MCKeyOf
  ShardCount = 2
  ShardOf <- MCShardOf
  MaxEntries = 4
  Burst = 1
  TTL = 0
  EvictBatch = 2
  Posts = {"post"}
  MaxBatch = 2
INVARIANTS
  ShardBounded
  NoExtraBurst
  BatchAnswered
