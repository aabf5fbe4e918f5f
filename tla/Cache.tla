------------------------------- MODULE Cache --------------------------------
(***************************************************************************)
(* cache.New picks one of two backends behind one interface; what a caller *)
(* may rely on is the same for both.                                       *)
(***************************************************************************)
EXTENDS MemoryCache, RedisCache

VARIABLE driver  \* cfg.Driver, after its default

cacheVars == <<memVars, tripVars, redisVars, driver>>

\* New: an unknown driver is refused, and nothing runs.
Init == driver \in {"memory", "redis"} /\ MemInit /\ RedisInit

Next ==
  /\ \/ driver = "memory" /\ MemNext /\ UNCHANGED <<tripVars, redisVars>>
     \/ driver = "redis" /\ RedisNext /\ UNCHANGED memVars
  /\ UNCHANGED driver

Spec == Init /\ [][Next]_cacheVars

FairSpec == Spec /\ RedisFairness

TypeOK == MemTypeOK /\ RedisTypeOK

\* Whichever backend is configured, a caller never gets a value that was not the
\* key's at some moment between its call and the answer.
NeverStale == MemNeverStale /\ RedisNeverStale
=============================================================================
