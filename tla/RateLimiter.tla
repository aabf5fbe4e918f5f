----------------------------- MODULE RateLimiter ----------------------------
(***************************************************************************)
(* The per-peer token buckets of interceptor/ratelimit.go.  allow runs     *)
(* under its shard's lock and is one step; what makes it hard is the long  *)
(* run: buckets refill with time, are swept when idle and evicted when a   *)
(* shard is full, and a forgotten peer starts again with a full bucket.    *)
(* Time is counted in refills: one token per tick.                         *)
(***************************************************************************)
EXTENDS Integers, FiniteSets, Functions

CONSTANTS
  Peers,       \* peer keys
  ShardCount, ShardOf,   \* shards are 0..ShardCount-1; ShardOf is the hash
  MaxEntries,  \* RateLimitConfig.MaxEntries
  Burst, TTL,  \* in tokens and ticks
  EvictBatch

ASSUME ShardAssumption == ShardCount \in Nat \ {0} /\ ShardOf \in [Peers -> 0..(ShardCount - 1)]
ASSUME CapAssumption == MaxEntries \in Nat \ {0} /\ EvictBatch \in Nat \ {0}
ASSUME BucketAssumption == Burst \in Nat \ {0} /\ TTL \in Nat

Shards == 0..(ShardCount - 1)
Larger(a, b) == IF a > b THEN a ELSE b
Smaller(a, b) == IF a < b THEN a ELSE b

\* NewRateLimiter's per-shard cap.
MaxEntriesShard == Larger(MaxEntries \div ShardCount, 1)

VARIABLES
  tokens,      \* the bucket of every tracked peer
  idle,        \* ticks since the peer was seen, up to TTL + 1
  evictCount,  \* calls per shard, modulo EvictBatch
  credit,      \* history: the bucket of a limiter that forgets nobody
  evicted      \* history: peers that a full shard has dropped

vars == <<tokens, idle, evictCount, credit, evicted>>

Tracked(s) == {p \in DOMAIN tokens : ShardOf[p] = s}

Init ==
  /\ tokens = [p \in {} |-> 0] /\ idle = [p \in {} |-> 0]
  /\ evictCount = [s \in Shards |-> 0]
  /\ credit = [p \in Peers |-> Burst]
  /\ evicted = {}

\* The peers the incremental sweep of a call to shard s may drop: every
\* EvictBatch calls, the stale ones among the first EvictBatch visited.
Sweep(s) ==
  IF (evictCount[s] + 1) % EvictBatch # 0 THEN {{}}
  ELSE {{p \in scan : idle[p] > TTL} :
          scan \in {x \in SUBSET Tracked(s) : Cardinality(x) = Smaller(EvictBatch, Cardinality(Tracked(s)))}}

\* Faulty variant: the cap is compared with > instead of >=.
Victims_OneMore(left) ==
  IF Cardinality(left) <= MaxEntriesShard THEN {{}}
  ELSE {{v} : v \in left}

\* The peers a full shard may drop for a newcomer: the one seen longest ago
\* among the first EvictBatch visited.
Victims(left) ==
  IF Cardinality(left) < MaxEntriesShard THEN {{}}
  ELSE {{v} : v \in {u \in left :
          \E scan \in SUBSET left :
            /\ Cardinality(scan) = Smaller(EvictBatch, Cardinality(left))
            /\ u \in scan /\ \A o \in scan : idle[u] >= idle[o]}}

\* lim.Allow on a bucket that holds t tokens.
Spend(t) == IF t > 0 THEN t - 1 ELSE 0

\* Track p with t tokens left and without the peers in gone.
Put(p, t, gone) ==
  LET left == (DOMAIN tokens \ gone) \cup {p} IN
  /\ tokens' = [q \in left |-> IF q = p THEN t ELSE tokens[q]]
  /\ idle' = [q \in left |-> IF q = p THEN 0 ELSE idle[q]]

\* The call is allowed iff its bucket holds a token; the ideal bucket of the peer
\* who made it pays for it.
Charge(t, caller, allowed) ==
  /\ allowed = (t > 0)
  /\ credit' = IF allowed THEN [credit EXCEPT ![caller] = Spend(@)] ELSE credit

\* allow of a call made by caller under the key p: sweep, then the bucket or a
\* new one.
Call(p, caller, allowed) ==
  LET s == ShardOf[p] IN
  /\ evictCount' = [evictCount EXCEPT ![s] = (@ + 1) % EvictBatch]
  /\ \E swept \in Sweep(s) :
       IF p \in DOMAIN tokens \ swept
       THEN /\ Put(p, Spend(tokens[p]), swept)
            /\ Charge(tokens[p], caller, allowed)
            /\ UNCHANGED evicted
       ELSE \E victims \in Victims(Tracked(s) \ swept) :
              /\ Put(p, Spend(Burst), swept \cup victims)
              /\ Charge(Burst, caller, allowed)
              /\ evicted' = evicted \cup victims

\* The time of one token passes.
Tick ==
  /\ tokens' = [p \in DOMAIN tokens |-> Smaller(tokens[p] + 1, Burst)]
  /\ idle' = [p \in DOMAIN idle |-> Smaller(idle[p] + 1, TTL + 1)]
  /\ credit' = [p \in Peers |-> Smaller(credit[p] + 1, Burst)]
  /\ UNCHANGED <<evictCount, evicted>>

Next == Tick \/ \E p \in Peers, allowed \in BOOLEAN : Call(p, p, allowed)

Spec == Init /\ [][Next]_vars

-----------------------------------------------------------------------------
TypeOK ==
  /\ DOMAIN tokens \subseteq Peers /\ DOMAIN idle = DOMAIN tokens
  /\ \A p \in DOMAIN tokens : tokens[p] \in 0..Burst /\ idle[p] \in 0..(TTL + 1)
  /\ evictCount \in [Shards -> 0..(EvictBatch - 1)]
  /\ credit \in [Peers -> 0..Burst] /\ evicted \subseteq Peers

\* No shard ever tracks more than its cap, whatever peers call and in any order.
ShardBounded == \A s \in Shards : Cardinality(Tracked(s)) <= MaxEntriesShard

\* A peer that no full shard has dropped gets exactly what one bucket that is
\* never forgotten would give it, whichever way its calls come in: neither the
\* sweep nor another transport gives anybody a second burst, as long as a bucket
\* refills within the TTL.
NoExtraBurst ==
  Burst <= TTL + 1 =>
    \A p \in Peers \ evicted :
      credit[p] = IF p \in DOMAIN tokens THEN tokens[p] ELSE Burst
=============================================================================
