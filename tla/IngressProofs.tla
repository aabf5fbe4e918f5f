---------------------------- MODULE IngressProofs ----------------------------
(***************************************************************************)
(* Proofs about the rate limiter and the MCP bridge behind the one port,   *)
(* for any peers, clients, requests in parallel, caps and TTL.             *)
(***************************************************************************)
EXTENDS Ingress, FiniteSetTheorems, SequenceTheorems, TLAPS

\* A leaf that names no prover is tried with Zenon, then with SMT.
USE ZenonT(3), SMTT(30), ZenonT(20)

\* A bucket refills while its peer is silent: the sweep forgets full ones only.
Refilled == \A p \in DOMAIN tokens : tokens[p] >= Smaller(Burst, idle[p])

\* NoExtraBurst needs Refilled for the swept peers; the cap needs the tracked peers
\* to be finitely many, which no assumption on Peers gives.
LimiterInv == TypeOK /\ IsFiniteSet(DOMAIN tokens) /\ ShardBounded /\ Refilled /\ NoExtraBurst

Methods == {"malformed", "notification", "local", "initialize", "tools/list", "tools/call"}
Responses == [id : Nat, body : {"result", "error", "internal"}]

\* The types of the bridge's state.
PostTypeOK ==
  /\ phase \in [Posts -> {"idle", "messages", "invoke", "replied"}]
  /\ from \in [Posts -> Clients \cup {"none"}]
  /\ left \in [Posts -> Nat] /\ version \in [Posts -> BOOLEAN]
  /\ messages \in [Posts -> Seq(Methods)]
  /\ out \in [Posts -> Seq(Responses)]
  /\ status \in [Posts -> {"none", "refused", "200", "202", "400", "unsent"}]

\* Where a POST stands in its batch: while it takes messages every one that asks
\* is answered, and during a call over the loopback every one but the last; once
\* it has replied, what BatchAnswered says of it.
PostOK(b) ==
  /\ phase[b] \in {"messages", "invoke"} => from[b] \in Clients
  /\ phase[b] # "replied" => status[b] = "none"
  /\ phase[b] = "idle" => messages[b] = <<>> /\ out[b] = <<>>
  /\ phase[b] = "messages" => Answers(out[b], messages[b], Asking(messages[b]))
  /\ phase[b] = "invoke" =>
       /\ Len(messages[b]) \in Asking(messages[b])
       /\ Answers(out[b], messages[b], Asking(messages[b]) \ {Len(messages[b])})
  /\ status[b] = "202" => Asking(messages[b]) = {}
  /\ status[b] = "200" /\ out[b] # <<Response(0, "internal")>> =>
       left[b] = 0 /\ Answers(out[b], messages[b], Asking(messages[b]))

PostInv == PostTypeOK /\ \A b \in Posts : PostOK(b)

-----------------------------------------------------------------------------
\* The limiter.

\* The tracked peers of a shard can be counted.
LEMMA TrackedFinite ==
  ASSUME LimiterInv, NEW s \in Shards, NEW S \in SUBSET Tracked(s)
  PROVE  /\ IsFiniteSet(S) /\ Cardinality(S) \in Nat
         /\ Cardinality(S) <= Cardinality(Tracked(s))
         /\ Cardinality(Tracked(s)) \in Nat
<1>1. Tracked(s) \subseteq DOMAIN tokens
  BY DEF Tracked
<1>2. IsFiniteSet(Tracked(s))
  BY <1>1, FS_Subset DEF LimiterInv
<1> QED
  BY <1>2, FS_Subset, FS_CardinalityType

\* The cap of a shard is at least one entry.
LEMMA CapPositive == MaxEntriesShard \in Nat /\ MaxEntriesShard >= 1
<1>1. MaxEntries \div ShardCount \in Nat
  BY ShardAssumption, CapAssumption
<1> QED BY <1>1 DEF MaxEntriesShard, Larger

\* A bucket that the sweep drops has refilled: its peer loses and gains nothing.
LEMMA SweptIsFull ==
  ASSUME LimiterInv, NEW s \in Shards, NEW swept \in Sweep(s), NEW q \in swept,
         Burst <= TTL + 1
  PROVE  q \in Tracked(s) /\ tokens[q] = Burst
<1>1. q \in Tracked(s) /\ idle[q] > TTL
  BY DEF Sweep
<1>2. q \in DOMAIN tokens
  BY <1>1 DEF Tracked
<1>3. tokens[q] \in 0..Burst /\ idle[q] \in 0..(TTL + 1) /\ tokens[q] >= Smaller(Burst, idle[q])
  BY <1>2 DEF LimiterInv, TypeOK, Refilled
<1> QED
  BY <1>1, <1>3, BucketAssumption DEF Smaller

\* The sweep of a shard drops peers of that shard only.
LEMMA SweepInside ==
  ASSUME NEW s, NEW swept \in Sweep(s)
  PROVE  swept \subseteq Tracked(s)
BY DEF Sweep

\* A full shard drops one of the peers that are left in it.
LEMMA VictimsInside ==
  ASSUME NEW S, NEW victims \in Victims(S)
  PROVE  /\ victims \subseteq S
         /\ \/ Cardinality(S) < MaxEntriesShard /\ victims = {}
            \/ \E v \in S : victims = {v}
BY DEF Victims

\* What Put leaves behind.
LEMMA PutKeeps ==
  ASSUME LimiterInv, NEW p \in Peers, NEW t \in 0..Burst, NEW gone, Put(p, t, gone)
  PROVE  /\ DOMAIN tokens' = (DOMAIN tokens \ gone) \cup {p}
         /\ \A q \in DOMAIN tokens' : tokens'[q] = IF q = p THEN t ELSE tokens[q]
         /\ DOMAIN tokens' \subseteq Peers /\ DOMAIN idle' = DOMAIN tokens'
         /\ \A q \in DOMAIN tokens' : tokens'[q] \in 0..Burst /\ idle'[q] \in 0..(TTL + 1)
         /\ IsFiniteSet(DOMAIN tokens')
         /\ Refilled'
<1> DEFINE L == (DOMAIN tokens \ gone) \cup {p}
<1>1. /\ tokens' = [q \in L |-> IF q = p THEN t ELSE tokens[q]]
      /\ idle' = [q \in L |-> IF q = p THEN 0 ELSE idle[q]]
  BY DEF Put
<1>2. DOMAIN tokens' = L /\ DOMAIN idle' = L
  BY <1>1
<1>3. L \subseteq Peers
  BY DEF LimiterInv, TypeOK
<1>4. ASSUME NEW q \in L
      PROVE  /\ tokens'[q] \in 0..Burst /\ idle'[q] \in 0..(TTL + 1)
             /\ tokens'[q] >= Smaller(Burst, idle'[q])
  <2>1. CASE q = p
    <3>1. tokens'[q] = t /\ idle'[q] = 0
      BY <1>1, <2>1
    <3> QED BY <3>1, BucketAssumption DEF Smaller
  <2>2. CASE q # p
    <3>1. tokens'[q] = tokens[q] /\ idle'[q] = idle[q] /\ q \in DOMAIN tokens
      BY <1>1, <2>2
    <3> QED BY <3>1 DEF LimiterInv, TypeOK, Refilled
  <2> QED BY <2>1, <2>2
<1>5. IsFiniteSet(L)
  <2>1. IsFiniteSet(DOMAIN tokens \ gone)
    BY FS_Subset DEF LimiterInv
  <2> QED BY <2>1, FS_AddElement
<1>6. Refilled'
  BY <1>2, <1>4 DEF Refilled
<1> HIDE DEF L
<1>7. \A q \in DOMAIN tokens' : tokens'[q] = IF q = p THEN t ELSE tokens[q]
  BY <1>1, <1>2
<1> QED
  BY <1>2, <1>3, <1>4, <1>5, <1>6, <1>7 DEF L

\* What a call is charged stays within the buckets.
LEMMA SpendTyped ==
  ASSUME NEW t \in 0..Burst
  PROVE  Spend(t) \in 0..Burst
BY BucketAssumption DEF Spend

\* The ideal bucket of the caller pays exactly when the call is allowed.
LEMMA ChargeCredit ==
  ASSUME LimiterInv, NEW t \in 0..Burst, NEW p \in Peers, NEW allowed, Charge(t, p, allowed)
  PROVE  /\ credit' \in [Peers -> 0..Burst]
         /\ \A q \in Peers \ {p} : credit'[q] = credit[q]
         /\ credit[p] = t => credit'[p] = Spend(t)
<1>1. credit \in [Peers -> 0..Burst] /\ Burst \in Nat
  BY BucketAssumption DEF LimiterInv, TypeOK
<1>2. CASE t > 0
  <2>1. credit' = [credit EXCEPT ![p] = Spend(credit[p])]
    BY <1>2 DEF Charge
  <2>2. Spend(credit[p]) \in 0..Burst
    BY <1>1, SpendTyped
  <2> QED BY <1>1, <2>1, <2>2
<1>3. CASE ~(t > 0)
  <2>1. credit' = credit
    BY <1>3 DEF Charge
  <2> QED BY <1>1, <1>3, <2>1 DEF Spend
<1> QED BY <1>2, <1>3

\* A call of a peer that has a bucket.
LEMMA KnownPeer ==
  ASSUME LimiterInv, NEW p \in Peers, NEW allowed \in BOOLEAN,
         NEW swept \in Sweep(ShardOf[p]), p \in DOMAIN tokens \ swept,
         Put(p, Spend(tokens[p]), swept), Charge(tokens[p], p, allowed),
         evicted' = evicted
  PROVE  ShardBounded' /\ NoExtraBurst'
<1> DEFINE s == ShardOf[p]
<1>1. tokens[p] \in 0..Burst /\ s \in Shards
  BY ShardAssumption DEF LimiterInv, TypeOK, Shards
<1>2. PICK t \in 0..Burst : t = Spend(tokens[p])
  BY <1>1, SpendTyped
<1>3. /\ DOMAIN tokens' = (DOMAIN tokens \ swept) \cup {p}
      /\ \A q \in DOMAIN tokens' : tokens'[q] = IF q = p THEN t ELSE tokens[q]
  <2>1. Put(p, t, swept)
    BY <1>2
  <2> QED BY <2>1, PutKeeps
<1>4. ShardBounded'
  <2> SUFFICES ASSUME NEW r \in Shards PROVE Cardinality(Tracked(r)') <= MaxEntriesShard
    BY DEF ShardBounded, Shards, MaxEntriesShard
  <2>1. Tracked(r)' \in SUBSET Tracked(r)
    BY <1>3 DEF Tracked
  <2>2. Cardinality(Tracked(r)) <= MaxEntriesShard
    BY DEF LimiterInv, ShardBounded
  <2> QED BY <2>1, <2>2, TrackedFinite, CapPositive
<1>5. NoExtraBurst'
  <2> SUFFICES ASSUME Burst <= TTL + 1, NEW q \in Peers \ evicted
               PROVE  credit'[q] = IF q \in DOMAIN tokens' THEN tokens'[q] ELSE Burst
    BY DEF NoExtraBurst
  <2>1. credit[q] = IF q \in DOMAIN tokens THEN tokens[q] ELSE Burst
    BY DEF LimiterInv, NoExtraBurst
  <2>2. CASE q = p
    <3>1. credit[p] = tokens[p]
      BY <2>1, <2>2
    <3>2. credit'[p] = Spend(tokens[p])
      BY <3>1, <1>1, ChargeCredit
    <3>3. p \in DOMAIN tokens' /\ tokens'[p] = Spend(tokens[p])
      BY <1>2, <1>3
    <3> QED BY <2>2, <3>2, <3>3
  <2>3. CASE q # p
    <3>1. credit'[q] = credit[q]
      BY <1>1, <2>3, ChargeCredit
    <3>2. CASE q \in swept
      <4>1. q \in DOMAIN tokens /\ tokens[q] = Burst
        BY <1>1, <3>2, SweptIsFull DEF Tracked
      <4>2. q \notin DOMAIN tokens'
        BY <1>3, <2>3, <3>2
      <4> QED BY <2>1, <3>1, <4>1, <4>2
    <3>3. CASE q \notin swept
      <4>1. (q \in DOMAIN tokens') = (q \in DOMAIN tokens)
        BY <1>3, <2>3, <3>3
      <4>2. q \in DOMAIN tokens' => tokens'[q] = tokens[q]
        BY <1>3, <2>3
      <4> QED BY <2>1, <3>1, <4>1, <4>2
    <3> QED BY <3>2, <3>3
  <2> QED BY <2>2, <2>3
<1> QED BY <1>4, <1>5

\* A call of a peer without a bucket: a full shard makes room first.
LEMMA NewPeer ==
  ASSUME LimiterInv, NEW p \in Peers, NEW allowed \in BOOLEAN,
         NEW swept \in Sweep(ShardOf[p]), p \notin DOMAIN tokens \ swept,
         NEW victims \in Victims(Tracked(ShardOf[p]) \ swept),
         Put(p, Spend(Burst), swept \cup victims), Charge(Burst, p, allowed),
         evicted' = evicted \cup victims
  PROVE  ShardBounded' /\ NoExtraBurst' /\ evicted' \subseteq Peers
<1> DEFINE s == ShardOf[p]
           L == Tracked(s) \ swept
<1>1. Burst \in 0..Burst /\ Burst > 0 /\ s \in Shards
  BY ShardAssumption, BucketAssumption DEF Shards
<1>2. Spend(Burst) \in 0..Burst
  BY <1>1, SpendTyped
<1>3. /\ DOMAIN tokens' = (DOMAIN tokens \ (swept \cup victims)) \cup {p}
      /\ \A q \in DOMAIN tokens' : tokens'[q] = IF q = p THEN Spend(Burst) ELSE tokens[q]
  BY <1>2, PutKeeps
<1>4. /\ victims \subseteq L
      /\ \/ Cardinality(L) < MaxEntriesShard /\ victims = {}
         \/ \E v \in L : victims = {v}
  BY VictimsInside
<1>5. ShardBounded'
  <2> SUFFICES ASSUME NEW r \in Shards PROVE Cardinality(Tracked(r)') <= MaxEntriesShard
    BY DEF ShardBounded, Shards, MaxEntriesShard
  <2>1. Cardinality(Tracked(r)) <= MaxEntriesShard
    BY DEF LimiterInv, ShardBounded
  <2>2. CASE r # s
    <3>1. Tracked(r)' \in SUBSET Tracked(r)
      BY <1>3, <2>2 DEF Tracked
    <3> QED BY <2>1, <3>1, TrackedFinite, CapPositive
  <2>3. CASE r = s
    <3>1. Tracked(r)' = (L \ victims) \cup {p} /\ p \notin L \ victims
      BY <1>3, <2>3 DEF Tracked
    <3>2. L \in SUBSET Tracked(r) /\ L \ victims \in SUBSET Tracked(r)
      BY <2>3
    <3>3. /\ IsFiniteSet(L) /\ Cardinality(L) \in Nat /\ Cardinality(L) <= MaxEntriesShard
          /\ IsFiniteSet(L \ victims)
      BY <2>1, <3>2, TrackedFinite, CapPositive
    <3>4. Cardinality(Tracked(r)') = Cardinality(L \ victims) + 1
      BY <3>1, <3>3, FS_AddElement
    <3>5. CASE Cardinality(L) < MaxEntriesShard /\ victims = {}
      <4>1. L \ victims = L
        BY <3>5
      <4> HIDE DEF L
      <4> QED BY <3>3, <3>4, <3>5, <4>1, CapPositive
    <3>6. ASSUME NEW v \in L, victims = {v} PROVE Cardinality(Tracked(r)') <= MaxEntriesShard
      <4>1. Cardinality(L \ victims) = Cardinality(L) - 1
        BY <3>3, <3>6, FS_RemoveElement
      <4> HIDE DEF L
      <4> QED BY <3>3, <3>4, <4>1, CapPositive
    <3> QED BY <1>4, <3>5, <3>6
  <2> QED BY <2>2, <2>3
<1>6. NoExtraBurst'
  <2> SUFFICES ASSUME Burst <= TTL + 1, NEW q \in Peers \ evicted'
               PROVE  credit'[q] = IF q \in DOMAIN tokens' THEN tokens'[q] ELSE Burst
    BY DEF NoExtraBurst
  <2>0. q \in Peers \ evicted /\ q \notin victims
    OBVIOUS
  <2>1. credit[q] = IF q \in DOMAIN tokens THEN tokens[q] ELSE Burst
    BY <2>0 DEF LimiterInv, NoExtraBurst
  <2>2. q \in swept => q \in DOMAIN tokens /\ tokens[q] = Burst
    BY <1>1, SweptIsFull DEF Tracked
  <2>3. CASE q = p
    <3>1. credit[p] = Burst
      BY <2>1, <2>2, <2>3
    <3>2. credit'[p] = Spend(Burst)
      BY <3>1, <1>1, ChargeCredit
    <3>3. p \in DOMAIN tokens' /\ tokens'[p] = Spend(Burst)
      BY <1>3
    <3> QED BY <2>3, <3>2, <3>3
  <2>4. CASE q # p
    <3>1. credit'[q] = credit[q]
      BY <1>1, <2>0, <2>4, ChargeCredit
    <3>2. CASE q \in swept
      <4>1. q \notin DOMAIN tokens'
        BY <1>3, <2>4, <3>2
      <4> QED BY <2>1, <2>2, <3>1, <3>2, <4>1
    <3>3. CASE q \notin swept
      <4>1. (q \in DOMAIN tokens') = (q \in DOMAIN tokens)
        BY <1>3, <2>0, <2>4, <3>3
      <4>2. q \in DOMAIN tokens' => tokens'[q] = tokens[q]
        BY <1>3, <2>4
      <4> QED BY <2>1, <3>1, <4>1, <4>2
    <3> QED BY <3>2, <3>3
  <2> QED BY <2>3, <2>4
<1>7. evicted' \subseteq Peers
  BY <1>4 DEF Tracked, LimiterInv, TypeOK
<1> QED BY <1>5, <1>6, <1>7

\* allow keeps the invariant when the key a call is counted under is its caller's.
LEMMA CallInv ==
  ASSUME LimiterInv, NEW p \in Peers, NEW allowed \in BOOLEAN, Call(p, p, allowed)
  PROVE  LimiterInv'
<1> DEFINE s == ShardOf[p]
<1>1. evictCount' \in [Shards -> 0..(EvictBatch - 1)]
  <2>1. evictCount' = [evictCount EXCEPT ![s] = (evictCount[s] + 1) % EvictBatch]
    BY DEF Call
  <2>2. s \in Shards /\ evictCount[s] \in Nat /\ evictCount \in [Shards -> 0..(EvictBatch - 1)]
    BY ShardAssumption DEF LimiterInv, TypeOK, Shards
  <2>3. (evictCount[s] + 1) % EvictBatch \in 0..(EvictBatch - 1)
    BY <2>2, CapAssumption
  <2> QED BY <2>1, <2>2, <2>3
<1>2. PICK swept \in Sweep(s) :
        IF p \in DOMAIN tokens \ swept
        THEN /\ Put(p, Spend(tokens[p]), swept)
             /\ Charge(tokens[p], p, allowed)
             /\ UNCHANGED evicted
        ELSE \E victims \in Victims(Tracked(s) \ swept) :
               /\ Put(p, Spend(Burst), swept \cup victims)
               /\ Charge(Burst, p, allowed)
               /\ evicted' = evicted \cup victims
  BY DEF Call
<1>3. \E t \in 0..Burst : \E gone : Put(p, Spend(t), gone) /\ Charge(t, p, allowed)
  <2>1. CASE p \in DOMAIN tokens \ swept
    BY <1>2, <2>1 DEF LimiterInv, TypeOK
  <2>2. CASE p \notin DOMAIN tokens \ swept
    <3>1. Burst \in 0..Burst
      BY BucketAssumption
    <3> QED BY <1>2, <2>2, <3>1
  <2> QED BY <2>1, <2>2
<1>4. PICK t \in 0..Burst : \E gone : Put(p, Spend(t), gone) /\ Charge(t, p, allowed)
  BY <1>3
<1>5. Spend(t) \in 0..Burst
  BY SpendTyped
<1>6. /\ DOMAIN tokens' \subseteq Peers /\ DOMAIN idle' = DOMAIN tokens'
      /\ \A q \in DOMAIN tokens' : tokens'[q] \in 0..Burst /\ idle'[q] \in 0..(TTL + 1)
      /\ IsFiniteSet(DOMAIN tokens')
      /\ Refilled'
  BY <1>4, <1>5, PutKeeps
<1>7. credit' \in [Peers -> 0..Burst]
  BY <1>4, ChargeCredit
<1>8. ShardBounded' /\ NoExtraBurst' /\ evicted' \subseteq Peers
  <2>1. CASE p \in DOMAIN tokens \ swept
    BY <1>2, <2>1, KnownPeer DEF LimiterInv, TypeOK
  <2>2. CASE p \notin DOMAIN tokens \ swept
    BY <1>2, <2>2, NewPeer
  <2> QED BY <2>1, <2>2
<1> QED
  BY <1>1, <1>6, <1>7, <1>8 DEF LimiterInv, TypeOK, Shards

\* A limiter starts with nobody tracked.
LEMMA InitLimiter == Init => LimiterInv
<1> SUFFICES ASSUME Init PROVE LimiterInv OBVIOUS
<1>1. DOMAIN tokens = {} /\ DOMAIN idle = {}
  BY DEF Init
<1>2. TypeOK
  BY <1>1, CapAssumption, BucketAssumption DEF Init, TypeOK, Shards
<1>3. ShardBounded
  <2>1. \A s \in Shards : Tracked(s) = {}
    BY <1>1 DEF Tracked
  <2> QED BY <2>1, FS_EmptySet, CapPositive DEF ShardBounded
<1>4. Refilled /\ NoExtraBurst
  BY <1>1 DEF Init, Refilled, NoExtraBurst
<1> QED BY <1>1, <1>2, <1>3, <1>4, FS_EmptySet DEF LimiterInv

\* A bucket refills as the ideal one does, and at least as fast as it ages.
LEMMA TickInv ==
  ASSUME LimiterInv, Tick
  PROVE  LimiterInv'
<1> USE BucketAssumption
<1>1. /\ DOMAIN tokens' = DOMAIN tokens /\ DOMAIN idle' = DOMAIN tokens
      /\ \A p \in DOMAIN tokens :
           /\ tokens'[p] = Smaller(tokens[p] + 1, Burst)
           /\ idle'[p] = Smaller(idle[p] + 1, TTL + 1)
  BY DEF Tick, LimiterInv, TypeOK
<1>2. \A p \in DOMAIN tokens :
        /\ tokens[p] \in 0..Burst /\ idle[p] \in 0..(TTL + 1)
        /\ tokens[p] >= Smaller(Burst, idle[p])
  BY DEF LimiterInv, TypeOK, Refilled
<1>3. \A p \in DOMAIN tokens :
        /\ tokens'[p] \in 0..Burst /\ idle'[p] \in 0..(TTL + 1)
        /\ tokens'[p] >= Smaller(Burst, idle'[p])
  BY <1>1, <1>2 DEF Smaller
<1>4. credit \in [Peers -> 0..Burst] /\ credit' = [p \in Peers |-> Smaller(credit[p] + 1, Burst)]
  BY DEF Tick, LimiterInv, TypeOK
<1>5. credit' \in [Peers -> 0..Burst]
  BY <1>4 DEF Smaller
<1>6. TypeOK'
  BY <1>1, <1>3, <1>5 DEF Tick, LimiterInv, TypeOK, Shards
<1>7. ShardBounded'
  <2>1. \A s \in Shards : Tracked(s)' = Tracked(s)
    BY <1>1 DEF Tracked
  <2> QED BY <2>1 DEF LimiterInv, ShardBounded, Shards, MaxEntriesShard
<1>8. NoExtraBurst'
  <2> SUFFICES ASSUME Burst <= TTL + 1, NEW q \in Peers \ evicted'
               PROVE  credit'[q] = IF q \in DOMAIN tokens' THEN tokens'[q] ELSE Burst
    BY DEF NoExtraBurst
  <2>1. credit[q] = IF q \in DOMAIN tokens THEN tokens[q] ELSE Burst
    BY DEF Tick, LimiterInv, NoExtraBurst
  <2> QED BY <1>1, <1>4, <2>1 DEF Smaller
<1>9. Refilled'
  BY <1>1, <1>3 DEF Refilled
<1> QED BY <1>1, <1>6, <1>7, <1>8, <1>9 DEF LimiterInv

\* Nothing happens to the limiter.
LEMMA LimiterIdle ==
  ASSUME LimiterInv, UNCHANGED vars
  PROVE  LimiterInv'
BY DEF LimiterInv, vars, TypeOK, ShardBounded, Tracked, Refilled, NoExtraBurst, Shards, MaxEntriesShard

\* Whatever way a call comes in and whatever it claims, it is counted under the
\* key of the client's own address.
LEMMA OwnKey ==
  ASSUME NEW c \in Clients
  PROVE  /\ KeyOf[c] \in Peers
         /\ GRPCKeys(c) = {KeyOf[c]}
         /\ GatewayKeys(c) = {KeyOf[c]}
         /\ PeerKey(Loopback, <<c>>) = KeyOf[c]
<1>1. KeyOf[c] \in Peers
  BY KeyAssumption
<1>2. \A claims : PeerKey(c, claims) = KeyOf[c]
  BY KeyAssumption DEF PeerKey
<1>3. PeerKey(Loopback, <<c>>) = KeyOf[c]
  BY DEF PeerKey
<1>4. <<>> \o <<c>> = <<c>>
  OBVIOUS
<1>5. <<>> \in Claims
  BY DEF Claims
<1>6. GRPCKeys(c) = {KeyOf[c]}
  BY <1>2, <1>5 DEF GRPCKeys
<1>7. GatewayKeys(c) = {KeyOf[c]}
  BY <1>3, <1>4, <1>5 DEF GatewayKeys, IncomingHeaderMatcher
<1> QED BY <1>1, <1>3, <1>6, <1>7

-----------------------------------------------------------------------------
\* The batch.

\* A message that is taken asks, or does not, at the end of the batch.
LEMMA AskingAppend ==
  ASSUME NEW S, NEW ms \in Seq(S), NEW m \in S
  PROVE  /\ Append(ms, m) \in Seq(S)
         /\ Len(Append(ms, m)) = Len(ms) + 1
         /\ Append(ms, m)[Len(ms) + 1] = m
         /\ m = "notification" => Asking(Append(ms, m)) = Asking(ms)
         /\ m # "notification" => Asking(Append(ms, m)) = Asking(ms) \cup {Len(ms) + 1}
<1>1. /\ Append(ms, m) \in Seq(S) /\ Len(ms) \in Nat
      /\ Len(Append(ms, m)) = Len(ms) + 1
      /\ Append(ms, m)[Len(ms) + 1] = m
      /\ \A i \in 1..Len(ms) : Append(ms, m)[i] = ms[i]
  BY AppendProperties, LenProperties
<1>2. 1..(Len(ms) + 1) = (1..Len(ms)) \cup {Len(ms) + 1}
  BY <1>1
<1> QED BY <1>1, <1>2 DEF Asking

\* Messages taken later leave the answers to earlier ones in place.
LEMMA AnswersStay ==
  ASSUME NEW S, NEW ms \in Seq(S), NEW m \in S, NEW rs,
         NEW asking \in SUBSET (1..Len(ms)), Answers(rs, ms, asking)
  PROVE  Answers(rs, Append(ms, m), asking)
<1>1. \A i \in 1..Len(ms) : Append(ms, m)[i] = ms[i]
  BY AppendProperties
<1>2. PICK at \in [1..Len(rs) -> asking] :
        /\ \A i, j \in 1..Len(rs) : i < j => at[i] < at[j]
        /\ \A i \in asking : \E j \in 1..Len(rs) : at[j] = i
        /\ \A j \in 1..Len(rs) : rs[j].id = at[j] \/ (rs[j].id = 0 /\ ms[at[j]] = "malformed")
  BY DEF Answers
<1>3. \A j \in 1..Len(rs) : Append(ms, m)[at[j]] = ms[at[j]]
  BY <1>1
<1> SUFFICES \E up \in [1..Len(rs) -> asking] :
               /\ \A i, j \in 1..Len(rs) : i < j => up[i] < up[j]
               /\ \A i \in asking : \E j \in 1..Len(rs) : up[j] = i
               /\ \A j \in 1..Len(rs) :
                    rs[j].id = up[j] \/ (rs[j].id = 0 /\ Append(ms, m)[up[j]] = "malformed")
  BY DEF Answers
<1> WITNESS at \in [1..Len(rs) -> asking]
<1> QED BY <1>2, <1>3

\* One more response answers one more message, at the end.
LEMMA AnswersGrow ==
  ASSUME NEW R, NEW rs \in Seq(R), NEW ms, NEW n \in Nat,
         NEW asking \in SUBSET Nat, \A i \in asking : i < n,
         Answers(rs, ms, asking),
         NEW r \in R,
         r.id = n \/ (r.id = 0 /\ ms[n] = "malformed")
  PROVE  Answers(Append(rs, r), ms, asking \cup {n})
<1> DEFINE k == Len(rs)
           qs == Append(rs, r)
<1>1. /\ k \in Nat /\ Len(qs) = k + 1 /\ qs[k + 1] = r
      /\ \A j \in 1..k : qs[j] = rs[j]
  BY AppendProperties, LenProperties
<1>2. PICK at \in [1..k -> asking] :
        /\ \A i, j \in 1..k : i < j => at[i] < at[j]
        /\ \A i \in asking : \E j \in 1..k : at[j] = i
        /\ \A j \in 1..k : rs[j].id = at[j] \/ (rs[j].id = 0 /\ ms[at[j]] = "malformed")
  BY DEF Answers
<1>a. \A j \in 1..k : at[j] \in asking /\ at[j] \in Nat /\ at[j] < n
  OBVIOUS
<1> DEFINE to == [j \in 1..(k + 1) |-> IF j = k + 1 THEN n ELSE at[j]]
<1> HIDE DEF k, qs
<1>3. to \in [1..(k + 1) -> asking \cup {n}]
  BY <1>1
<1>4. to[k + 1] = n /\ \A j \in 1..k : to[j] = at[j]
  BY <1>1
<1> HIDE DEF to
<1>b. \A j \in 1..(k + 1) : j = k + 1 \/ j \in 1..k
  BY <1>1
<1>5. \A i, j \in 1..(k + 1) : i < j => to[i] < to[j]
  BY <1>1, <1>2, <1>4, <1>a, <1>b
<1>6. \A i \in asking \cup {n} : \E j \in 1..(k + 1) : to[j] = i
  BY <1>1, <1>2, <1>4, <1>a, <1>b
<1>7. \A j \in 1..(k + 1) : qs[j].id = to[j] \/ (qs[j].id = 0 /\ ms[to[j]] = "malformed")
  BY <1>1, <1>2, <1>4, <1>a, <1>b
<1>8. Answers(qs, ms, asking \cup {n})
  <2>1. to \in [1..Len(qs) -> asking \cup {n}]
    BY <1>1, <1>3
  <2> SUFFICES \E up \in [1..Len(qs) -> asking \cup {n}] :
                 /\ \A i, j \in 1..Len(qs) : i < j => up[i] < up[j]
                 /\ \A i \in asking \cup {n} : \E j \in 1..Len(qs) : up[j] = i
                 /\ \A j \in 1..Len(qs) :
                      qs[j].id = up[j] \/ (qs[j].id = 0 /\ ms[up[j]] = "malformed")
    BY DEF Answers
  <2> WITNESS to \in [1..Len(qs) -> asking \cup {n}]
  <2> QED BY <1>1, <1>5, <1>6, <1>7
<1> QED BY <1>8 DEF qs

-----------------------------------------------------------------------------
\* The steps of a POST.

\* The state of d's connection is left alone.
Same(d) ==
  /\ phase'[d] = phase[d] /\ from'[d] = from[d] /\ left'[d] = left[d]
  /\ version'[d] = version[d] /\ messages'[d] = messages[d]
  /\ out'[d] = out[d] /\ status'[d] = status[d]

\* A step of one connection only has to keep that connection's part.
LEMMA OnePost ==
  ASSUME PostInv, NEW b \in Posts, PostTypeOK', PostOK(b)',
         \A d \in Posts \ {b} : Same(d)
  PROVE  PostInv'
<1>1. ASSUME NEW d \in Posts \ {b} PROVE PostOK(d)'
  <2>1. PostOK(d) /\ Same(d)
    BY DEF PostInv
  <2> QED BY <2>1 DEF PostOK, Same
<1> QED BY <1>1 DEF PostInv

\* The next message of the batch is taken.
LEMMA Taken ==
  ASSUME PostInv, NEW b \in Posts, NEW m \in Methods, Take(b, m)
  PROVE  /\ messages'[b] = Append(messages[b], m)
         /\ messages[b] \in Seq(Methods)
         /\ Answers(out[b], messages[b], Asking(messages[b]))
         /\ Answers(out[b], messages'[b], Asking(messages[b]))
         /\ status[b] = "none" /\ from'[b] \in Clients
         /\ left' \in [Posts -> Nat] /\ messages' \in [Posts -> Seq(Methods)]
         /\ from' \in [Posts -> Clients \cup {"none"}] /\ version' \in [Posts -> BOOLEAN]
         /\ \A d \in Posts \ {b} :
              /\ from'[d] = from[d] /\ left'[d] = left[d]
              /\ version'[d] = version[d] /\ messages'[d] = messages[d]
<1> USE DEF PostInv
<1>1. PostTypeOK /\ PostOK(b) /\ phase[b] = "messages" /\ left[b] > 0
  BY DEF Take
<1>2. /\ messages' = [messages EXCEPT ![b] = Append(messages[b], m)]
      /\ left' = [left EXCEPT ![b] = left[b] - 1]
      /\ from' = from /\ version' = version
  BY DEF Take
<1>3. messages[b] \in Seq(Methods) /\ Append(messages[b], m) \in Seq(Methods)
  BY <1>1, AppendProperties DEF PostTypeOK
<1>4. left[b] - 1 \in Nat
  BY <1>1 DEF PostTypeOK
<1>5. Answers(out[b], messages[b], Asking(messages[b]))
  BY <1>1 DEF PostOK
<1>6. Asking(messages[b]) \in SUBSET (1..Len(messages[b]))
  BY DEF Asking
<1>7. Answers(out[b], Append(messages[b], m), Asking(messages[b]))
  BY <1>3, <1>5, <1>6, AnswersStay
<1> QED
  BY <1>1, <1>2, <1>3, <1>4, <1>5, <1>7 DEF PostTypeOK, PostOK

\* A message that asks is taken and answered.
LEMMA RespondInv ==
  ASSUME PostInv, NEW b \in Posts, NEW m \in Methods \ {"notification"}, Take(b, m),
         NEW id \in Nat, NEW body \in {"result", "error"}, Respond(b, id, body),
         id = Position(b) \/ (id = 0 /\ m = "malformed")
  PROVE  PostInv'
<1> DEFINE r == Response(id, body)
           n == Len(messages[b]) + 1
<1>1. PostTypeOK /\ PostOK(b) /\ phase[b] = "messages"
  BY DEF PostInv, Take
<1>2. /\ out' = [out EXCEPT ![b] = Append(out[b], r)]
      /\ phase' = phase /\ status' = status
  BY DEF Respond
<1>3. r \in Responses /\ r.id = id
  BY DEF Response, Responses
<1>4. out[b] \in Seq(Responses) /\ Append(out[b], r) \in Seq(Responses)
  BY <1>1, <1>3, AppendProperties DEF PostTypeOK
<1>5. PostTypeOK'
  BY <1>1, <1>2, <1>4, Taken DEF PostTypeOK
<1>6. /\ messages'[b] = Append(messages[b], m) /\ messages[b] \in Seq(Methods)
      /\ Answers(out[b], messages'[b], Asking(messages[b]))
      /\ status'[b] = "none" /\ from'[b] \in Clients
  BY <1>2, Taken
<1>7. /\ Asking(messages'[b]) = Asking(messages[b]) \cup {n}
      /\ messages'[b][n] = m /\ n \in Nat
      /\ Asking(messages[b]) \in SUBSET Nat /\ \A i \in Asking(messages[b]) : i < n
  <2>1. Len(messages[b]) \in Nat
    BY <1>6, LenProperties
  <2>2. Asking(messages[b]) \in SUBSET Nat /\ \A i \in Asking(messages[b]) : i < n
    BY <2>1 DEF Asking
  <2> QED BY <1>6, <2>1, <2>2, AskingAppend
<1>8. r.id = n \/ (r.id = 0 /\ messages'[b][n] = "malformed")
  BY <1>3, <1>7 DEF Position
<1>9. out'[b] = Append(out[b], r)
  BY <1>1, <1>2 DEF PostTypeOK
<1>10. Answers(out'[b], messages'[b], Asking(messages'[b]))
  <2>1. PICK ms, as, k, rs, q : ms = messages'[b] /\ as = Asking(messages[b]) /\ k = n /\ rs = out[b] /\ q = r
    OBVIOUS
  <2>2. Answers(Append(rs, q), ms, as \cup {k})
    BY <1>3, <1>4, <1>6, <1>7, <1>8, <2>1, AnswersGrow
  <2> QED BY <1>7, <1>9, <2>1, <2>2
<1>11. PostOK(b)'
  BY <1>1, <1>2, <1>6, <1>10 DEF PostOK
<1>12. \A d \in Posts \ {b} : Same(d)
  BY <1>1, <1>2, Taken DEF Same, PostTypeOK
<1> QED BY <1>5, <1>11, <1>12, OnePost

\* The messages the bridge answers itself.
LEMMA LocalInv ==
  ASSUME PostInv, NEW b \in Posts, Malformed(b) \/ Capped(b) \/ Local(b)
  PROVE  PostInv'
<1>1. Position(b) \in Nat
  <2>1. messages[b] \in Seq(Methods)
    BY DEF PostInv, PostTypeOK
  <2> QED BY <2>1, LenProperties DEF Position
<1>2. \E m \in Methods \ {"notification"}, id \in Nat, body \in {"result", "error"} :
        /\ Take(b, m) /\ Respond(b, id, body)
        /\ id = Position(b) \/ (id = 0 /\ m = "malformed")
  <2>1. CASE Malformed(b)
    BY <1>1, <2>1 DEF Malformed, Methods
  <2>2. CASE Capped(b)
    <3>1. PICK m \in {"initialize", "tools/list"} :
            Take(b, m) /\ Respond(b, Position(b), IF Served(b, m) THEN "error" ELSE "result")
      BY <2>2 DEF Capped
    <3>2. PICK body \in {"result", "error"} : body = IF Served(b, m) THEN "error" ELSE "result"
      OBVIOUS
    <3> QED BY <1>1, <3>1, <3>2 DEF Methods
  <2>3. CASE Local(b)
    BY <1>1, <2>3 DEF Local, Methods
  <2> QED BY <2>1, <2>2, <2>3
<1> QED BY <1>2, RespondInv

\* A notification is dropped; a tools/call waits for its answer.
LEMMA SilentInv ==
  ASSUME PostInv, NEW b \in Posts, Notification(b) \/ StartCall(b)
  PROVE  PostInv'
<1>1. PostTypeOK /\ PostOK(b) /\ phase[b] = "messages"
  BY DEF PostInv, Notification, StartCall, Take
<1>2. PICK m \in {"notification", "tools/call"} :
        /\ Take(b, m) /\ out' = out /\ status' = status
        /\ phase' = IF m = "notification" THEN phase ELSE [phase EXCEPT ![b] = "invoke"]
  BY DEF Notification, StartCall
<1>3. m \in Methods
  BY DEF Methods
<1>4. PostTypeOK'
  <2>1. phase' \in [Posts -> {"idle", "messages", "invoke", "replied"}]
    BY <1>1, <1>2 DEF PostTypeOK
  <2> QED BY <1>1, <1>2, <1>3, <2>1, Taken DEF PostTypeOK
<1>5. /\ messages'[b] = Append(messages[b], m) /\ messages[b] \in Seq(Methods)
      /\ Answers(out[b], messages'[b], Asking(messages[b]))
      /\ status'[b] = "none" /\ from'[b] \in Clients
  BY <1>2, <1>3, Taken
<1>6. /\ Len(messages'[b]) = Len(messages[b]) + 1
      /\ m = "notification" => Asking(messages'[b]) = Asking(messages[b])
      /\ m # "notification" =>
           Asking(messages'[b]) = Asking(messages[b]) \cup {Len(messages[b]) + 1}
  <2>1. PICK ms : ms = messages[b]
    OBVIOUS
  <2>2. /\ Len(Append(ms, m)) = Len(ms) + 1
        /\ m = "notification" => Asking(Append(ms, m)) = Asking(ms)
        /\ m # "notification" => Asking(Append(ms, m)) = Asking(ms) \cup {Len(ms) + 1}
    BY <1>3, <1>5, <2>1, AskingAppend
  <2> QED BY <1>5, <2>1, <2>2
<1>7. Len(messages[b]) + 1 \notin Asking(messages[b])
  BY <1>5, LenProperties DEF Asking
<1>8. PostOK(b)'
  <2>1. CASE m = "notification"
    BY <1>1, <1>2, <1>5, <1>6, <2>1 DEF PostOK
  <2>2. CASE m # "notification"
    <3>1. phase'[b] = "invoke" /\ out'[b] = out[b]
      BY <1>1, <1>2, <2>2 DEF PostTypeOK
    <3>2. /\ Len(messages'[b]) \in Asking(messages'[b])
          /\ Asking(messages'[b]) \ {Len(messages'[b])} = Asking(messages[b])
      BY <1>6, <1>7, <2>2
    <3> QED BY <1>5, <3>1, <3>2 DEF PostOK
  <2> QED BY <2>1, <2>2
<1>9. \A d \in Posts \ {b} : Same(d)
  BY <1>1, <1>2, <1>3, Taken DEF Same, PostTypeOK
<1> QED BY <1>4, <1>8, <1>9, OnePost

\* writeRPCValue: the responses are written, or none of them.
LEMMA ReplyInv ==
  ASSUME PostInv, NEW b \in Posts, NEW code \in {"200", "400"}, NEW rs \in Seq(Responses),
         Reply(b, code, rs),
         left' \in [Posts -> Nat], messages' \in [Posts -> Seq(Methods)],
         UNCHANGED <<from, version>>,
         \A d \in Posts \ {b} : left'[d] = left[d] /\ messages'[d] = messages[d],
         code = "200" /\ rs # <<Response(0, "internal")>> =>
           left'[b] = 0 /\ Answers(rs, messages'[b], Asking(messages'[b]))
  PROVE  PostInv'
<1>1. PostTypeOK /\ <<>> \in Seq(Responses)
  BY DEF PostInv
<1>2. PICK c \in {code, "unsent"}, q \in Seq(Responses) :
        /\ c = code => q = rs
        /\ status' = [status EXCEPT ![b] = c] /\ out' = [out EXCEPT ![b] = q]
  BY <1>1 DEF Reply
<1>3. phase' = [phase EXCEPT ![b] = "replied"]
  BY DEF Reply
<1>4. PostTypeOK'
  BY <1>1, <1>2, <1>3 DEF PostTypeOK
<1>5. PostOK(b)'
  BY <1>1, <1>2, <1>3 DEF PostOK, PostTypeOK
<1>6. \A d \in Posts \ {b} : Same(d)
  BY <1>1, <1>2, <1>3 DEF Same, PostTypeOK
<1> QED BY <1>4, <1>5, <1>6, OnePost

\* Of an unsupported revision, one error is the whole reply.
LEMMA BadVersionInv ==
  ASSUME PostInv, NEW b \in Posts, BadVersion(b)
  PROVE  PostInv'
<1>1. Position(b) \in Nat
  <2>1. messages[b] \in Seq(Methods)
    BY DEF PostInv, PostTypeOK
  <2> QED BY <2>1, LenProperties DEF Position
<1>2. PICK m \in {"local", "notification"}, id \in Nat :
        Take(b, m) /\ Reply(b, "400", <<Response(id, "error")>>)
  BY <1>1 DEF BadVersion
<1>3. m \in Methods
  BY DEF Methods
<1>4. Response(id, "error") \in Responses
  BY DEF Response, Responses
<1>5. PICK rs \in Seq(Responses) : rs = <<Response(id, "error")>>
  <2>1. <<Response(id, "error")>> \in Seq(Responses)
    BY <1>4
  <2> QED BY <2>1
<1>6. UNCHANGED <<from, version>>
  BY <1>2 DEF Take
<1> QED BY <1>2, <1>3, <1>5, <1>6, Taken, ReplyInv

\* The end of the batch.
LEMMA WriteAllInv ==
  ASSUME PostInv, NEW b \in Posts, WriteAll(b)
  PROVE  PostInv'
<1>1. /\ PostTypeOK /\ PostOK(b) /\ phase[b] = "messages" /\ left[b] = 0
      /\ UNCHANGED <<from, left, version, messages>>
      /\ Answers(out[b], messages[b], Asking(messages[b]))
  BY DEF PostInv, WriteAll, PostOK
<1>2. CASE out[b] = <<>>
  <2>1. /\ phase' = [phase EXCEPT ![b] = "replied"]
        /\ status' = [status EXCEPT ![b] = "202"] /\ out' = out
    BY <1>2 DEF WriteAll
  <2>2. Asking(messages[b]) = {}
    BY <1>1, <1>2 DEF Answers
  <2>3. PostTypeOK'
    BY <1>1, <2>1 DEF PostTypeOK
  <2>4. PostOK(b)'
    BY <1>1, <2>1, <2>2 DEF PostOK, PostTypeOK
  <2>5. \A d \in Posts \ {b} : Same(d)
    BY <1>1, <2>1 DEF Same, PostTypeOK
  <2> QED BY <2>3, <2>4, <2>5, OnePost
<1>3. CASE out[b] # <<>>
  <2>1. PICK rs \in Seq(Responses) : rs = out[b] /\ Reply(b, "200", rs)
    BY <1>1, <1>3 DEF WriteAll, PostTypeOK
  <2> QED BY <1>1, <2>1, ReplyInv DEF PostTypeOK
<1> QED BY <1>2, <1>3

\* A panic in toolsCall answers for the whole POST.
LEMMA RecoverInv ==
  ASSUME PostInv, NEW b \in Posts, Recover(b)
  PROVE  PostInv'
<1>1. Response(0, "internal") \in Responses
  BY DEF Response, Responses
<1>2. PICK rs \in Seq(Responses) : rs = <<Response(0, "internal")>>
  <2>1. <<Response(0, "internal")>> \in Seq(Responses)
    BY <1>1
  <2> QED BY <2>1
<1> QED BY <1>2, ReplyInv DEF Recover, PostInv, PostTypeOK

\* conn.Invoke has returned: its message is answered.
LEMMA EndCallInv ==
  ASSUME PostInv, NEW b \in Posts, NEW body \in {"result", "error"}, EndCall(b, body)
  PROVE  PostInv'
<1> DEFINE n == Len(messages[b])
           r == Response(n, body)
           A == Asking(messages[b])
<1>1. /\ PostTypeOK /\ PostOK(b) /\ phase[b] = "invoke"
      /\ UNCHANGED <<from, left, version, messages, status>>
      /\ phase' = [phase EXCEPT ![b] = "messages"]
      /\ out' = [out EXCEPT ![b] = Append(out[b], r)]
  BY DEF PostInv, EndCall
<1>2. n \in A /\ Answers(out[b], messages[b], A \ {n})
  BY <1>1 DEF PostOK
<1>3. /\ n \in Nat /\ r \in Responses /\ r.id = n
      /\ A \ {n} \in SUBSET Nat /\ \A i \in A \ {n} : i < n
  <2>1. messages[b] \in Seq(Methods)
    BY <1>1 DEF PostTypeOK
  <2>2. n \in Nat
    BY <2>1, LenProperties
  <2> QED BY <2>2 DEF Asking, Response, Responses
<1>4. out[b] \in Seq(Responses) /\ Append(out[b], r) \in Seq(Responses)
  BY <1>1, <1>3, AppendProperties DEF PostTypeOK
<1>5. Answers(Append(out[b], r), messages[b], A)
  <2>1. PICK ms, as, k, rs, q : ms = messages[b] /\ as = A \ {n} /\ k = n /\ rs = out[b] /\ q = r
    OBVIOUS
  <2>2. Answers(Append(rs, q), ms, as \cup {k})
    BY <1>2, <1>3, <1>4, <2>1, AnswersGrow
  <2>3. as \cup {k} = A
    BY <1>2, <2>1
  <2> QED BY <2>1, <2>2, <2>3
<1>6. PostTypeOK'
  BY <1>1, <1>4 DEF PostTypeOK
<1>7. PostOK(b)'
  BY <1>1, <1>5 DEF PostOK, PostTypeOK
<1>8. \A d \in Posts \ {b} : Same(d)
  BY <1>1 DEF Same, PostTypeOK
<1> QED BY <1>6, <1>7, <1>8, OnePost

\* A request comes in, is refused, or its connection takes the next one.
LEMMA EdgeInv ==
  ASSUME PostInv, NEW b \in Posts,
         Finish(b) \/ \E c \in Clients : Refuse(b, c) \/ Receive(b, c)
  PROVE  PostInv'
<1>1. PostTypeOK /\ PostOK(b)
  BY DEF PostInv
<1>2. CASE Finish(b)
  <2>1. PostTypeOK'
    BY <1>1, <1>2 DEF PostTypeOK, Finish
  <2>2. PostOK(b)'
    <3>1. /\ phase'[b] = "idle" /\ status'[b] = "none"
          /\ messages'[b] = <<>> /\ out'[b] = <<>>
      BY <1>1, <1>2 DEF PostTypeOK, Finish
    <3> QED BY <3>1 DEF PostOK
  <2>3. \A d \in Posts \ {b} : Same(d)
    BY <1>1, <1>2 DEF Same, PostTypeOK, Finish
  <2> QED BY <2>1, <2>2, <2>3, OnePost
<1>3. ASSUME NEW c \in Clients, Refuse(b, c) PROVE PostInv'
  <2>1. PostTypeOK'
    BY <1>1, <1>3 DEF PostTypeOK, Refuse
  <2>2. PostOK(b)'
    <3>1. phase'[b] = "replied" /\ status'[b] = "refused"
      BY <1>1, <1>3 DEF PostTypeOK, Refuse
    <3> QED BY <3>1 DEF PostOK
  <2>3. \A d \in Posts \ {b} : Same(d)
    BY <1>1, <1>3 DEF Same, PostTypeOK, Refuse
  <2> QED BY <2>1, <2>2, <2>3, OnePost
<1>4. ASSUME NEW c \in Clients, Receive(b, c) PROVE PostInv'
  <2>1. PICK n \in 1..MaxBatch, ok \in BOOLEAN :
          left' = [left EXCEPT ![b] = n] /\ version' = [version EXCEPT ![b] = ok]
    BY <1>4 DEF Receive
  <2>2. n \in Nat
    BY BatchAssumption
  <2>3. version' \in [Posts -> BOOLEAN]
    BY <1>1, <2>1, Zenon DEF PostTypeOK
  <2>4. PostTypeOK'
    BY <1>1, <1>4, <2>1, <2>2, <2>3 DEF PostTypeOK, Receive
  <2>5. PostOK(b)'
    <3>1. /\ phase'[b] = "messages" /\ status'[b] = "none" /\ from'[b] = c
          /\ messages'[b] = <<>> /\ out'[b] = <<>>
      BY <1>1, <1>4 DEF PostTypeOK, PostOK, Receive
    <3>2. Answers(<<>>, <<>>, Asking(<<>>))
      <4>1. Asking(<<>>) = {} /\ Len(<<>>) = 0
        BY DEF Asking
      <4>2. PICK none : none = [j \in 1..0 |-> j]
        OBVIOUS
      <4>3. none \in [1..Len(<<>>) -> Asking(<<>>)]
        BY <4>1, <4>2
      <4> QED BY <4>1, <4>3 DEF Answers
    <3> QED BY <3>1, <3>2 DEF PostOK
  <2>6. \A d \in Posts \ {b} : Same(d)
    BY <1>1, <1>4, <2>1 DEF Same, PostTypeOK, Receive
  <2> QED BY <2>4, <2>5, <2>6, OnePost
<1> QED BY <1>2, <1>3, <1>4

-----------------------------------------------------------------------------
\* The port.

\* Both components keep their invariants whichever way calls come in.
IngressInv == LimiterInv /\ PostInv

\* The port opens with nobody tracked and every connection idle.
LEMMA InitIngress == IngressInit => IngressInv
<1>1. PostInit => PostInv
  BY DEF PostInit, PostInv, PostTypeOK, PostOK
<1> QED BY <1>1, InitLimiter DEF IngressInit, IngressInv

\* A call over the loopback from the bridge: the limiter counts it for the client
\* the POST came from, and the POST is answered or recovered.
LEMMA BridgeCallInv ==
  ASSUME IngressInv, NEW b \in Posts, BridgeCall(b)
  PROVE  IngressInv'
<1>1. LimiterInv /\ PostInv
  BY DEF IngressInv
<1>2. PICK allowed \in BOOLEAN :
        /\ Call(PeerKey(Loopback, <<from[b]>>), KeyOf[from[b]], allowed)
        /\ EndCall(b, "error") \/ EndCall(b, "result") \/ Recover(b)
  BY DEF BridgeCall
<1>3. from[b] \in Clients
  BY <1>1 DEF BridgeCall, PostInv, PostOK
<1>4. PICK p \in Peers : p = KeyOf[from[b]] /\ Call(p, p, allowed)
  BY <1>2, <1>3, OwnKey
<1>5. LimiterInv'
  BY <1>1, <1>4, CallInv
<1>6. PostInv'
  BY <1>1, <1>2, EndCallInv, RecoverInv
<1> QED BY <1>5, <1>6 DEF IngressInv

\* Nothing happens to the bridge.
LEMMA PostsIdle ==
  ASSUME PostInv, UNCHANGED postVars
  PROVE  PostInv'
BY DEF PostInv, postVars, PostTypeOK, PostOK

\* Every way in, every step of a POST and every tick keep it.
LEMMA NextIngress == IngressInv /\ [IngressNext]_ingressVars => IngressInv'
<1> SUFFICES ASSUME IngressInv, [IngressNext]_ingressVars PROVE IngressInv' OBVIOUS
<1>1. LimiterInv /\ PostInv
  BY DEF IngressInv
<1>2. ASSUME NEW c \in Clients, GRPCCall(c) \/ GatewayCall(c) PROVE IngressInv'
  <2>1. PICK allowed \in BOOLEAN : Call(KeyOf[c], KeyOf[c], allowed)
    BY <1>2, OwnKey, ZenonT(20) DEF GRPCCall, GatewayCall
  <2>2. LimiterInv'
    BY <1>1, <2>1, OwnKey, CallInv
  <2>3. PostInv'
    BY <1>1, <1>2, PostsIdle DEF GRPCCall, GatewayCall
  <2> QED BY <2>2, <2>3 DEF IngressInv
<1>3. ASSUME NEW b \in Posts, BridgePanic(b) PROVE IngressInv'
  BY <1>1, <1>3, RecoverInv, LimiterIdle DEF BridgePanic, IngressInv
<1>4. ASSUME NEW b \in Posts, PostStep(b), UNCHANGED vars PROVE IngressInv'
  <2>1. PostInv'
    BY <1>1, <1>4, EdgeInv, LocalInv, SilentInv, BadVersionInv, WriteAllInv DEF PostStep
  <2> QED BY <1>1, <1>4, <2>1, LimiterIdle DEF IngressInv
<1>5. CASE Tick /\ UNCHANGED postVars
  BY <1>1, <1>5, TickInv, PostsIdle DEF IngressInv
<1>6. CASE UNCHANGED ingressVars
  BY <1>1, <1>6, LimiterIdle, PostsIdle DEF ingressVars, IngressInv
<1> QED
  BY <1>2, <1>3, <1>4, <1>5, <1>6, BridgeCallInv DEF IngressNext

\* The inductive invariant holds in every reachable state.
THEOREM IngressInvariance == IngressSpec => []IngressInv
BY InitIngress, NextIngress, PTL DEF IngressSpec

\* However many peers call and in whatever order, a shard of the rate limiter
\* never tracks more than its cap (interceptor/ratelimit.go allow).
THEOREM ShardsCapped == IngressSpec => []ShardBounded
<1>1. IngressInv => ShardBounded BY DEF IngressInv, LimiterInv
<1> QED BY <1>1, IngressInvariance, PTL

\* Through gRPC, gateway and bridge alike, a peer gets what one bucket that is
\* never forgotten would give it, unless a full shard has dropped it
\* (interceptor/ratelimit.go allow and peerKey).
THEOREM OneBucketPerPeer == IngressSpec => []NoExtraBurst
<1>1. IngressInv => NoExtraBurst BY DEF IngressInv, LimiterInv
<1> QED BY <1>1, IngressInvariance, PTL

\* For batches of any length, on any number of connections: one response for each
\* message with an id, in order and with its id (mcp/bridge.go servePost).
THEOREM EveryRequestAnswered == IngressSpec => []BatchAnswered
<1>1. IngressInv => BatchAnswered BY DEF IngressInv, PostInv, PostOK, BatchAnswered
<1> QED BY <1>1, IngressInvariance, PTL

=============================================================================
