----------------------------- MODULE MemoryCache ----------------------------
(***************************************************************************)
(* The in-process cache of cache/memory.go: a map under an RWMutex that    *)
(* holds at most maxEntries keys, entries that expire, a janitor goroutine *)
(* that sweeps them, and Close, which waits for the janitor.  Get looks at *)
(* the clock only after it released the lock, Set before it takes it.      *)
(***************************************************************************)
EXTENDS Integers, FiniteSets, Functions

CONSTANTS
  Keys, Values, Readers, Closers,
  MaxEntries,  \* memoryCache.maxEntries, 0 for no bound
  MaxTTL,      \* ttls are 0 (no expiry) to MaxTTL
  Sample,      \* how many entries evictOne visits (8 in the code)
  None

VARIABLES
  items,    \* the map: keys present to [val, left]
  closed,
  janitor,  \* "waiting", "sweeping" (a tick was received), "exited"
  get, want, entry, wasClosed, result,  \* each reader's Get
  closer,   \* calls of Close: "no", "waiting", "returned"
  live,     \* history: for each key the value a cache that forgets nothing holds
  seen      \* history: the values a running Get may return

getVars == <<get, want, entry, wasClosed, result>>
memVars == <<items, closed, janitor, getVars, closer, live, seen>>

\* left counts down to the expiry; an entry is expired when it is below 0.
Forever == MaxTTL + 1
Expired(e) == e.left < 0
Entries == [val : Values, left : -1..Forever]

ASSUME MemoryAssumption == MaxTTL \in Nat /\ None \notin Entries

NoItems == [k \in {} |-> None]

MemInit ==
  /\ items = NoItems /\ closed = FALSE /\ janitor = "waiting"
  /\ get = [r \in Readers |-> "idle"]
  /\ want = [r \in Readers |-> None]
  /\ entry = [r \in Readers |-> None]
  /\ wasClosed = [r \in Readers |-> FALSE]
  /\ result = [r \in Readers |-> None]
  /\ closer = [c \in Closers |-> "no"]
  /\ live = [k \in Keys |-> None]
  /\ seen = [r \in Readers |-> {}]

\* What the Gets under way may return after the ideal contents became l.
Witness(l) ==
  seen' = [r \in Readers |-> IF get[r] = "idle" THEN {}
                             ELSE seen[r] \cup {IF l[want[r]] = None THEN None ELSE l[want[r]].val}]

\* evictOne: an expired entry among the first Sample visited, else the first.
EvictOne ==
  {v \in DOMAIN items :
     \E scan \in SUBSET DOMAIN items :
       /\ Cardinality(scan) <= Sample /\ v \in scan
       /\ IF Expired(items[v]) THEN TRUE
          ELSE /\ \A k \in scan : ~Expired(items[k])
               /\ Cardinality(scan) = IF Sample < Cardinality(DOMAIN items) THEN Sample ELSE Cardinality(DOMAIN items)}

\* The map with room for k.
Room(k) ==
  IF k \in DOMAIN items \/ MaxEntries = 0 \/ Cardinality(DOMAIN items) < MaxEntries
  THEN {items}
  ELSE {Restrict(items, DOMAIN items \ {v}) : v \in EvictOne}

\* Set with a ttl of 0 or more (a negative one is refused before anything else).  The
\* clock is read before the lock is taken, so that by the time the entry is stored
\* some of its ttl, or all of it, may be gone.
Set(k, v, ttl) ==
  /\ ~closed
  /\ \E rest \in Room(k), left \in IF ttl = 0 THEN {Forever} ELSE -1..ttl :
       LET e == [val |-> v, left |-> left] IN
       /\ items' = [j \in DOMAIN rest \cup {k} |-> IF j = k THEN e ELSE rest[j]]
       /\ live' = [live EXCEPT ![k] = IF Expired(e) THEN None ELSE e]
  /\ Witness(live')
  /\ UNCHANGED <<closed, janitor, getVars, closer>>

Del(k) ==
  /\ ~closed
  /\ items' = Restrict(items, DOMAIN items \ {k})
  /\ live' = [live EXCEPT ![k] = None]
  /\ Witness(live')
  /\ UNCHANGED <<closed, janitor, getVars, closer>>

\* Get: the call arrives, ...
Ask(r, k) ==
  /\ get[r] = "idle"
  /\ get' = [get EXCEPT ![r] = "lock"]
  /\ want' = [want EXCEPT ![r] = k]
  /\ seen' = [seen EXCEPT ![r] = {IF live[k] = None THEN None ELSE live[k].val}]
  /\ UNCHANGED <<items, closed, janitor, entry, wasClosed, result, closer, live>>

\* ... reads the map and the flag under the lock, ...
Look(r) ==
  /\ get[r] = "lock"
  /\ entry' = [entry EXCEPT ![r] = IF want[r] \in DOMAIN items THEN items[want[r]] ELSE None]
  /\ wasClosed' = [wasClosed EXCEPT ![r] = closed]
  /\ get' = [get EXCEPT ![r] = "judge"]
  /\ UNCHANGED <<items, closed, janitor, want, result, closer, live, seen>>

\* Faulty variant: the expiry is not looked at; the janitor will see to it.
Judge_NoExpiry(r) ==
  /\ get[r] = "judge"
  /\ result' = [result EXCEPT ![r] =
       IF wasClosed[r] \/ entry[r] = None THEN None ELSE entry[r].val]
  /\ get' = [get EXCEPT ![r] = "answer"]
  /\ UNCHANGED <<items, closed, janitor, want, entry, wasClosed, closer, live, seen>>

\* ... then compares the entry's expiry with the clock; None is an error.
Judge(r) ==
  /\ get[r] = "judge"
  /\ result' = [result EXCEPT ![r] =
       IF wasClosed[r] \/ entry[r] = None THEN None
       ELSE IF Expired(entry[r]) THEN None ELSE entry[r].val]
  /\ get' = [get EXCEPT ![r] = "answer"]
  /\ UNCHANGED <<items, closed, janitor, want, entry, wasClosed, closer, live, seen>>

Return(r) ==
  /\ get[r] = "answer"
  /\ get' = [get EXCEPT ![r] = "idle"]
  /\ want' = [want EXCEPT ![r] = None]
  /\ entry' = [entry EXCEPT ![r] = None]
  /\ wasClosed' = [wasClosed EXCEPT ![r] = FALSE]
  /\ result' = [result EXCEPT ![r] = None]
  /\ seen' = [seen EXCEPT ![r] = {}]
  /\ UNCHANGED <<items, closed, janitor, closer, live>>

\* Time passes: entries, and the copy a Get holds, come closer to their expiry.
Older(e) == IF e.left = Forever \/ e.left < 0 THEN e ELSE [e EXCEPT !.left = @ - 1]
Alive(e) == IF e = None THEN None ELSE IF Expired(Older(e)) THEN None ELSE Older(e)

Tick ==
  /\ items' = [k \in DOMAIN items |-> Older(items[k])]
  /\ entry' = [r \in Readers |-> IF entry[r] = None THEN None ELSE Older(entry[r])]
  /\ live' = [k \in Keys |-> Alive(live[k])]
  /\ Witness(live')
  /\ UNCHANGED <<closed, janitor, get, want, wasClosed, result, closer>>

\* The janitor receives a tick, and sweeps under the lock with the tick's time,
\* which may be earlier than now; or it sees done.
JanitorTick ==
  /\ janitor = "waiting"
  /\ janitor' = "sweeping"
  /\ UNCHANGED <<items, closed, getVars, closer, live, seen>>

JanitorSweep ==
  /\ janitor = "sweeping"
  /\ \E stale \in SUBSET {k \in DOMAIN items : Expired(items[k])} :
       items' = Restrict(items, DOMAIN items \ stale)
  /\ janitor' = "waiting"
  /\ UNCHANGED <<closed, getVars, closer, live, seen>>

JanitorExits ==
  /\ janitor = "waiting" /\ closed
  /\ janitor' = "exited"
  /\ UNCHANGED <<items, closed, getVars, closer, live, seen>>

\* Close: the first call waits for the janitor, a later one returns at once.
Close(c) ==
  /\ closer[c] = "no"
  /\ closer' = [closer EXCEPT ![c] = IF closed THEN "returned" ELSE "waiting"]
  /\ closed' = TRUE
  /\ UNCHANGED <<items, janitor, getVars, live, seen>>

CloseReturns(c) ==
  /\ closer[c] = "waiting" /\ janitor = "exited"
  /\ closer' = [closer EXCEPT ![c] = "returned"]
  /\ UNCHANGED <<items, closed, janitor, getVars, live, seen>>

Janitor == JanitorTick \/ JanitorSweep

MemNext ==
  \/ \E k \in Keys : Del(k) \/ (\E v \in Values, ttl \in 0..MaxTTL : Set(k, v, ttl))
  \/ \E r \in Readers : (\E k \in Keys : Ask(r, k)) \/ Look(r) \/ Judge(r) \/ Return(r)
  \/ Tick \/ Janitor \/ JanitorExits
  \/ \E c \in Closers : Close(c) \/ CloseReturns(c)

-----------------------------------------------------------------------------
MemTypeOK ==
  /\ DOMAIN items \subseteq Keys /\ \A k \in DOMAIN items : items[k] \in Entries
  /\ closed \in BOOLEAN /\ janitor \in {"waiting", "sweeping", "exited"}
  /\ get \in [Readers -> {"idle", "lock", "judge", "answer"}]
  /\ want \in [Readers -> Keys \cup {None}]
  /\ \A r \in Readers : entry[r] = None \/ entry[r] \in Entries
  /\ wasClosed \in [Readers -> BOOLEAN] /\ result \in [Readers -> Values \cup {None}]
  /\ closer \in [Closers -> {"no", "waiting", "returned"}]

\* A value that Get returns was stored under its key, not deleted, overwritten or
\* expired, at some moment between the call and the return.
MemNeverStale ==
  \A r \in Readers : get[r] = "answer" /\ result[r] # None => result[r] \in seen[r]
=============================================================================
