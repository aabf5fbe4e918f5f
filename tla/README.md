# A verification project for gortexa

gortexa is a Go framework that serves gRPC, an HTTP/JSON gateway and an MCP
endpoint on one port, with one chain of interceptors governing all three, and
comes with small clients of its own for Redis, NATS and JetStream, a health
registry, JWKS-based token verification, a cache with two backends, a sample
service, a server command and a command that creates projects and generates
services in them. This directory
holds TLA+ models of its stateful parts, TLC configurations that check them on
small instances, and TLAPS proofs of their safety for every value of the
constants. Paths below are relative to `src/`.

## The system and its models

| Part | Source | Module | State of the code in the model |
|---|---|---|---|
| Circuit breaker | `interceptor/circuitbreaker.go` | `CircuitBreaker`, abstract promise `BreakerPolicy` | `state`, `failures`, probe slots, generation, ages; each call's admission |
| Load shedder | `interceptor/loadshedding.go` | `LoadShedder` | the in-flight counter; each call between `Add(1)` and `Add(-1)` |
| Error table | `apperr/errors.go` | `AppErrors` | pure operators: resolve an error, render it, resolve the rendering again |
| Interceptor chain | `interceptor/chain.go`, `recovery.go`, `auth.go`, `validation.go` | `Governance` (over `Callers`) | composes the three above: which stage answers, and with which error |
| Rate limiter | `interceptor/ratelimit.go` | `RateLimiter` | buckets per shard, idle ages, sweep counters |
| MCP bridge | `mcp/bridge.go` | `MCPBridge` | one POST: messages taken, responses, status |
| Single-port ingress | `kernel/mux.go`, `httpcompat/httpcompat.go` | `Ingress` | composes limiter and bridge: the identity a call carries on each route |
| Redis pool | `internal/resp/client.go` | `RespPool` | semaphore, idle list, sockets, each goroutine's place in `Do` |
| Redis round trip | `internal/resp/client.go` | `RespRoundtrip` | one socket: deadlines, cancellation hooks, the unread replies, the retry |
| Redis cache | `cache/redis.go`, `internal/resp/resp.go` | `RedisCache` (over `RespRoundtrip`) | the requests on the wire, the replies as the codec tells them apart, the server's entry |
| In-memory cache | `cache/memory.go` | `MemoryCache` | entries with ages, readers between unlock and judgement, janitor |
| Cache | `cache/cache.go` | `Cache` | composes the two backends: which one `New` picked |
| JWKS key set | `auth/jwks.go` | `KeySet` | installed set, refresh gap, fetches without the lock, the issuer's rotation |
| Core NATS client | `mq/nats.go`, `mq/mq.go` | `MQClient` | subscriptions map, watchers, handlers, two wait groups, teardown |
| JetStream stream | `mq/jetstream.go` | `JSStream` | the stream at the broker, every client's "ensured" mark, each goroutine inside Publish or Subscribe |
| JetStream delivery | `mq/jetstream.go` | `JSDelivery` | messages, delivery counts, ConsumeContexts, watchers, handlers, Close |
| JetStream client | `mq/jetstream.go` | `JetStream` | composes the two above with the faults of broker and network |
| Health registry | `health/health.go` | `HealthRegistry` | checks, generation, cached snapshot, the probes' steps |
| Health Watch | `health/health.go` | `HealthWatch` | global and per-peer slots, each stream's loop |
| Application | `kernel/app.go`, `kernel/admin.go` | `AppLifecycle` | listeners, servers, loopback, drain, hooks, `Run` and `Shutdown` |
| Server command | `cmd/server/main.go` | `ServerMain` (over `AppLifecycle`) | how far `run()` has come, the deferred flush and its `appStarted` guard |
| Resource service | `internal/logic/resource.go` | `ResourceService` | the store, and each client's walk through the pages of a listing |
| `gortexa create` | `cmd/gortexa/internal/cli/create.go` | `ProjectCreate` | the directory, each command's next step |
| `gortexa gen`, `regen` | `gen.go`, `wire.go`, `regen.go` there | `ProjectGen` | proto and logic files, the lines and markers of `main.go`, the running command |
| Project | `project.go`, `manifest.go` there | `ProjectCLI` | composes the two above: gen is run in what a create has reported as created |

An action is one critical section, atomic operation or blocking call of the code
together with everything it does until the next one; a whole handler that runs
under one lock is one action. `PROJECT.json` maps each definition to its lines.
Operators named `X_Variant` directly before `X` are faulty variants of `X`: each
states a plausible mistake, and the property it is listed with fails under it.
They are used by no specification.

How the parts interact. A call enters natively, through the gateway or through
the bridge; the latter two make a gRPC call over an in-process loopback that
carries the client's address as metadata, so the one limiter counts every client
once (`Ingress`). The chain then runs shedder, limiter, breaker, auth and
validation around the handler; rejections, failures and panics all travel back
through the same deferred functions (`Governance`). Shutdown drains the health
registry, which ends the Watch streams that would otherwise pin the graceful
stop (`DrainEnds`); handlers that do not end are cut off by the budget
(`ShutdownBounded`), if the configuration sets one. The server command sets up the telemetry before it builds the
app and hands its flush over to the app's shutdown hooks (`FlushedOnce`). A cache
is one interface over two backends, and the promise to its callers is checked for
both (`NeverStale`); the Redis one rides on the round trips of the client, whose
retry and whose abandoned commands it has to live with. Publishers and the
subscriptions of a group meet at the broker, which may lose the stream under both
(`JetStream`).

## Runs

Every run is exhaustive for its bounds.

| Run | What it asks | Instance |
|---|---|---|
| `governance` | Breaker episodes, slots and the in-flight gauge stay exact whichever stage answers; the breaker implements its policy and is never wedged; rejections inside it are neutral; an error keeps its category across the loopback | 3 calls, trip after 2 failures, 1 probe, 2 in flight, 4 episodes |
| `ingress` | Shards keep to their cap; neither sweep nor transport gives a client a second burst; a batch is answered message by message | 4 clients with 3 keys (two share a /64) for a shard with room for 2, one POST of up to 2 messages, bursts of 1 |
| `resp_pool` | One owner per socket, sockets capped, every `Do` returns, Close leaves nothing open | 2 goroutines, a pool of 1 (they contend for the slot) or of 2, 3 sockets |
| `cache` | With either backend a caller never gets a stale value; a Redis command reads its own reply, is not hit by another's hook, and returns when cancelled | memory: 2 keys, 2 values, room for 1, 2 callers of Close; Redis: 2 commands over and over on one socket, other clients, replies that do not parse |
| `keyset` | Installed sets only advance; an answer after a refresh is not the one from before it | 2 verifications, 2 kids, 3 issued sets |
| `mq_client` | The connection outlives the handlers, no reader is left without an owner, teardown ends | 2 subscriptions, 2 callers of Close |
| `jetstream` | Publishing heals after a loss of the stream; a message leaves the group's consumer only for a cause; Close and Subscribe leave nothing behind; every message due is settled | 2 clients in a group (one stays), 1 publisher, 1 followed message, 2 deliveries, 1 lost stream, request or answer |
| `health_registry` | A probe takes account of the checks present when it began, and is answered | 2 probes, 1 name, 2 registrations |
| `health_watch` | Slot counts exact and caps kept; Drain ends every stream, with its client told NOT_SERVING | 3 streams, 2 keys, 2 slots, 1 per peer |
| `server_lifecycle` | Nothing returns mid-drain or with a spurious error, listeners and loopback are released, telemetry is flushed once, shutdown is bounded by the requests under way and by the timeout, if one is set | `run()` failing at any step, or another program's app; main and 2 extra listeners (one provided), 1 caller of Shutdown besides Run, with and without a `ShutdownTimeout`, 3 hooks |
| `resource_service` | What is there throughout a walk is listed exactly once, and the walk ends | 1 walk, 4 ids given out in any order, filter by owner, pages of 1 and of the default (2) |
| `project_cli` | create is all or nothing; gen does all it says or leaves `main.go` without the service, and writes only the files of its target, over old ones only when forced | 2 creates and a user (who makes it, and may fill it) for one directory; 3 services, of which two share a logic file and two an import; every flag; a kill or failure at every step |

Bounds. Each instance has the smallest numbers for which the contested case
occurs: more actors than the resource admits (calls against `MaxInflight` and
`HalfOpenMax`, streams against slots, keys against a shard's room, goroutines
against pool slots and parked sockets), a second episode, set or attempt after the first, and
Close or Drain at any point of it. `MaxGen`, `MaxVersion` and `MaxTroubles` only
bound how often history may repeat; ids of the resource service are not reused, so
`MaxId` bounds a walk's length (two pages and what comes and goes between them). Ages are counted in whole
ticks and capped where the code stops distinguishing them. `ingress` uses bursts
of one token so that batches, evictions and sweeps fit one instance; with bursts
of two and `TTL` 1 the same properties hold on 2.7 million states, in nine minutes.

Deadlock is checked except in `mq_client`, where all calls may be over and the
client closed, and `project_cli`, where no command may have made a project.

## Fairness

Weak fairness is assumed of goroutines that can run and of operations the code
bounds by a timeout (dialling, commands, evaluations of checks, handlers' acks).
Strong fairness is assumed only where Go gives it: senders blocked on the pool's
channel are served in order (`RespPool`), a blocked `sync.Mutex` locker gets its
turn (`HealthRegistry`), and `select` chooses at random among ready cases
(`HealthWatch`). `JetStream` and `MQClient` assume that handlers return, which
their Close waits for too; in `JetStream` this holds for the members that stay,
whose broker delivers and whose AckWait timers fire, while the others may stop
anywhere. In `Cache` only a command's own steps and its hook are fair: the server
need not answer and no timeout need fire. Two properties are about a client that
goes on, and assume that it does: a publisher that publishes again (`Heals`) and a
walk that asks for its next page (`WalkEnds`). Otherwise nobody is assumed to call,
cancel, close or drain, and in `governance` only the clock is fair: calls need not
return. The steps of `run()` end, with or without an error: they are bounded by
timeouts. In `AppLifecycle` only the goroutines of `Run` and `Shutdown` are fair, and
the expiry of a `ShutdownTimeout` that is set: the accept loops need not end, nor
handlers return, nor connections fall idle. Without a timeout the drain lasts as long
as the requests do, so `ShutdownBounded` is about the behaviours in which it is not
stuck behind one for ever (`Stuck`). The CLI's properties are all safety.

## Proofs

Every safety property a run checks is also a theorem, for every value of the
constants. Eight modules hold the proofs; each states the inductive invariant of its
components, proves that the initial states have it and that each action keeps it,
and derives the properties. The invariants were also checked by TLC on the runs'
instances. Leaves that name no prover are tried with Zenon first, then with SMT (the
`USE` at the head of each module), which keeps the larger modules quick to check.

| Module | Theorems | Inductive argument |
|---|---|---|
| `GovernanceProofs` (breaker) | `TypeCorrect`, `SlotAccounting`, `EpisodesPure`, `ThresholdRespected`, `Refinement` | `SlotsExact` alone is not inductive: a returning call must be known to be a member of the episode exactly when its generation is current, which is `EpisodePurity`. The refinement maps calls of the current generation to members of the policy's episode and is shown step by step from the invariant. |
| `GovernanceProofs` (shedder) | `CounterIsExact`, `ConcurrencyBounded` | Calls that have added but not compared are counted with those their sum will clear; the exact counter bounds them. |
| `GovernanceProofs` (chain) | `ChainSafe`, `AnswersKeepCategory`, `NothingLeaks`, `RejectionsHarmless` | Every step of the chain is a step of breaker and shedder (`ChainRunsBreaker`, `ChainRunsShedder`), so their invariants hold inside it; resolving a rendered error gives back what was rendered (`LoopbackStable`), for any custom categories. |
| `IngressProofs` (limiter) | `ShardsCapped`, `OneBucketPerPeer` | A bucket has at least as many tokens as its peer has been silent for, up to the burst (`Refilled`), so the sweep drops full buckets only and forgetting one gives nothing away. The cap needs the tracked peers to be finitely many, which is part of the invariant since there may be any number of peers. A call over the loopback carries its client's key on every route. |
| `IngressProofs` (bridge) | `EveryRequestAnswered` | While a POST takes messages, each one taken that has an id is answered, in order; during a call over the loopback all but the last are (`PostOK`). |
| `ClientProofs` (Redis pool) | `TokensNeverLeak`, `ExclusiveOwner`, `SocketsCapped`, `NothingTaintedParked` | A goroutine that decided to dial is committed to a socket and is counted with the open ones; a dial is only decided on when the idle list is empty, so every socket is then in the hands of a token holder. |
| `ClientProofs` (key set) | `SingleFetch`, `SetsOnlyAdvance`, `AnswersAreCurrent` | A running fetch is exactly as old as the claimed gap and ends before it, so there is one at a time and what it carries across the unlocked part stays true. |
| `CacheProofs` | `CacheNeverStale`, `RepliesMatch`, `DeadlinesOwn` | Round trip (`TripOK`): the wire is empty but for the request of the connection's owner, a hook that may still run is the owner's, who marks the connection before giving it back when one has started, and a parked connection is quiet. Redis (`ReplyOK`): what a GET may answer is collected from the moment it is called, and the reply on the wire is among it. Memory (`Remembers`, `GetOK`): the map may have forgotten a key but holds no other value for it, and an entry that a reader copied and that has not expired was the key's during the call. |
| `MessagingProofs` (core NATS) | `HandlersKeepConnection`, `NoReaderLeaks` | The wait groups equal the numbers of watchers and running handlers, and the phases of the teardown wait for them in order; a registered reader has a watcher that has not yet unsubscribed, and Close unsubscribes only registered ones. |
| `MessagingProofs` (JetStream) | `CloseReleasesAll`, `SettlesForCause` | A client's connection is closed only when it is marked closed, no handler is in flight and no watcher is left; a ConsumeContext belongs to a Subscribe before its registration (or that is about to stop it) or to a watcher, and Subscribe re-tests the mark under the lock. Delivery counts stay below `MaxDeliver` for every message that is still to be delivered. |
| `HealthProofs` (Watch) | `SlotsNeverLeak` | The global counter equals the streams between its increment and its decrement, the per-peer counters the streams that were admitted; both are cardinalities that change by one per step, and a stream that overshoots the cap is counted until it undoes. |
| `HealthProofs` (registry) | `ProbesSeeRegistrations` | The cached snapshot covers every check registered up to the generation stored with it, because that generation was read before the map was copied and the map is written before the generation is bumped (`SnapOK`, `ProbeOK`); a probe accepts it only if no registration came in between. |
| `ServerMainProofs` | `ReturnsAfterDrain`, `NothingLeftOpen`, `TelemetryFlushedOnce` | Where the body of Shutdown is tells which servers are down, which may be busy and how many hooks have run (`BodyOK`); each listener is open exactly as long as somebody is still going to serve or to close it (`ListenerOK`); an accept error in the channel is a real one; before `Run` nothing of the app moves, and `appStarted` keeps the deferred flush and the hooks apart (`BootOK`). |
| `ProjectProofs` (CLI) | `CreateAllOrNothing`, `RegisteredIsBacked`, `ReadyIsComplete`, `NothingClobbered` | A create past its clone has the directory to itself, has done the steps before its own and keeps the sources, so that git takes the directory for no empty one (`CreateOK`); one with files of the user's is nobody else's (`UsersOwn`); a gen that is still writing its files has found none of them and no line that registers their entity (`Command`), and the text it is about to give `main.go` is as well backed as the one that is there (`MainGo`). |
| `ProjectProofs` (sample service) | `PagingExact` | The token divides a walk: nothing past it has been listed, and everything up to it that was there throughout has been (`WalkOK`). A page is a lower part of what is left (`PageFacts`), shown with a least-element argument over the ids. |

`EpisodesPure`, `CounterIsExact`, `TokensNeverLeak`, `NothingTaintedParked` and
`SingleFetch` state facts no run repeats: the runs check what follows from them.

Assumptions on constants are the named ASSUMEs, evaluated by the runs: finite sets
of actors where they are counted, positive thresholds and caps, custom categories
that map to codes of the default table, a hook for each telemetry provider
(`ServerAssumption`), and for `KeySet` that a fetch ends within `FetchTimeout`, which
is below the refresh gap (5 s against 30 s in the code). The others say that a value
which stands for "nothing" is none of the things it is distinguished from (`None`
and `NoConn`; `Nothing` of the health registry; `Absent` and `User` of create, where a
directory is not a missing one and the user is not a create; `Loopback`, which is no
client). `MaxGen`, `MaxVersion` and `MaxId` may be any number.

Only model-checked: all liveness (`NeverWedged`, `CloseDrains`, `DoReturns`,
`CancelReturns`, `TeardownEnds`, `Heals`, `AllSettled`, `ProbeAnswered`,
`DrainEnds`, `ShutdownBounded`, `WalkEnds`). It needs fairness and ENABLED, which the
prover does not reason about.

## Behaviour worth knowing

These follow from the code as modelled; none contradicts a property above.

- An abandoned half-open episode's probes keep running, so more probes than
  `HalfOpenMax` can be in flight at once; each episode keeps to its own bound.
- The single retry of a Redis command may be handed a second stale socket.
- A second `Close` of the NATS client or of the in-memory cache returns at once,
  without waiting for the first one's teardown.
- A JetStream delivery dropped in a Close race at its last attempt is not
  redelivered; `AllSettled` counts it as exhausted.
- A publish whose answer is lost is reported as unavailable although the message may
  be stored, and a publisher that retries stores it twice. After a stream was lost,
  publishing heals, but an existing subscription does not: its consumer went with
  the stream, and nothing subscribes again.
- A retried Redis SET may be executed twice, and one that was given up may still
  take effect later. The comment of `readReply` lists arrays among its results; the
  code rejects them, as its last case explains, and gives the connection up.
- `Set` of the in-memory cache reads the clock before it takes the lock, so an entry
  may have expired by the time it is stored. The in-memory cache refuses a negative ttl; the Redis one stores without expiry.
- A failure of the tracing or metrics set-up returns before the deferred flush is
  registered, so the providers already set up are not flushed; a start-up that fails
  after `Loopback` leaves it to the end of the process.
- A killed `gortexa create` leaves its directory, which the next one refuses; so does
  a failed one that cannot remove it, since the error of `os.RemoveAll` is dropped. An
  empty directory that somebody makes between create's look at the destination and its
  clone is cloned into, and a create that fails later removes it; one with files in it
  makes the clone fail and stays. A killed `gen` may leave a torn file, which blocks the next `gen` of that service
  until `--force`; a `main.go` torn this way has no markers and is not wireable. Two
  `gen` commands at once may lose one another's lines, which is not modelled.
- A unary health probe that passed the draining test before Drain may answer
  SERVING after it. A Watch stream always ends on NOT_SERVING.
- `evictOne` samples a few entries and may drop a live one while an expired one is
  held; a rate limiter with `MaxEntries` below its shard count keeps one per shard.
- A panic in one element of an MCP batch replaces the whole reply by one null-id
  error, and a client that accepts neither media type gets 406, and one whose replies do not
  marshal 500, after its batch was executed: calls already made are not reported.

## Not modelled

- Configuration, flags, names and templates of the CLI, exporters, the storage
  layer (a pgx pool and a tracer), test helpers and generated code hold no state
  that steps of several actors change.
- Token signatures and claims, JSON and protobuf translation, the bytes of RESP, the
  token bucket, buf and git are library or tool code, or pure functions whose model
  would repeat them; they are represented by their outcomes.
- The conversion of descriptors to tool schemas (`mcp/ir.go`, `mcp/downgrade.go`) runs
  once and is a pure function of the descriptors.
- Body limits and the deadline for the first message of the port are timeouts of
  `net/http` around one request and share no state with other requests.
- JetStream consumers without a group and the age limit of a stream: the model
  follows one durable consumer, and no message ages out in it.
- `gen` asks for no more than a `go.mod` above it and so also runs in what a killed
  create has left, or while one is at work there; the model runs it after a create
  that succeeded. A user who writes into the clone of a create that is under way, and
  loses it when that one fails, is not modelled either.
- Request ids, logging and metrics influence no decision. Streams are represented in
  the chain by calls that do not return.

Left for later: an abstract specification of `Shutdown` with a refinement.
