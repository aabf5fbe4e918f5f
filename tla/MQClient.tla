------------------------------ MODULE MQClient ------------------------------
(***************************************************************************)
(* The life of a message-queue client, mq/nats.go (mq/jetstream.go has the *)
(* same one): Subscribe starts a reader, registers it under mu and leaves  *)
(* a watcher goroutine behind; deliveries run handlers counted by hwg;     *)
(* Close marks the client closed, stops the readers and tears down in a    *)
(* goroutine of its own (closeWithin), which it waits for no longer than   *)
(* its context lasts.                                                      *)
(***************************************************************************)
EXTENDS Integers, FiniteSets

CONSTANTS
  Subs,     \* subscriptions; one may be made again after it has ended
  Closers   \* goroutines that call Close

ASSUME SubsAssumption == IsFiniteSet(Subs)

VARIABLES
  subscribing,  \* Subscribe: "out", "started" (reader runs, mu not yet taken), "lost"
  reading,      \* the broker delivers to the subscription's callback
  cancelled,    \* the subscriber's context
  watcher,      \* the watcher goroutine: "none", "waiting", "woken", "stopped"
  cb,           \* the delivery callback: "idle", "entered" (mu not yet taken), "running"
  subs,         \* natsClient.subs
  shutDown,     \* natsClient.closed; Close closes the done channel with it
  wg, hwg,      \* counts of watchers and of running handlers
  closer,       \* Close: "out", "waiting", "gone" (returned nil), "expired"
  teardown,     \* the goroutine of closeWithin: "none", "wg", "hwg", "conn", "done"
  natsConn      \* "open" or "closed"

subVars == <<subscribing, reading, cancelled, watcher, cb>>
closeVars == <<closer, teardown, natsConn>>
mqVars == <<subVars, subs, shutDown, wg, hwg, closeVars>>

MQInit ==
  /\ subscribing = [s \in Subs |-> "out"]
  /\ reading = [s \in Subs |-> FALSE]
  /\ cancelled = [s \in Subs |-> FALSE]
  /\ watcher = [s \in Subs |-> "none"]
  /\ cb = [s \in Subs |-> "idle"]
  /\ subs = {} /\ shutDown = FALSE /\ wg = 0 /\ hwg = 0
  /\ closer = [k \in Closers |-> "out"]
  /\ teardown = "none" /\ natsConn = "open"

\* conn.Subscribe or QueueSubscribe; it fails on a closed connection.
Subscribe(s) ==
  /\ subscribing[s] = "out" /\ watcher[s] = "none" /\ cb[s] = "idle" /\ ~reading[s]
  /\ natsConn = "open"
  /\ subscribing' = [subscribing EXCEPT ![s] = "started"]
  /\ reading' = [reading EXCEPT ![s] = TRUE]
  /\ cancelled' = [cancelled EXCEPT ![s] = FALSE]
  /\ UNCHANGED <<watcher, cb, subs, shutDown, wg, hwg, closeVars>>

\* The flush fails: Unsubscribe and return.
FlushFails(s) ==
  /\ subscribing[s] = "started"
  /\ subscribing' = [subscribing EXCEPT ![s] = "out"]
  /\ reading' = [reading EXCEPT ![s] = FALSE]
  /\ UNCHANGED <<cancelled, watcher, cb, subs, shutDown, wg, hwg, closeVars>>

\* The end of Subscribe under mu.
RegisterSub(s) ==
  /\ subscribing[s] = "started" /\ ~shutDown
  /\ subscribing' = [subscribing EXCEPT ![s] = "out"]
  /\ subs' = subs \cup {s}
  /\ wg' = wg + 1
  /\ watcher' = [watcher EXCEPT ![s] = "waiting"]
  /\ UNCHANGED <<reading, cancelled, cb, shutDown, hwg, closeVars>>

LoseToClose(s) ==
  /\ subscribing[s] = "started" /\ shutDown
  /\ subscribing' = [subscribing EXCEPT ![s] = "lost"]
  /\ UNCHANGED <<reading, cancelled, watcher, cb, subs, shutDown, wg, hwg, closeVars>>

\* Faulty variant: the reader of a Subscribe that lost to Close is left running.
UnsubscribeLost_Leak(s) ==
  /\ subscribing[s] = "lost"
  /\ subscribing' = [subscribing EXCEPT ![s] = "out"]
  /\ UNCHANGED <<reading, cancelled, watcher, cb, subs, shutDown, wg, hwg, closeVars>>

UnsubscribeLost(s) ==
  /\ subscribing[s] = "lost"
  /\ subscribing' = [subscribing EXCEPT ![s] = "out"]
  /\ reading' = [reading EXCEPT ![s] = FALSE]
  /\ UNCHANGED <<cancelled, watcher, cb, subs, shutDown, wg, hwg, closeVars>>

Cancel(s) ==
  /\ ~cancelled[s] /\ (subscribing[s] # "out" \/ watcher[s] # "none")
  /\ cancelled' = [cancelled EXCEPT ![s] = TRUE]
  /\ UNCHANGED <<subscribing, reading, watcher, cb, subs, shutDown, wg, hwg, closeVars>>

\* Faulty variant: the watcher waits for the caller's context only.
Wake_ContextOnly(s) ==
  /\ watcher[s] = "waiting" /\ cancelled[s]
  /\ watcher' = [watcher EXCEPT ![s] = "woken"]
  /\ UNCHANGED <<subscribing, reading, cancelled, cb, subs, shutDown, wg, hwg, closeVars>>

\* The watcher: woken by the context or by done, it unsubscribes, drops the map
\* entry under mu and exits.
Wake(s) ==
  /\ watcher[s] = "waiting" /\ (cancelled[s] \/ shutDown)
  /\ watcher' = [watcher EXCEPT ![s] = "woken"]
  /\ UNCHANGED <<subscribing, reading, cancelled, cb, subs, shutDown, wg, hwg, closeVars>>

Unsubscribe(s) ==
  /\ watcher[s] = "woken"
  /\ reading' = [reading EXCEPT ![s] = FALSE]
  /\ watcher' = [watcher EXCEPT ![s] = "stopped"]
  /\ UNCHANGED <<subscribing, cancelled, cb, subs, shutDown, wg, hwg, closeVars>>

Forget(s) ==
  /\ watcher[s] = "stopped"
  /\ subs' = subs \ {s}
  /\ wg' = wg - 1
  /\ watcher' = [watcher EXCEPT ![s] = "none"]
  /\ UNCHANGED <<subscribing, reading, cancelled, cb, shutDown, hwg, closeVars>>

-----------------------------------------------------------------------------
\* A message arrives; a callback that has been entered goes on even when the
\* subscription ends meanwhile.
Arrive(s) ==
  /\ reading[s] /\ natsConn = "open" /\ cb[s] = "idle"
  /\ cb' = [cb EXCEPT ![s] = "entered"]
  /\ UNCHANGED <<subscribing, reading, cancelled, watcher, subs, shutDown, wg, hwg, closeVars>>

\* The callback under mu: dropped when closed, else counted and run.
Invoke(s) ==
  /\ cb[s] = "entered"
  /\ IF shutDown
     THEN cb' = [cb EXCEPT ![s] = "idle"] /\ UNCHANGED hwg
     ELSE cb' = [cb EXCEPT ![s] = "running"] /\ hwg' = hwg + 1
  /\ UNCHANGED <<subscribing, reading, cancelled, watcher, subs, shutDown, wg, closeVars>>

\* The handler returns, fails, or panics (safeInvoke recovers).
Handled(s) ==
  /\ cb[s] = "running"
  /\ cb' = [cb EXCEPT ![s] = "idle"]
  /\ hwg' = hwg - 1
  /\ UNCHANGED <<subscribing, reading, cancelled, watcher, subs, shutDown, wg, closeVars>>

-----------------------------------------------------------------------------
CloseClient(k) ==
  /\ closer[k] = "out" /\ ~shutDown
  /\ shutDown' = TRUE
  /\ reading' = [s \in Subs |-> reading[s] /\ s \notin subs]
  /\ subs' = {}
  /\ closer' = [closer EXCEPT ![k] = "waiting"]
  /\ teardown' = "wg"
  /\ UNCHANGED <<subscribing, cancelled, watcher, cb, wg, hwg, natsConn>>

CloseAgain(k) ==
  /\ closer[k] = "out" /\ shutDown
  /\ closer' = [closer EXCEPT ![k] = "gone"]
  /\ UNCHANGED <<subVars, subs, shutDown, wg, hwg, teardown, natsConn>>

\* Faulty variant: the connection is closed before the handlers are waited for.
Teardown_ConnFirst ==
  /\ \/ teardown = "wg" /\ wg = 0 /\ teardown' = "conn" /\ UNCHANGED natsConn
     \/ teardown = "conn" /\ teardown' = "hwg" /\ natsConn' = "closed"
     \/ teardown = "hwg" /\ hwg = 0 /\ teardown' = "done" /\ UNCHANGED natsConn
  /\ UNCHANGED <<subVars, subs, shutDown, wg, hwg, closer>>

\* wg.Wait, hwg.Wait, conn.Close.
Teardown ==
  /\ \/ teardown = "wg" /\ wg = 0 /\ teardown' = "hwg" /\ UNCHANGED natsConn
     \/ teardown = "hwg" /\ hwg = 0 /\ teardown' = "conn" /\ UNCHANGED natsConn
     \/ teardown = "conn" /\ teardown' = "done" /\ natsConn' = "closed"
  /\ UNCHANGED <<subVars, subs, shutDown, wg, hwg, closer>>

CloseReturns(k) ==
  /\ closer[k] = "waiting"
  /\ \/ teardown = "done" /\ closer' = [closer EXCEPT ![k] = "gone"]
     \/ closer' = [closer EXCEPT ![k] = "expired"]
  /\ UNCHANGED <<subVars, subs, shutDown, wg, hwg, teardown, natsConn>>

\* Steps that wait for nobody but the scheduler.
Proceed(s) ==
  \/ FlushFails(s) \/ RegisterSub(s) \/ LoseToClose(s) \/ UnsubscribeLost(s)
  \/ Wake(s) \/ Unsubscribe(s) \/ Forget(s)
RunHandler(s) == Invoke(s) \/ Handled(s)

MQNext ==
  \/ \E s \in Subs : Subscribe(s) \/ Cancel(s) \/ Proceed(s) \/ Arrive(s) \/ RunHandler(s)
  \/ \E k \in Closers : CloseClient(k) \/ CloseAgain(k) \/ CloseReturns(k)
  \/ Teardown

MQSpec == MQInit /\ [][MQNext]_mqVars

\* Goroutines are scheduled and handlers return; nobody need ever call Close.
MQFairSpec ==
  /\ MQSpec
  /\ \A s \in Subs : WF_mqVars(Proceed(s)) /\ WF_mqVars(RunHandler(s))
  /\ WF_mqVars(Teardown)

-----------------------------------------------------------------------------
Watchers == {s \in Subs : watcher[s] # "none"}
Running == {s \in Subs : cb[s] = "running"}

MQTypeOK ==
  /\ subscribing \in [Subs -> {"out", "started", "lost"}]
  /\ reading \in [Subs -> BOOLEAN] /\ cancelled \in [Subs -> BOOLEAN]
  /\ watcher \in [Subs -> {"none", "waiting", "woken", "stopped"}]
  /\ cb \in [Subs -> {"idle", "entered", "running"}]
  /\ subs \in SUBSET Subs /\ shutDown \in BOOLEAN
  /\ wg \in Nat /\ hwg \in Nat
  /\ closer \in [Closers -> {"out", "waiting", "gone", "expired"}]
  /\ teardown \in {"none", "wg", "hwg", "conn", "done"}
  /\ natsConn \in {"open", "closed"}

\* Shutdown never abandons a running handler: once the wait on hwg is over no
\* handler runs, none can start, and only then is the connection closed; the
\* same for the watchers and wg.
ConnectionLast ==
  /\ teardown \in {"hwg", "conn", "done"} => Watchers = {}
  /\ teardown \in {"conn", "done"} \/ natsConn = "closed" => Running = {}

\* A reader is always owned: by a Subscribe still under way, or by a watcher that
\* will stop it.  After Close has swept the map none is left behind, however
\* Subscribe and Close interleave.
ReadersOwned == \A s \in Subs : reading[s] => subscribing[s] # "out" \/ watcher[s] \in {"waiting", "woken"}

\* Once Close has been called the teardown ends, also with subscribers whose
\* context is never cancelled and when Close itself stopped waiting.
TeardownEnds == shutDown ~> natsConn = "closed"
=============================================================================
