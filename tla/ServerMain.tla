----------------------------- MODULE ServerMain -----------------------------
(***************************************************************************)
(* run() of cmd/server/main.go around the application's lifecycle: the     *)
(* telemetry providers are set up first, then the app is built and wired,  *)
(* and Run takes over.  Every step of the start-up may fail; a signal may  *)
(* come at any time.  The providers are flushed by the app's shutdown      *)
(* hooks or, when Run was never reached, by a deferred function.           *)
(***************************************************************************)
EXTENDS AppLifecycle

Stages == <<"logs", "tracing", "metrics", "build", "loopback", "wiring", "running", "exited">>

\* The providers in the order of their shutdown hooks.
Providers == <<"tracing", "metrics", "logs">>

ASSUME ServerAssumption == NHooks = Len(Providers)

VARIABLES
  stage,       \* index of what run() does next
  deferred,    \* the function that flushes is registered
  appStarted,
  early        \* it has flushed

bootVars == <<stage, deferred, appStarted, early>>
allVars == <<vars, bootVars>>

\* cmd/server, or another program that has built an app and calls its Run.
Init ==
  /\ AppInit
  /\ deferred = FALSE /\ early = FALSE
  /\ \/ stage = 1 /\ appStarted = FALSE
     \/ stage = Len(Stages) - 1 /\ appStarted = TRUE

Now == Stages[stage]

\* What the deferred functions do when run() returns.
Exit ==
  /\ stage' = Len(Stages)
  /\ early' = (deferred /\ ~appStarted)
  /\ UNCHANGED <<deferred, appStarted>>

\* A setup or a constructor succeeds; after the metrics the guard is registered.
Advance ==
  /\ Now \in {"logs", "tracing", "metrics", "build"}
  /\ stage' = stage + 1
  /\ deferred' = (deferred \/ Now = "metrics")
  /\ UNCHANGED <<vars, appStarted, early>>

\* The loopback that the gateway and the bridge forward through.
BootLoopback ==
  /\ Now = "loopback"
  /\ Loopback
  /\ stage' = stage + 1
  /\ UNCHANGED <<deferred, appStarted, early>>

\* Faulty variant: the guard is not told that Run takes over.
TakeOver_Unmarked ==
  /\ Now = "wiring"
  /\ stage' = stage + 1
  /\ UNCHANGED <<vars, deferred, appStarted, early>>

\* Gateway, descriptors and bridge are there: app.Run owns the telemetry now.
TakeOver ==
  /\ Now = "wiring"
  /\ stage' = stage + 1 /\ appStarted' = TRUE
  /\ UNCHANGED <<vars, deferred, early>>

BootFails == Now \notin {"running", "exited"} /\ Exit /\ UNCHANGED vars

AppReturns == Now = "running" /\ run = "returned" /\ Exit /\ UNCHANGED vars

\* SIGINT or SIGTERM, from the first step on.
Signal == Now # "exited" /\ Cancel /\ UNCHANGED bootVars

\* The app's other goroutines may outlive run() until the process ends.
Running == (Now = "running" \/ run = "returned") /\ AppNext /\ UNCHANGED bootVars

Exited == Now = "exited" /\ run # "returned" /\ UNCHANGED allVars

BootStep == Advance \/ BootLoopback \/ TakeOver \/ BootFails \/ AppReturns

Next == BootStep \/ Signal \/ Running \/ Exited

Spec == Init /\ [][Next]_allVars

\* The setups and constructors return, some with an error: they have timeouts.
FairSpec == Spec /\ Fairness /\ WF_allVars(BootStep)

-----------------------------------------------------------------------------
TypeOK ==
  /\ AppTypeOK
  /\ stage \in 1..Len(Stages) /\ {deferred, appStarted, early} \subseteq BOOLEAN

Flushes(i) == (IF early THEN 1 ELSE 0) + (IF hooksRun >= i THEN 1 ELSE 0)

\* Once all telemetry providers are set up, each is flushed exactly once by the time
\* run() returns, whichever step failed or whenever the signal came ("skips the
\* double-flush"); and none before the servers have let go of their requests.
FlushedOnce ==
  /\ Now = "exited" /\ deferred => \A i \in 1..Len(Providers) : Flushes(i) = 1
  /\ appStarted /\ (\E i \in 1..Len(Providers) : Flushes(i) > 0) =>
       busy = {} /\ (~handler \/ Expired)

\* The body waits for a request and no deadline will end the wait.
Stuck ==
  /\ tctx = "endless"
  /\ \/ sd = "server" /\ at \in down \cap busy
     \/ sd = "grpc" /\ handler

\* Shutdown ends within its budgets even if connections stay busy and gRPC
\* handlers never return; so does Run, and a signal ends run() from any step.
\* Without a ShutdownTimeout all this is so unless some request never ends.
ShutdownBounded ==
  []<>~Stuck =>
    /\ \A c \in Callers : caller[c] = "waiting" ~> caller[c] = "returned"
    /\ cancelled ~> Now = "exited"
=============================================================================
