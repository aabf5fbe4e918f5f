---------------------------- MODULE AppLifecycle ----------------------------
(***************************************************************************)
(* The lifecycle of kernel/app.go: Run binds and serves the main listener  *)
(* and the secondary ones, Shutdown (called by Run, and by anyone else)    *)
(* drains and stops them once, within its budget, and then runs the        *)
(* shutdown hooks; Loopback may be called at any time.  net/http's Server  *)
(* and grpc's GracefulStop are modelled from how this code relies on them. *)
(***************************************************************************)
EXTENDS Integers, Sequences, FiniteSets

CONSTANTS
  NExtras,   \* secondary listeners are 1..NExtras, the main one is 0
  Provided,  \* those handed over by the caller (es.lis # nil); Run binds the others
  Callers,   \* goroutines other than Run that call Shutdown
  NHooks,    \* shutdown hooks
  None

Extras == 1..NExtras
Listeners == 0..NExtras

ASSUME AppAssumption ==
  /\ NExtras \in Nat /\ Provided \subseteq Extras
  /\ None \notin {"bind", "accept", "ErrServerClosed"}

VARIABLES
  run,        \* where Run is: "start", "loop", "select", "shutdown", "returned"
  next,       \* the secondary listener serve looks at next
  runErr,     \* the error Run is going to return, None when it is Shutdown's
  cancelled,  \* Run's context is done
  lis,        \* each listener: "none", "open", "closed"
  claimed,    \* extraListener.claimed
  goer,       \* each Serve goroutine: "none", "started", "accepting", "over"
  errCh,      \* what the Serve goroutines returned and nobody read yet
  broke,      \* history: some accept loop failed by itself
  down,       \* http.Servers on which Shutdown was called
  busy,       \* connections of each http.Server that are not idle
  handler,    \* a gRPC handler is running
  sd,         \* where Shutdown's once body is: "idle" ... "done"
  at,         \* the server, or the hook, it is at
  tctx,       \* the drain's context: "none", "endless", "running", "done"
  draining,
  shutdownErr, \* the hook whose error is kept, 0 for nil
  hooksRun,
  conn,       \* the loopback client connection: "none", "open", "closed"
  loopbackClosed,
  loopLis,    \* the in-process listener: "open", "closed"
  loopServe,  \* the goroutine that serves gRPC on it: "none", "serving", "over"
  caller,     \* calls of Shutdown: "no", "waiting", "returned"
  got         \* what each of them returned

serveVars == <<run, next, runErr, cancelled, claimed, goer, errCh, broke>>
shutVars == <<sd, at, draining, shutdownErr, hooksRun>>
loopVars == <<conn, loopbackClosed, loopLis, loopServe>>
vars == <<serveVars, lis, down, busy, handler, shutVars, tctx, loopVars, caller, got>>

AppInit ==
  /\ run = "start" /\ next = 1 /\ runErr = None /\ cancelled = FALSE
  /\ lis = [l \in Listeners |-> IF l \in Provided THEN "open" ELSE "none"]
  /\ claimed = [l \in Provided |-> FALSE]
  /\ goer = [l \in Listeners |-> "none"]
  /\ errCh = <<>> /\ broke = FALSE
  /\ down = {} /\ busy = {} /\ handler = FALSE
  /\ sd = "idle" /\ at = 0 /\ tctx = "none" /\ draining = FALSE
  /\ shutdownErr = 0 /\ hooksRun = 0
  /\ conn = "none" /\ loopbackClosed = FALSE /\ loopLis = "open" /\ loopServe = "none"
  /\ caller = [c \in Callers |-> "no"] /\ got = [c \in Callers |-> 0]

-----------------------------------------------------------------------------
(* Run and serve *)

Cancel ==
  /\ ~cancelled
  /\ cancelled' = TRUE
  /\ UNCHANGED <<run, next, runErr, claimed, goer, errCh, broke, lis, down, busy, handler, shutVars, tctx, loopVars, caller, got>>

\* Run: listenTCP, and serve up to its loop, which starts to serve gRPC in
\* process; a failed bind goes to Shutdown.
Listen ==
  /\ run = "start"
  /\ \/ /\ lis' = [lis EXCEPT ![0] = "open"] /\ loopServe' = "serving"
        /\ run' = "loop" /\ UNCHANGED runErr
     \/ run' = "shutdown" /\ runErr' = "bind" /\ UNCHANGED <<lis, loopServe>>
  /\ UNCHANGED <<next, cancelled, claimed, goer, errCh, broke, down, busy, handler, shutVars, tctx, conn, loopbackClosed, loopLis, caller, got>>

StartServe(l) == goer' = [goer EXCEPT ![l] = "started"]

\* A caller's listener is served by whoever wins its claim, here or in Shutdown.
ServeProvided(e) ==
  /\ run = "loop" /\ next = e /\ e \in Provided
  /\ IF claimed[e]
     THEN UNCHANGED <<claimed, goer>>
     ELSE claimed' = [claimed EXCEPT ![e] = TRUE] /\ StartServe(e)
  /\ next' = e + 1
  /\ UNCHANGED <<run, runErr, cancelled, errCh, broke, lis, down, busy, handler, shutVars, tctx, loopVars, caller, got>>

ServeBound(e) ==
  /\ run = "loop" /\ next = e /\ e \in Extras \ Provided
  /\ lis' = [lis EXCEPT ![e] = "open"]
  /\ StartServe(e)
  /\ next' = e + 1
  /\ UNCHANGED <<run, runErr, cancelled, claimed, errCh, broke, down, busy, handler, shutVars, tctx, loopVars, caller, got>>

\* Faulty variant: the main listener is left to Shutdown.
BindFails_KeepsMain(e) ==
  /\ run = "loop" /\ next = e /\ e \in Extras \ Provided
  /\ run' = "shutdown" /\ runErr' = "bind"
  /\ UNCHANGED <<next, cancelled, claimed, goer, errCh, broke, lis, down, busy, handler, shutVars, tctx, loopVars, caller, got>>

\* A failed bind closes the main listener, which no server tracks yet.
BindFails(e) ==
  /\ run = "loop" /\ next = e /\ e \in Extras \ Provided
  /\ lis' = [lis EXCEPT ![0] = "closed"]
  /\ run' = "shutdown" /\ runErr' = "bind"
  /\ UNCHANGED <<next, cancelled, claimed, goer, errCh, broke, down, busy, handler, shutVars, tctx, loopVars, caller, got>>

ServeMain ==
  /\ run = "loop" /\ next = NExtras + 1
  /\ StartServe(0)
  /\ run' = "select"
  /\ UNCHANGED <<next, runErr, cancelled, claimed, errCh, broke, lis, down, busy, handler, shutVars, tctx, loopVars, caller, got>>

SelectCancelled ==
  /\ run = "select" /\ cancelled
  /\ run' = "shutdown"
  /\ UNCHANGED <<next, runErr, cancelled, claimed, goer, errCh, broke, lis, down, busy, handler, shutVars, tctx, loopVars, caller, got>>

\* Faulty variant: ErrServerClosed ends Run at once.
SelectErr_NoWait ==
  /\ run = "select" /\ errCh # <<>>
  /\ errCh' = Tail(errCh)
  /\ IF Head(errCh) = "ErrServerClosed"
     THEN run' = "returned" /\ UNCHANGED runErr
     ELSE run' = "shutdown" /\ runErr' = Head(errCh)
  /\ UNCHANGED <<next, cancelled, claimed, goer, broke, lis, down, busy, handler, shutVars, tctx, loopVars, caller, got>>

\* A Serve returned: Run calls Shutdown in any case, and returns Shutdown's error
\* for ErrServerClosed, the error itself otherwise.
SelectErr ==
  /\ run = "select" /\ errCh # <<>>
  /\ errCh' = Tail(errCh)
  /\ run' = "shutdown"
  /\ runErr' = IF Head(errCh) = "ErrServerClosed" THEN None ELSE Head(errCh)
  /\ UNCHANGED <<next, cancelled, claimed, goer, broke, lis, down, busy, handler, shutVars, tctx, loopVars, caller, got>>

\* Run returns runErr, or else Shutdown's error.
RunReturns ==
  /\ run = "shutdown" /\ sd = "done"
  /\ run' = "returned"
  /\ UNCHANGED <<next, runErr, cancelled, claimed, goer, errCh, broke, lis, down, busy, handler, shutVars, tctx, loopVars, caller, got>>

-----------------------------------------------------------------------------
(* http.Server.Serve, connections and gRPC handlers *)

ServeReturns(l, err) ==
  /\ goer' = [goer EXCEPT ![l] = "over"]
  /\ lis' = [lis EXCEPT ![l] = "closed"]
  /\ errCh' = Append(errCh, err)

\* Serve on a server that is shut down closes the listener and returns
\* ErrServerClosed; on a listener that is closed already its accept fails.
ServeBegins(l) ==
  /\ goer[l] = "started"
  /\ IF l \in down THEN ServeReturns(l, "ErrServerClosed")
     ELSE IF lis[l] = "closed" THEN ServeReturns(l, "accept")
     ELSE goer' = [goer EXCEPT ![l] = "accepting"] /\ UNCHANGED <<lis, errCh>>
  /\ UNCHANGED <<run, next, runErr, cancelled, claimed, broke, down, busy, handler, shutVars, tctx, loopVars, caller, got>>

ServeStops(l) ==
  /\ goer[l] = "accepting" /\ l \in down
  /\ ServeReturns(l, "ErrServerClosed")
  /\ UNCHANGED <<run, next, runErr, cancelled, claimed, broke, down, busy, handler, shutVars, tctx, loopVars, caller, got>>

ServeBreaks(l) ==
  /\ goer[l] = "accepting" /\ l \notin down
  /\ ServeReturns(l, "accept")
  /\ broke' = TRUE
  /\ UNCHANGED <<run, next, runErr, cancelled, claimed, down, busy, handler, shutVars, tctx, loopVars, caller, got>>

\* A request keeps its connection busy; on the main listener it may be an RPC.
Arrive(l) ==
  /\ goer[l] = "accepting" /\ lis[l] = "open" /\ l \notin busy
  /\ busy' = busy \cup {l}
  /\ handler' \in {handler, handler \/ l = 0}
  /\ UNCHANGED <<serveVars, lis, down, shutVars, tctx, loopVars, caller, got>>

\* Handlers end, or never do.
Answer(l) ==
  /\ l \in busy /\ ~(l = 0 /\ handler)
  /\ busy' = busy \ {l}
  /\ UNCHANGED <<serveVars, lis, down, handler, shutVars, tctx, loopVars, caller, got>>

HandlerEnds ==
  /\ handler
  /\ handler' = FALSE
  /\ UNCHANGED <<serveVars, lis, down, busy, shutVars, tctx, loopVars, caller, got>>

-----------------------------------------------------------------------------
(* Shutdown *)

\* shutdownOnce lets one body run; every caller waits for it.
CallShutdown(c) ==
  /\ caller[c] = "no"
  /\ caller' = [caller EXCEPT ![c] = "waiting"]
  /\ UNCHANGED <<serveVars, lis, down, busy, handler, shutVars, tctx, loopVars, got>>

ShutdownReturns(c) ==
  /\ caller[c] = "waiting" /\ sd = "done"
  /\ caller' = [caller EXCEPT ![c] = "returned"]
  /\ got' = [got EXCEPT ![c] = shutdownErr]
  /\ UNCHANGED <<serveVars, lis, down, busy, handler, shutVars, tctx, loopVars>>

\* The body starts: health.Drain.  Without a ShutdownTimeout tctx is the caller's
\* context, which may have no end.
Drain ==
  /\ sd = "idle"
  /\ run = "shutdown" \/ \E c \in Callers : caller[c] = "waiting"
  /\ draining' = TRUE
  /\ sd' = "server" /\ at' = 0
  /\ tctx' \in {"running", "endless"}
  /\ UNCHANGED <<serveVars, lis, down, busy, handler, shutdownErr, hooksRun, loopVars, caller, got>>

\* ShutdownTimeout runs from the start of the body, and ends with it.
Expire ==
  /\ tctx = "running" /\ sd # "done"
  /\ tctx' = "done"
  /\ UNCHANGED <<serveVars, lis, down, busy, handler, shutVars, loopVars, caller, got>>

Expired == tctx = "done"

\* A caller's listener that serve has not claimed is closed here ...
ClaimProvided ==
  /\ sd = "server" /\ at \in Provided /\ ~claimed[at] /\ at \notin down
  /\ claimed' = [claimed EXCEPT ![at] = TRUE]
  /\ lis' = [lis EXCEPT ![at] = "closed"]
  /\ UNCHANGED <<run, next, runErr, cancelled, goer, errCh, broke, down, busy, handler, shutVars, tctx, loopVars, caller, got>>

\* ... and http.Server.Shutdown closes the listener its Serve tracks.
StopServer ==
  /\ sd = "server" /\ at \notin down
  /\ at \in Provided => claimed[at]
  /\ lis' = [lis EXCEPT ![at] = IF goer[at] = "accepting" THEN "closed" ELSE @]
  /\ down' = down \cup {at}
  /\ UNCHANGED <<serveVars, busy, handler, shutVars, tctx, loopVars, caller, got>>

\* It returns when no connection is busy, or at the deadline, and Close follows.
ServerStopped ==
  /\ sd = "server" /\ at \in down
  /\ at \notin busy \/ Expired
  /\ busy' = busy \ {at}
  /\ IF at < NExtras THEN at' = at + 1 /\ UNCHANGED sd
     ELSE sd' = "loopback" /\ at' = 0
  /\ UNCHANGED <<serveVars, lis, down, handler, draining, shutdownErr, hooksRun, tctx, loopVars, caller, got>>

\* loopbackMu is held to mark the loopback closed and to read its connection, ...
MarkLoopback ==
  /\ sd = "loopback"
  /\ loopbackClosed' = TRUE
  /\ sd' = "conn"
  /\ UNCHANGED <<serveVars, lis, down, busy, handler, at, draining, shutdownErr, hooksRun, tctx, conn, loopLis, loopServe, caller, got>>

\* ... and not to close it.
CloseLoopback ==
  /\ sd = "conn"
  /\ conn' = IF conn = "open" THEN "closed" ELSE conn
  /\ sd' = "grpc"
  /\ UNCHANGED <<serveVars, lis, down, busy, handler, at, draining, shutdownErr, hooksRun, tctx, loopbackClosed, loopLis, loopServe, caller, got>>

\* Faulty variant: Stop is called inline and waits for GracefulStop's mutex.
StopGRPC_Inline ==
  /\ sd = "grpc"
  /\ ~handler
  /\ loopLis' = "closed"
  /\ sd' = "hooks" /\ at' = 1
  /\ UNCHANGED <<serveVars, lis, down, busy, handler, draining, shutdownErr, hooksRun, tctx, conn, loopbackClosed, loopServe, caller, got>>

\* GracefulStop ends, or the deadline passes and Stop is left to a goroutine; then
\* the loopback's listener is closed.
StopGRPC ==
  /\ sd = "grpc"
  /\ ~handler \/ Expired
  /\ loopLis' = "closed"
  /\ sd' = "hooks" /\ at' = 1
  /\ UNCHANGED <<serveVars, lis, down, busy, handler, draining, shutdownErr, hooksRun, tctx, conn, loopbackClosed, loopServe, caller, got>>

\* grpc's Serve closes its listener and returns once GracefulStop has begun, also
\* when it starts only then, or when its listener is closed.
LoopServeEnds ==
  /\ loopServe = "serving"
  /\ sd = "grpc" \/ loopLis = "closed"
  /\ loopServe' = "over" /\ loopLis' = "closed"
  /\ UNCHANGED <<serveVars, lis, down, busy, handler, shutVars, tctx, conn, loopbackClosed, caller, got>>

\* A hook ends (it honours its own budget); the first error is kept.
Hook ==
  /\ sd = "hooks"
  /\ \E err \in {0, at} :
       shutdownErr' = IF shutdownErr = 0 THEN err ELSE shutdownErr
  /\ hooksRun' = hooksRun + 1 /\ at' = at + 1
  /\ sd' = IF at = NHooks THEN "done" ELSE sd
  /\ UNCHANGED <<serveVars, lis, down, busy, handler, draining, tctx, loopVars, caller, got>>

\* Loopback: one connection, unless Shutdown has passed.
Loopback ==
  /\ ~loopbackClosed /\ conn = "none"
  /\ conn' = "open"
  /\ UNCHANGED <<serveVars, lis, down, busy, handler, shutVars, tctx, loopbackClosed, loopLis, loopServe, caller, got>>

-----------------------------------------------------------------------------
RunStep ==
  \/ Listen \/ ServeMain \/ SelectCancelled \/ SelectErr \/ RunReturns
  \/ \E e \in Extras : ServeProvided(e) \/ ServeBound(e) \/ BindFails(e)

ShutdownStep ==
  \/ Drain \/ ClaimProvided \/ StopServer \/ ServerStopped \/ MarkLoopback \/ CloseLoopback
  \/ StopGRPC \/ Hook

ServeStep(l) == ServeBegins(l) \/ ServeStops(l)

\* Run has returned, its goroutines are over and nobody else calls Shutdown.
Finished ==
  /\ run = "returned" /\ \A c \in Callers : caller[c] = "returned"
  /\ loopServe # "serving" /\ \A l \in Listeners : goer[l] \in {"none", "over"}
  /\ UNCHANGED vars

AppNext ==
  \/ RunStep \/ ShutdownStep \/ Expire \/ HandlerEnds \/ Loopback \/ LoopServeEnds \/ Finished
  \/ \E l \in Listeners : ServeStep(l) \/ ServeBreaks(l) \/ Arrive(l) \/ Answer(l)
  \/ \E c \in Callers : CallShutdown(c) \/ ShutdownReturns(c)

\* The goroutines of Run and Shutdown run, and a timeout that is set passes; that a
\* request ends, a Serve goroutine is scheduled, a client calls or the context is
\* cancelled is not assumed.
Fairness ==
  /\ WF_vars(RunStep) /\ WF_vars(ShutdownStep) /\ WF_vars(Expire)
  /\ \A c \in Callers : WF_vars(ShutdownReturns(c))

-----------------------------------------------------------------------------
AppTypeOK ==
  /\ run \in {"start", "loop", "select", "shutdown", "returned"}
  /\ next \in 1..(NExtras + 1) /\ runErr \in {None, "bind", "accept"} /\ cancelled \in BOOLEAN
  /\ lis \in [Listeners -> {"none", "open", "closed"}]
  /\ claimed \in [Provided -> BOOLEAN]
  /\ goer \in [Listeners -> {"none", "started", "accepting", "over"}]
  /\ Len(errCh) <= NExtras + 1
  /\ down \subseteq Listeners /\ busy \subseteq Listeners
  /\ handler \in BOOLEAN /\ tctx \in {"none", "endless", "running", "done"} /\ draining \in BOOLEAN
  /\ sd \in {"idle", "server", "loopback", "conn", "grpc", "hooks", "done"}
  /\ at \in 0..(NHooks + 1) \cup Listeners
  /\ shutdownErr \in 0..NHooks /\ hooksRun \in 0..NHooks
  /\ conn \in {"none", "open", "closed"} /\ loopbackClosed \in BOOLEAN
  /\ loopLis \in {"open", "closed"} /\ loopServe \in {"none", "serving", "over"}

\* Run "never returns mid-drain": when Run, or any call of Shutdown, has returned,
\* every hook has run, none twice, and each call reports the first hook's failure.  And
\* Run returns an accept error only when an accept loop really failed: a listener that
\* a concurrent Shutdown took is never served.
NoReturnMidDrain ==
  /\ run = "returned" \/ (\E c \in Callers : caller[c] = "returned") =>
       sd = "done" /\ hooksRun = NHooks
  /\ \A c \in Callers : caller[c] = "returned" => got[c] = shutdownErr
  /\ runErr = "accept" => broke

\* No listener outlives the app, bound by Run or handed over by the caller, on
\* whichever path Run ended and whenever Shutdown came; nor does the loopback, its
\* listener and its connection, whenever Loopback was called.
ListenersReleased ==
  /\ run = "returned" /\ (\A l \in Listeners : goer[l] \in {"none", "over"}) =>
       \A l \in Listeners : lis[l] # "open"
  /\ sd \in {"grpc", "hooks", "done"} => conn # "open"
  /\ sd \in {"hooks", "done"} => loopLis = "closed"
=============================================================================
