--------------------------- MODULE ServerMainProofs ---------------------------
(***************************************************************************)
(* Proofs about the server's life for any number of secondary listeners,   *)
(* handed over or bound, and any callers of Shutdown.                      *)
(***************************************************************************)
EXTENDS ServerMain, SequenceTheorems, TLAPS

\* A leaf that names no prover is tried with Zenon, then with SMT.
USE ZenonT(3), SMTT(30), ZenonT(20)

\* The types the proofs need: how long errCh grows does not matter to them, nor
\* that flags are Boolean.
Typed ==
  /\ run \in {"start", "loop", "select", "shutdown", "returned"}
  /\ next \in Nat
  /\ lis \in [Listeners -> {"none", "open", "closed"}]
  /\ claimed \in [Provided -> BOOLEAN]
  /\ goer \in [Listeners -> {"none", "started", "accepting", "over"}]
  /\ errCh \in Seq({"accept", "ErrServerClosed"})
  /\ down \subseteq Listeners /\ busy \subseteq Listeners
  /\ sd \in {"idle", "server", "loopback", "conn", "grpc", "hooks", "done"}
  /\ at \in Nat /\ hooksRun \in Nat /\ shutdownErr \in Nat
  /\ conn \in {"none", "open", "closed"}
  /\ caller \in [Callers -> {"no", "waiting", "returned"}] /\ got \in [Callers -> Nat]

\* Every http.Server has been stopped.
Stopping == sd \in {"loopback", "conn", "grpc", "hooks", "done"}

\* Where the body of Shutdown is tells which servers are down, which of them may
\* still be busy, and how many hooks have run.
BodyOK ==
  /\ sd = "idle" => down = {}
  /\ sd = "server" => at \in Listeners /\ down \subseteq 0..at /\ 0..(at - 1) \subseteq down
                      /\ \A l \in busy : l >= at
  /\ Stopping => down = Listeners /\ busy = {}
  /\ sd \in {"idle", "server", "loopback", "conn", "grpc"} => hooksRun = 0
  /\ sd = "hooks" => at = hooksRun + 1 /\ hooksRun < NHooks
  /\ sd = "done" => hooksRun = NHooks
  /\ sd \in {"hooks", "done"} => (~handler \/ Expired) /\ loopLis = "closed"
  /\ loopbackClosed <=> sd \in {"conn", "grpc", "hooks", "done"}
  /\ sd \in {"grpc", "hooks", "done"} => conn # "open"

\* A listener and its Serve goroutine: Serve never starts on a closed listener, a
\* server that is down accepts nothing, and one that nobody serves is not left open.
ListenerOK(l) ==
  /\ goer[l] = "started" => lis[l] = "open"
  /\ goer[l] = "accepting" => (lis[l] = "open" <=> l \notin down)
  /\ goer[l] = "over" => lis[l] = "closed"
  /\ l \in Provided =>
       /\ ~claimed[l] => lis[l] = "open" /\ goer[l] = "none" /\ l \notin down
       /\ claimed[l] /\ goer[l] = "none" => lis[l] = "closed"
  /\ l \in Extras \ Provided /\ goer[l] = "none" => lis[l] = "none"

ListenersOK == \A l \in Listeners : ListenerOK(l)

\* The main listener waits for its Serve only while Run is in its loop.
MainOK ==
  /\ run \in {"start", "loop"} => goer[0] = "none"
  /\ run = "loop" <=> (goer[0] = "none" /\ lis[0] = "open")

\* An accept error in the channel, or on its way out of Run, is a real one.
ErrorsOK ==
  /\ \A i \in 1..Len(errCh) : errCh[i] = "accept" => broke
  /\ runErr = "accept" => broke

\* Who has returned has seen the body of Shutdown end.
ReturnsOK ==
  /\ run = "returned" => sd = "done"
  /\ \A c \in Callers : caller[c] = "returned" => sd = "done" /\ got[c] = shutdownErr

AppOK == Typed /\ BodyOK /\ ListenersOK /\ MainOK /\ ErrorsOK /\ ReturnsOK

\* Before Run nothing of the app moves; the deferred flush and the hooks exclude
\* each other through appStarted.
BootOK ==
  /\ stage \in 1..8
  /\ stage < 7 => ~appStarted
  /\ stage = 7 => appStarted
  /\ early => stage = 8 /\ ~appStarted
  /\ stage = 8 /\ appStarted => run = "returned"
  /\ stage = 8 /\ ~appStarted => (early <=> deferred)
  /\ ~appStarted => run = "start" /\ sd = "idle"

AppInv == AppOK /\ BootOK
-----------------------------------------------------------------------------
\* The steps of the app.

\* The server registers one hook for each telemetry provider.
LEMMA ThreeHooks == NHooks \in Nat /\ NHooks = 3 /\ Len(Providers) = 3
BY ServerAssumption DEF Providers

\* Steps that do not concern the body of Shutdown.
LEMMA BodyStays ==
  ASSUME BodyOK, UNCHANGED <<sd, at, down, busy, hooksRun, handler, tctx, conn, loopbackClosed, loopLis>>
  PROVE  BodyOK'
BY DEF BodyOK, Stopping, Expired

\* A listener that a step leaves alone.
LEMMA ListenerStays ==
  ASSUME NEW l, ListenerOK(l), goer'[l] = goer[l], lis'[l] = lis[l], UNCHANGED <<claimed, down>>
  PROVE  ListenerOK(l)'
BY DEF ListenerOK

\* A Serve goroutine leaves its error in the channel.
LEMMA ErrorSent ==
  ASSUME Typed, ErrorsOK, NEW err \in {"accept", "ErrServerClosed"},
         errCh' = Append(errCh, err), runErr' = runErr,
         broke => broke', err = "accept" => broke'
  PROVE  ErrorsOK' /\ errCh' \in Seq({"accept", "ErrServerClosed"})
<1>1. /\ errCh' \in Seq({"accept", "ErrServerClosed"}) /\ Len(errCh') = Len(errCh) + 1
      /\ errCh'[Len(errCh) + 1] = err /\ Len(errCh) \in Nat
      /\ \A i \in 1..Len(errCh) : errCh'[i] = errCh[i]
  BY AppendProperties, LenProperties DEF Typed
<1>2. \A i \in 1..Len(errCh') : i = Len(errCh) + 1 \/ i \in 1..Len(errCh)
  BY <1>1
<1> QED BY <1>1, <1>2 DEF ErrorsOK

\* The main listener is bound, or not.
LEMMA ListenInv ==
  ASSUME AppOK, Listen
  PROVE  AppOK'
<1> USE AppAssumption DEF AppOK, Typed, Listeners, Extras, Listen, serveVars, shutVars, loopVars
<1>0. 0 \in Listeners /\ 0 \notin Extras /\ 0 \notin Provided
  OBVIOUS
<1>1. Typed'
  OBVIOUS
<1>2. BodyOK'
  BY DEF BodyOK, Stopping, Expired
<1>3. ListenersOK'
  <2>1. \A l \in Listeners \ {0} : ListenerOK(l)'
    BY <1>0 DEF ListenersOK, ListenerOK
  <2>2. ListenerOK(0)'
    BY <1>0 DEF ListenersOK, ListenerOK, MainOK
  <2> QED BY <2>1, <2>2 DEF ListenersOK
<1>4. MainOK'
  BY <1>0 DEF MainOK
<1>5. ErrorsOK'
  BY DEF ErrorsOK
<1>6. ReturnsOK'
  BY DEF ReturnsOK
<1> QED BY <1>1, <1>2, <1>3, <1>4, <1>5, <1>6

\* The claim of a caller's listener keeps serve and Shutdown off each other.
LEMMA ServeProvidedInv ==
  ASSUME AppOK, NEW e \in Extras, ServeProvided(e)
  PROVE  AppOK'
<1> USE AppAssumption DEF AppOK, Typed, Listeners, Extras, ServeProvided, StartServe, serveVars, shutVars, loopVars
<1>1. Typed'
  <2>1. claimed' \in [Provided -> BOOLEAN]
    BY Zenon
  <2> QED BY <2>1
<1>2. BodyOK'
  BY DEF BodyOK, Stopping, Expired
<1>3. ListenersOK'
  BY DEF ListenersOK, ListenerOK
<1>4. MainOK'
  BY DEF MainOK
<1>5. ErrorsOK'
  BY DEF ErrorsOK
<1>6. ReturnsOK'
  BY DEF ReturnsOK
<1> QED BY <1>1, <1>2, <1>3, <1>4, <1>5, <1>6

\* A secondary listener is bound and served.
LEMMA ServeBoundInv ==
  ASSUME AppOK, NEW e \in Extras, ServeBound(e)
  PROVE  AppOK'
<1> USE AppAssumption DEF AppOK, Typed, Listeners, Extras, ServeBound, StartServe, serveVars, shutVars, loopVars
<1>1. Typed'
  OBVIOUS
<1>2. BodyOK'
  BY DEF BodyOK, Stopping, Expired
<1>3. ListenersOK'
  BY DEF ListenersOK, ListenerOK
<1>4. MainOK'
  BY DEF MainOK
<1>5. ErrorsOK'
  BY DEF ErrorsOK
<1>6. ReturnsOK'
  BY DEF ReturnsOK
<1> QED BY <1>1, <1>2, <1>3, <1>4, <1>5, <1>6

\* A failed bind lets go of the main listener.
LEMMA BindFailsInv ==
  ASSUME AppOK, NEW e \in Extras, BindFails(e)
  PROVE  AppOK'
<1> USE AppAssumption DEF AppOK, Typed, Listeners, Extras, BindFails, serveVars, shutVars, loopVars
<1>0. 0 \in Listeners /\ 0 \notin Extras /\ 0 \notin Provided
  OBVIOUS
<1>1. Typed'
  OBVIOUS
<1>2. BodyOK'
  BY DEF BodyOK, Stopping, Expired
<1>3. ListenersOK'
  <2>1. \A l \in Listeners \ {0} : ListenerOK(l)'
    BY <1>0 DEF ListenersOK, ListenerOK
  <2>2. ListenerOK(0)'
    BY <1>0 DEF ListenersOK, ListenerOK, MainOK
  <2> QED BY <2>1, <2>2 DEF ListenersOK
<1>4. MainOK'
  BY <1>0 DEF MainOK
<1>5. ErrorsOK'
  BY DEF ErrorsOK
<1>6. ReturnsOK'
  BY DEF ReturnsOK
<1> QED BY <1>1, <1>2, <1>3, <1>4, <1>5, <1>6

\* The main listener is served.
LEMMA ServeMainInv ==
  ASSUME AppOK, ServeMain
  PROVE  AppOK'
<1> USE AppAssumption DEF AppOK, Typed, Listeners, Extras, ServeMain, StartServe, serveVars, shutVars, loopVars
<1>0. 0 \in Listeners /\ 0 \notin Extras /\ 0 \notin Provided
  OBVIOUS
<1>1. Typed'
  OBVIOUS
<1>2. BodyOK'
  BY DEF BodyOK, Stopping, Expired
<1>3. ListenersOK'
  <2>1. \A l \in Listeners \ {0} : ListenerOK(l)'
    BY <1>0 DEF ListenersOK, ListenerOK
  <2>2. ListenerOK(0)'
    BY <1>0 DEF ListenersOK, ListenerOK, MainOK
  <2> QED BY <2>1, <2>2 DEF ListenersOK
<1>4. MainOK'
  BY <1>0 DEF MainOK
<1>5. ErrorsOK'
  BY DEF ErrorsOK
<1>6. ReturnsOK'
  BY DEF ReturnsOK
<1> QED BY <1>1, <1>2, <1>3, <1>4, <1>5, <1>6

\* Run leaves its select for Shutdown, and Shutdown for good.
LEMMA SelectInv ==
  ASSUME AppOK, SelectCancelled \/ SelectErr \/ RunReturns
  PROVE  AppOK'
<1> USE AppAssumption DEF AppOK, Typed, Listeners, Extras, SelectCancelled, SelectErr, RunReturns, serveVars, shutVars, loopVars
<1>1. Typed'
  <2>1. errCh' \in Seq({"accept", "ErrServerClosed"})
    <3>1. CASE SelectErr
      BY <3>1, HeadTailProperties
    <3>2. CASE errCh' = errCh
      BY <3>2
    <3> QED BY <3>1, <3>2
  <2> QED BY <2>1
<1>2. BodyOK'
  BY BodyStays
<1>3. ListenersOK'
  BY DEF ListenersOK, ListenerOK
<1>4. MainOK'
  BY DEF MainOK
<1>5. ErrorsOK'
  <2>1. CASE SelectErr
    <3>1. /\ Head(errCh) = errCh[1] /\ Len(errCh) \in Nat /\ Len(errCh) >= 1
          /\ Len(errCh') = Len(errCh) - 1
          /\ \A i \in 1..Len(errCh') : errCh'[i] = errCh[i + 1]
      BY <2>1, HeadTailProperties, LenProperties
    <3>2. 1 \in 1..Len(errCh) /\ \A i \in 1..Len(errCh') : i + 1 \in 1..Len(errCh)
      BY <3>1
    <3>3. broke' = broke /\ \A i \in 1..Len(errCh) : errCh[i] = "accept" => broke
      BY <2>1 DEF ErrorsOK
    <3>4. \A i \in 1..Len(errCh') : errCh'[i] = "accept" => broke'
      BY <3>1, <3>2, <3>3
    <3>5. runErr' \in {None, Head(errCh)}
      BY <2>1
    <3> QED BY <3>1, <3>2, <3>3, <3>4, <3>5 DEF ErrorsOK
  <2>2. CASE UNCHANGED <<errCh, runErr, broke>>
    BY <2>2 DEF ErrorsOK
  <2> QED BY <2>1, <2>2
<1>6. ReturnsOK'
  BY DEF ReturnsOK
<1> QED BY <1>1, <1>2, <1>3, <1>4, <1>5, <1>6

\* A Serve goroutine starts to accept, or finds its server down.
LEMMA ServeBeginsInv ==
  ASSUME AppOK, NEW l \in Listeners, ServeBegins(l)
  PROVE  AppOK'
<1> USE AppAssumption DEF AppOK, Typed, Listeners, Extras, ServeBegins, ServeReturns, serveVars, shutVars, loopVars
<1>1. Typed'
  <2>1. errCh' \in Seq({"accept", "ErrServerClosed"})
    <3>1. CASE errCh' = errCh
      BY <3>1
    <3>2. CASE errCh' # errCh
      <4>1. PICK err \in {"accept", "ErrServerClosed"} : errCh' = Append(errCh, err)
        BY <3>2
      <4> QED BY <4>1, AppendProperties
    <3> QED BY <3>1, <3>2
  <2>2. /\ goer' \in [Listeners -> {"none", "started", "accepting", "over"}]
        /\ lis' \in [Listeners -> {"none", "open", "closed"}]
    OBVIOUS
  <2> QED BY <2>1, <2>2
<1>2. BodyOK'
  BY DEF BodyOK, Stopping, Expired
<1>3. ListenersOK'
  <2>1. \A d \in Listeners \ {l} : goer'[d] = goer[d] /\ lis'[d] = lis[d]
    OBVIOUS
  <2>2. UNCHANGED <<claimed, down>>
    OBVIOUS
  <2>3. \/ goer'[l] = "accepting" /\ lis'[l] = lis[l] /\ l \notin down
        \/ goer'[l] = "over" /\ lis'[l] = "closed"
    OBVIOUS
  <2>4. goer[l] = "started" /\ \A d \in Listeners : ListenerOK(d)
    BY DEF ListenersOK
  <2>5. ListenerOK(l)'
    BY <2>2, <2>3, <2>4, Zenon DEF ListenerOK
  <2>6. \A d \in Listeners \ {l} : ListenerOK(d)'
    BY <2>1, <2>2, <2>4, ListenerStays
  <2> QED BY <2>5, <2>6, Zenon DEF ListenersOK
<1>4. MainOK'
  BY DEF MainOK
<1>5. ErrorsOK'
  <2>1. CASE errCh' = errCh
    BY <2>1 DEF ErrorsOK
  <2>2. CASE errCh' # errCh
    <3>1. l \in down
      BY <2>2 DEF ListenersOK, ListenerOK
    <3> QED BY <3>1, ErrorSent
  <2> QED BY <2>1, <2>2
<1>6. ReturnsOK'
  BY DEF ReturnsOK
<1> QED BY <1>1, <1>2, <1>3, <1>4, <1>5, <1>6

\* A Serve goroutine ends.
LEMMA ServeEndsInv ==
  ASSUME AppOK, NEW l \in Listeners, ServeStops(l) \/ ServeBreaks(l)
  PROVE  AppOK'
<1> USE AppAssumption DEF AppOK, Typed, Listeners, Extras, ServeStops, ServeBreaks, ServeReturns, serveVars, shutVars, loopVars
<1>1. Typed'
  <2>1. errCh' \in Seq({"accept", "ErrServerClosed"})
    BY ErrorSent
  <2> QED BY <2>1, ZenonT(20)
<1>2. BodyOK'
  BY BodyStays
<1>3. ListenersOK'
  BY DEF ListenersOK, ListenerOK
<1>4. MainOK'
  BY DEF MainOK
<1>5. ErrorsOK'
  BY ErrorSent
<1>6. ReturnsOK'
  BY DEF ReturnsOK
<1> QED BY <1>1, <1>2, <1>3, <1>4, <1>5, <1>6

\* A request comes, or is answered.
LEMMA TrafficInv ==
  ASSUME AppOK, NEW l \in Listeners, Arrive(l) \/ Answer(l)
  PROVE  AppOK'
<1> USE AppAssumption DEF AppOK, Typed, Listeners, Extras, Arrive, Answer, serveVars, shutVars, loopVars
<1>1. Typed'
  OBVIOUS
<1>2. BodyOK'
  <2>1. CASE Answer(l)
    BY <2>1 DEF BodyOK, Stopping, Expired
  <2>2. CASE Arrive(l)
    <3>1. l \notin down /\ l \in Nat
      BY <2>2 DEF ListenersOK, ListenerOK
    <3>2. ~Stopping
      BY <3>1 DEF BodyOK
    <3>3. sd = "server" => l >= at
      BY <3>1 DEF BodyOK
    <3> QED BY <2>2, <3>2, <3>3 DEF BodyOK, Stopping, Expired
  <2> QED BY <2>1, <2>2
<1>3. ListenersOK'
  BY DEF ListenersOK, ListenerOK
<1>4. MainOK'
  BY DEF MainOK
<1>5. ErrorsOK'
  BY DEF ErrorsOK
<1>6. ReturnsOK'
  BY DEF ReturnsOK
<1> QED BY <1>1, <1>2, <1>3, <1>4, <1>5, <1>6

\* A handler ends, a loopback is opened, its Serve ends, the budget is spent.
LEMMA QuietInv ==
  ASSUME AppOK, HandlerEnds \/ Loopback \/ LoopServeEnds \/ Expire
  PROVE  AppOK'
<1>1. /\ UNCHANGED <<run, next, runErr, claimed, goer, errCh, broke, lis, down, busy>>
      /\ UNCHANGED <<shutVars, caller, got>>
      /\ conn' \in {conn, "open"}
  BY DEF HandlerEnds, Loopback, LoopServeEnds, Expire, serveVars, loopVars
<1>2. BodyOK'
  <2>1. /\ loopbackClosed' = loopbackClosed /\ (loopbackClosed => conn' = conn)
        /\ handler' => handler
        /\ Expired => Expired'
        /\ loopLis = "closed" => loopLis' = "closed"
    BY DEF HandlerEnds, Loopback, LoopServeEnds, Expire, Expired, loopVars
  <2> QED BY <1>1, <2>1 DEF AppOK, BodyOK, Stopping, shutVars
<1>3. Typed'
  BY <1>1 DEF AppOK, Typed, shutVars
<1> QED
  BY <1>1, <1>2, <1>3 DEF AppOK, ListenersOK, ListenerOK, MainOK, ErrorsOK, ReturnsOK, shutVars

\* Calls of Shutdown wait for its body.
LEMMA CallsInv ==
  ASSUME AppOK, NEW c \in Callers, CallShutdown(c) \/ ShutdownReturns(c)
  PROVE  AppOK'
<1> USE AppAssumption DEF AppOK, Typed, Listeners, Extras, CallShutdown, ShutdownReturns, serveVars, shutVars, loopVars
<1>1. Typed'
  OBVIOUS
<1>2. BodyOK'
  BY BodyStays
<1>3. ListenersOK'
  BY DEF ListenersOK, ListenerOK
<1>4. MainOK'
  BY DEF MainOK
<1>5. ErrorsOK'
  BY DEF ErrorsOK
<1>6. ReturnsOK'
  BY DEF ReturnsOK
<1> QED BY <1>1, <1>2, <1>3, <1>4, <1>5, <1>6

\* The body starts.
LEMMA DrainInv ==
  ASSUME AppOK, Drain
  PROVE  AppOK'
<1> USE AppAssumption DEF AppOK, Typed, Listeners, Extras, Drain, serveVars, shutVars, loopVars
<1>1. Typed'
  OBVIOUS
<1>2. BodyOK'
  BY DEF BodyOK, Stopping, Expired
<1>3. ListenersOK'
  BY DEF ListenersOK, ListenerOK
<1>4. MainOK'
  BY DEF MainOK
<1>5. ErrorsOK'
  BY DEF ErrorsOK
<1>6. ReturnsOK'
  BY DEF ReturnsOK
<1> QED BY <1>1, <1>2, <1>3, <1>4, <1>5, <1>6

\* Shutdown closes a listener that serve never claimed.
LEMMA ClaimProvidedInv ==
  ASSUME AppOK, ClaimProvided
  PROVE  AppOK'
<1> USE AppAssumption DEF AppOK, Typed, Listeners, Extras, ClaimProvided, serveVars, shutVars, loopVars
<1>1. Typed'
  OBVIOUS
<1>2. BodyOK'
  BY DEF BodyOK, Stopping, Expired
<1>3. ListenersOK'
  BY DEF ListenersOK, ListenerOK
<1>4. MainOK'
  BY DEF MainOK
<1>5. ErrorsOK'
  BY DEF ErrorsOK
<1>6. ReturnsOK'
  BY DEF ReturnsOK
<1> QED BY <1>1, <1>2, <1>3, <1>4, <1>5, <1>6

\* http.Server.Shutdown.
LEMMA StopServerInv ==
  ASSUME AppOK, StopServer
  PROVE  AppOK'
<1> USE AppAssumption DEF AppOK, Typed, Listeners, Extras, StopServer, serveVars, shutVars, loopVars
<1>1. Typed'
  <2>1. lis' \in [Listeners -> {"none", "open", "closed"}] /\ at \in Listeners
    BY DEF BodyOK
  <2> QED BY <2>1
<1>2. BodyOK'
  BY DEF BodyOK, Stopping, Expired
<1>3. ListenersOK'
  BY DEF ListenersOK, ListenerOK
<1>4. MainOK'
  BY DEF MainOK
<1>5. ErrorsOK'
  BY DEF ErrorsOK
<1>6. ReturnsOK'
  BY DEF ReturnsOK
<1> QED BY <1>1, <1>2, <1>3, <1>4, <1>5, <1>6

\* A server has let go of its requests.
LEMMA ServerStoppedInv ==
  ASSUME AppOK, ServerStopped
  PROVE  AppOK'
<1> USE AppAssumption DEF AppOK, Typed, Listeners, Extras, ServerStopped, serveVars, shutVars, loopVars
<1>1. Typed'
  OBVIOUS
<1>2. BodyOK'
  <2>1. /\ at \in Nat /\ at <= NExtras /\ NExtras \in Nat
        /\ at \in down /\ down \subseteq 0..at /\ 0..(at - 1) \subseteq down
        /\ \A l \in busy : l >= at
    BY DEF BodyOK
  <2>2. down = 0..at /\ \A l \in busy' : l \in Nat /\ l > at
    <3>1. \A l \in 0..at : l = at \/ l \in 0..(at - 1)
      BY <2>1
    <3>2. \A l \in busy' : l \in busy /\ l # at /\ l \in Nat
      OBVIOUS
    <3>3. down = 0..at
      BY <2>1, <3>1
    <3>4. \A l \in busy' : l > at
      BY <2>1, <3>2
    <3> QED BY <3>2, <3>3, <3>4
  <2>3. CASE at < NExtras
    <3>1. sd' = "server" /\ at' = at + 1 /\ down' = down
      BY <2>3
    <3>2. at' \in Listeners /\ down' \subseteq 0..at' /\ 0..(at' - 1) \subseteq down'
      BY <2>1, <2>2, <2>3, <3>1
    <3>3. \A l \in busy' : l >= at'
      BY <2>1, <2>2, <3>1
    <3> QED BY <3>1, <3>2, <3>3 DEF BodyOK, Stopping, Expired
  <2>4. CASE ~(at < NExtras)
    <3>1. sd' = "loopback" /\ down' = Listeners /\ busy' = {}
      BY <2>1, <2>2, <2>4
    <3> QED BY <3>1 DEF BodyOK, Stopping, Expired
  <2> QED BY <2>3, <2>4
<1>3. ListenersOK'
  BY DEF ListenersOK, ListenerOK
<1>4. MainOK'
  BY DEF MainOK
<1>5. ErrorsOK'
  BY DEF ErrorsOK
<1>6. ReturnsOK'
  BY DEF ReturnsOK
<1> QED BY <1>1, <1>2, <1>3, <1>4, <1>5, <1>6

\* The loopback closes for good.
LEMMA CloseLoopbackInv ==
  ASSUME AppOK, MarkLoopback \/ CloseLoopback
  PROVE  AppOK'
<1> USE AppAssumption DEF AppOK, Typed, Listeners, Extras, MarkLoopback, CloseLoopback, serveVars, shutVars, loopVars
<1>1. Typed'
  OBVIOUS
<1>2. BodyOK'
  BY DEF BodyOK, Stopping, Expired
<1>3. ListenersOK'
  BY DEF ListenersOK, ListenerOK
<1>4. MainOK'
  BY DEF MainOK
<1>5. ErrorsOK'
  BY DEF ErrorsOK
<1>6. ReturnsOK'
  BY DEF ReturnsOK
<1> QED BY <1>1, <1>2, <1>3, <1>4, <1>5, <1>6

\* The gRPC server stops.
LEMMA StopGRPCInv ==
  ASSUME AppOK, StopGRPC
  PROVE  AppOK'
<1> USE AppAssumption DEF AppOK, Typed, Listeners, Extras, StopGRPC, serveVars, shutVars, loopVars
<1>1. Typed'
  OBVIOUS
<1>2. BodyOK'
  BY ThreeHooks DEF BodyOK, Stopping, Expired
<1>3. ListenersOK'
  BY DEF ListenersOK, ListenerOK
<1>4. MainOK'
  BY DEF MainOK
<1>5. ErrorsOK'
  BY DEF ErrorsOK
<1>6. ReturnsOK'
  BY DEF ReturnsOK
<1> QED BY <1>1, <1>2, <1>3, <1>4, <1>5, <1>6

\* A hook ends.
LEMMA HookInv ==
  ASSUME AppOK, Hook
  PROVE  AppOK'
<1> USE AppAssumption DEF AppOK, Typed, Listeners, Extras, Hook, serveVars, shutVars, loopVars
<1>1. Typed'
  OBVIOUS
<1>2. BodyOK'
  <2>1. at = hooksRun + 1 /\ hooksRun < NHooks /\ NHooks \in Nat
    BY ThreeHooks DEF BodyOK
  <2>2. at' = hooksRun' + 1 /\ hooksRun' \in Nat
    BY <2>1
  <2>3. IF at = NHooks THEN sd' = "done" /\ hooksRun' = NHooks
        ELSE sd' = "hooks" /\ hooksRun' < NHooks
    BY <2>1
  <2> QED BY <2>1, <2>2, <2>3 DEF BodyOK, Stopping, Expired
<1>3. ListenersOK'
  BY DEF ListenersOK, ListenerOK
<1>4. MainOK'
  BY DEF MainOK
<1>5. ErrorsOK'
  BY DEF ErrorsOK
<1>6. ReturnsOK'
  BY DEF ReturnsOK
<1> QED BY <1>1, <1>2, <1>3, <1>4, <1>5, <1>6

\* Nothing happens to the app, except that its context may be cancelled.
LEMMA AppStays ==
  ASSUME AppOK, UNCHANGED vars \/ Cancel
  PROVE  AppOK'
<1>1. /\ UNCHANGED <<run, next, runErr, claimed, goer, errCh, broke, lis, down, busy, handler>>
      /\ UNCHANGED <<shutVars, tctx, loopVars, caller, got>>
  BY DEF Cancel, vars, serveVars
<1>2. BodyOK'
  BY <1>1, BodyStays DEF AppOK, shutVars, loopVars
<1> QED
  BY <1>1, <1>2 DEF AppOK, Typed, ListenersOK, ListenerOK, MainOK, ErrorsOK, ReturnsOK,
                    shutVars, loopVars

\* Every step of Run, of Shutdown, of the servers and of their clients keeps it.
LEMMA AppNextInv ==
  ASSUME AppOK, AppNext
  PROVE  AppOK'
<1>1. CASE RunStep
  BY <1>1, ListenInv, ServeProvidedInv, ServeBoundInv, BindFailsInv, ServeMainInv, SelectInv
     DEF RunStep
<1>2. CASE ShutdownStep
  BY <1>2, DrainInv, ClaimProvidedInv, StopServerInv, ServerStoppedInv, CloseLoopbackInv,
     StopGRPCInv, HookInv DEF ShutdownStep
<1>3. CASE Expire \/ HandlerEnds \/ Loopback \/ LoopServeEnds
  BY <1>3, QuietInv
<1>4. CASE Finished
  BY <1>4, AppStays DEF Finished
<1>5. ASSUME NEW l \in Listeners, ServeStep(l) \/ ServeBreaks(l) \/ Arrive(l) \/ Answer(l)
      PROVE  AppOK'
  BY <1>5, ServeBeginsInv, ServeEndsInv, TrafficInv DEF ServeStep
<1>6. ASSUME NEW c \in Callers, CallShutdown(c) \/ ShutdownReturns(c) PROVE AppOK'
  BY <1>6, CallsInv
<1> QED BY <1>1, <1>2, <1>3, <1>4, <1>5, <1>6 DEF AppNext

-----------------------------------------------------------------------------
\* run() of cmd/server.

\* What run() does next, by the number of the stage.
LEMMA StageNames ==
  /\ Len(Stages) = 8
  /\ Stages[1] = "logs" /\ Stages[2] = "tracing" /\ Stages[3] = "metrics" /\ Stages[4] = "build"
  /\ Stages[5] = "loopback" /\ Stages[6] = "wiring" /\ Stages[7] = "running" /\ Stages[8] = "exited"
BY DEF Stages

\* The app starts at rest, in cmd/server or built by another program.
LEMMA InitAppInv == Init => AppInv
<1> SUFFICES ASSUME Init PROVE AppInv OBVIOUS
<1> USE AppAssumption DEF Init, AppInit
<1>1. Typed
  <2>1. claimed \in [Provided -> BOOLEAN]
    BY Zenon
  <2> QED BY <2>1 DEF Typed, Listeners, Extras
<1>2. BodyOK /\ MainOK /\ ErrorsOK /\ ReturnsOK
  BY DEF BodyOK, Stopping, Expired, MainOK, ErrorsOK, ReturnsOK, Listeners, Extras
<1>3. ListenersOK
  BY DEF ListenersOK, ListenerOK, Listeners, Extras
<1>4. BootOK
  BY StageNames DEF BootOK
<1> QED BY <1>1, <1>2, <1>3, <1>4 DEF AppInv, AppOK

\* A step of run() outside Run.
LEMMA BootInv ==
  ASSUME AppInv, BootStep
  PROVE  AppInv'
<1> USE StageNames DEF AppInv, BootOK, Now
<1>1. CASE Advance \/ TakeOver
  <2>1. AppOK'
    BY <1>1, AppStays DEF Advance, TakeOver
  <2>2. UNCHANGED <<run, sd>> /\ stage \in 1..8
    BY <1>1 DEF Advance, TakeOver, vars, serveVars, shutVars
  <2>3. BootOK'
    BY <1>1, <2>2 DEF Advance, TakeOver
  <2> QED BY <2>1, <2>3
<1>2. CASE BootLoopback
  <2>1. AppOK'
    BY <1>2, QuietInv DEF BootLoopback
  <2>2. UNCHANGED <<run, sd>> /\ stage \in 1..8
    BY <1>2 DEF BootLoopback, Loopback, serveVars, shutVars
  <2>3. BootOK'
    BY <1>2, <2>2 DEF BootLoopback
  <2> QED BY <2>1, <2>3
<1>3. CASE BootFails \/ AppReturns
  <2>1. AppOK'
    BY <1>3, AppStays DEF BootFails, AppReturns
  <2>2. UNCHANGED <<run, sd>> /\ stage \in 1..8
    BY <1>3 DEF BootFails, AppReturns, vars, serveVars, shutVars
  <2>3. stage' = 8 /\ appStarted' = appStarted /\ deferred' = deferred
        /\ (early' <=> deferred /\ ~appStarted)
    BY <1>3 DEF BootFails, AppReturns, Exit
  <2>4. IF appStarted THEN run = "returned" ELSE run = "start" /\ sd = "idle"
    BY <1>3, <2>2 DEF BootFails, AppReturns
  <2>5. BootOK'
    BY <2>2, <2>3, <2>4
  <2> QED BY <2>1, <2>5
<1> QED BY <1>1, <1>2, <1>3 DEF BootStep

\* Run goes on once it has returned: nothing makes it start again.
LEMMA RunStays ==
  ASSUME AppNext, run = "returned"
  PROVE  run' = "returned"
BY DEF AppNext, RunStep, ShutdownStep, ServeStep, Listen, ServeMain, SelectCancelled, SelectErr,
       RunReturns, ServeProvided, ServeBound, BindFails, Drain, ClaimProvided, StopServer,
       ServerStopped, MarkLoopback, CloseLoopback, StopGRPC, Hook, Expire, HandlerEnds, Loopback,
       LoopServeEnds, Finished,
       ServeBegins, ServeStops, ServeBreaks, Arrive, Answer, CallShutdown, ShutdownReturns,
       serveVars, vars

\* The invariant is inductive.
LEMMA NextAppInv == AppInv /\ [Next]_allVars => AppInv'
<1> SUFFICES ASSUME AppInv, [Next]_allVars PROVE AppInv' OBVIOUS
<1>1. CASE BootStep
  BY <1>1, BootInv
<1>2. CASE Signal
  <2>1. AppOK'
    BY <1>2, AppStays DEF Signal, AppInv
  <2>2. UNCHANGED <<run, sd, bootVars>>
    BY <1>2 DEF Signal, Cancel, shutVars
  <2> QED BY <2>1, <2>2 DEF AppInv, BootOK, bootVars
<1>3. CASE Running
  <2>1. AppOK'
    BY <1>3, AppNextInv DEF Running, AppInv
  <2>2. appStarted
    BY <1>3, StageNames DEF Running, AppInv, BootOK, Now
  <2>3. run = "returned" => run' = "returned"
    BY <1>3, RunStays DEF Running
  <2> QED BY <1>3, <2>1, <2>2, <2>3 DEF Running, AppInv, BootOK, bootVars
<1>4. CASE UNCHANGED allVars
  <2>1. AppOK'
    BY <1>4, AppStays DEF allVars, AppInv
  <2> QED BY <1>4, <2>1 DEF allVars, AppInv, BootOK, bootVars, vars, serveVars, shutVars
<1> QED BY <1>1, <1>2, <1>3, <1>4 DEF Next, Exited

\* The inductive invariant holds in every reachable state.
THEOREM AppInvariance == Spec => []AppInv
BY InitAppInv, NextAppInv, PTL DEF Spec

\* Neither Run nor any call of Shutdown returns before every hook has run; all
\* callers get the first hook's failure; and an accept error that Run returns is
\* one of an accept loop, never of a listener that Shutdown took (kernel/app.go).
THEOREM ReturnsAfterDrain == Spec => []NoReturnMidDrain
<1>1. AppInv => NoReturnMidDrain
  BY DEF AppInv, AppOK, BodyOK, ReturnsOK, ErrorsOK, NoReturnMidDrain
<1> QED BY <1>1, AppInvariance, PTL

\* No listener or loopback connection outlives the app, on whichever path Run
\* ended (kernel/app.go serve and Shutdown).
THEOREM NothingLeftOpen == Spec => []ListenersReleased
<1>1. AppInv => ListenersReleased
  <2> SUFFICES ASSUME AppInv PROVE ListenersReleased OBVIOUS
  <2>1. ASSUME run = "returned", \A l \in Listeners : goer[l] \in {"none", "over"},
               NEW l \in Listeners
        PROVE  lis[l] # "open"
    <3>1. ListenerOK(l) /\ down = Listeners /\ (l = 0 \/ l \in Extras)
      BY <2>1, AppAssumption
         DEF AppInv, AppOK, ListenersOK, ReturnsOK, BodyOK, Stopping, Listeners, Extras
    <3> QED BY <2>1, <3>1 DEF AppInv, AppOK, MainOK, ListenerOK
  <2>2. /\ sd \in {"grpc", "hooks", "done"} => conn # "open"
        /\ sd \in {"hooks", "done"} => loopLis = "closed"
    BY DEF AppInv, AppOK, BodyOK
  <2> QED BY <2>1, <2>2 DEF ListenersReleased
<1> QED BY <1>1, AppInvariance, PTL

\* Each telemetry provider is flushed exactly once, by the hooks or by the
\* deferred function, and not before the servers let go of their requests
\* (cmd/server/main.go run).
THEOREM TelemetryFlushedOnce == Spec => []FlushedOnce
<1>1. AppInv => FlushedOnce
  <2> SUFFICES ASSUME AppInv PROVE FlushedOnce OBVIOUS
  <2> USE ThreeHooks, StageNames DEF AppInv, AppOK, BootOK, BodyOK, ReturnsOK, Typed
  <2>1. ASSUME Now = "exited", deferred, NEW i \in 1..Len(Providers)
        PROVE  Flushes(i) = 1
    <3>1. stage = 8 /\ i \in 1..3
      BY <2>1 DEF Now
    <3>2. CASE appStarted
      <4>1. hooksRun = 3 /\ ~early
        BY <3>1, <3>2
      <4> QED BY <3>1, <4>1 DEF Flushes
    <3>3. CASE ~appStarted
      <4>1. hooksRun = 0 /\ early
        BY <2>1, <3>1, <3>3
      <4> QED BY <3>1, <4>1 DEF Flushes
    <3> QED BY <3>2, <3>3
  <2>2. ASSUME appStarted, NEW i \in 1..Len(Providers), Flushes(i) > 0
        PROVE  busy = {} /\ (~handler \/ Expired)
    <3>1. ~early /\ i \in 1..3
      BY <2>2
    <3>2. hooksRun >= 1
      BY <2>2, <3>1 DEF Flushes
    <3>3. sd \in {"hooks", "done"}
      BY <3>2
    <3> QED BY <3>3 DEF Stopping
  <2> QED BY <2>1, <2>2 DEF FlushedOnce
<1> QED BY <1>1, AppInvariance, PTL

=============================================================================
