----------------------------- MODULE Governance -----------------------------
(***************************************************************************)
(* The interceptor chain of interceptor/chain.go around the calls of one   *)
(* method, with the load shedder and the circuit breaker whose state the   *)
(* calls share:                                                            *)
(*                                                                         *)
(*   recovery > requestid > logger > loadshedding > ratelimit              *)
(*     > circuitbreaker > auth > validation > handler                      *)
(*                                                                         *)
(* A stage that touches no shared state is no step of its own: it happens  *)
(* with the neighbouring one that does.  The rate limiter's verdict is any *)
(* (RateLimiter models how it is reached).  A call the CPU signal sheds    *)
(* leaves before the counter and changes nothing here.                     *)
(***************************************************************************)
EXTENDS CircuitBreaker, LoadShedder, AppErrors

CONSTANT HandlerErrors  \* the errors a handler may return

ASSUME HandlerAssumption == HandlerErrors \subseteq Errors

VARIABLE err  \* what each call is returning with, Pending on the way in

chainVars == <<vars, shedVars, err>>

Pending == [kind |-> "pending"]
Nil == [kind |-> "nil"]
Panicked == [kind |-> "panic"]

ChainInit == Init /\ ShedInit /\ err = [c \in Calls |-> Pending]

Returns(c, e) == err' = [err EXCEPT ![c] = e]

\* Recovery and requestid have run on the way in; loadshedding counts the call.
Arrive(c) ==
  /\ Add(c)
  /\ UNCHANGED <<vars, err>>

\* admit() looks at its sum.  A shed call takes its one off before admit()
\* returns; the error is settled here.
Admit(c) ==
  /\ Check(c)
  /\ IF place'[c] = "shed"
       THEN Returns(c, AppError("resource_exhausted", "own"))
       ELSE UNCHANGED err
  /\ UNCHANGED vars

\* Past the shedder and not yet at the breaker.
AtBreaker(c) == place[c] = "admitted" /\ c \notin running /\ err[c] = Pending

RateLimited(c) ==
  /\ AtBreaker(c)
  /\ Returns(c, AppError("resource_exhausted", "own"))
  /\ UNCHANGED <<vars, shedVars>>

BreakerRefuses(c) ==
  /\ AtBreaker(c)
  /\ Refusing
  /\ Returns(c, AppError("unavailable", "own"))
  /\ UNCHANGED <<vars, shedVars>>

BreakerAdmits(c) ==
  /\ AtBreaker(c)
  /\ Allow(c)
  /\ UNCHANGED <<shedVars, err>>

CodeOf(e) == IF e = Nil THEN "OK" ELSE ToGRPCStatus(e).code

\* The call comes back through the breaker's frame: classify, then the
\* deferred record().
Back(c, ctxDone, e) ==
  /\ Return(c, ctxDone, CodeOf(e))
  /\ Returns(c, e)
  /\ UNCHANGED shedVars

\* Every failure of Authenticate: nothing of its cause is in the text.
AuthDenied == AppError("unauthenticated", "own")

Unauthenticated(c, ctxDone) == Back(c, ctxDone, AuthDenied)

\* validation: the request breaks a rule, or a rule itself cannot be run.
Invalid(c, ctxDone) ==
  \/ Back(c, ctxDone, AppError("invalid_argument", "own"))
  \/ Back(c, ctxDone, AppError("internal", "own"))

Handled(c, ctxDone) == \E e \in HandlerErrors \cup {Nil} : Back(c, ctxDone, e)

\* A panic in auth, validation or the handler unwinds through the breaker's
\* and the shedder's defers.
Unwinds(c) ==
  /\ Panic(c)
  /\ Returns(c, Panicked)
  /\ UNCHANGED shedVars

\* loadshedding's release, then logger (not after a panic) and recovery.
Respond(c) ==
  /\ err[c] # Pending
  /\ TakeOff(c)
  /\ Returns(c, Pending)
  /\ UNCHANGED vars

Passes == Tick /\ UNCHANGED <<shedVars, err>>

ChainNext ==
  \/ \E c \in Calls :
       \/ Arrive(c) \/ Admit(c)
       \/ RateLimited(c) \/ BreakerRefuses(c) \/ BreakerAdmits(c)
       \/ \E ctxDone \in BOOLEAN :
            Unauthenticated(c, ctxDone) \/ Invalid(c, ctxDone) \/ Handled(c, ctxDone)
       \/ Unwinds(c) \/ Respond(c)
  \/ Passes

\* Only the clock is fair: handlers need not return and nobody need call.
ChainSpec == ChainInit /\ [][ChainNext]_chainVars /\ WF_chainVars(Passes)

-----------------------------------------------------------------------------
\* Recovery: what leaves the chain for an error or a panic.
Recovered(e) == ToGRPCStatus(IF e = Panicked THEN AppError("internal", "own") ELSE e)

Failing == {c \in Calls : err[c] \notin {Pending, Nil}}

\* One table for three transports: the gateway and the MCP bridge, which see
\* only the status Recovery put on the loopback, show the category and the
\* message the error had inside the chain, also for an application's category
\* that shares its gRPC code with another.
CategorySurvives ==
  \A c \in Failing : Rendered(Recovered(err[c])) =
     IF err[c] = Panicked THEN [cat |-> "internal", msg |-> "safe"] ELSE Resolve(err[c])

\* Auth and validation run inside the breaker, so it sees their rejections:
\* they neither open it, nor clear the failures counted during an outage, nor
\* close a half-open episode, in whatever shape the error comes.
RejectionsNeutral ==
  [][\A c \in running \ running' :
       (err'[c] # Panicked /\ CodeOf(err'[c]) \in {"Unauthenticated", "InvalidArgument"})
         => UNCHANGED <<state, failures, gen>>]_chainVars
=============================================================================
