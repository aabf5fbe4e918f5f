---------------------------- MODULE CircuitBreaker ----------------------------
(***************************************************************************)
(* The circuit breaker of interceptor/circuitbreaker.go for one method.    *)
(*                                                                         *)
(* Each call runs the interceptor: allow() under b.mu, then the handler    *)
(* (any number of steps of other calls), then record() under b.mu in a     *)
(* defer.  The two critical sections are the atomic steps.  A refused      *)
(* call returns at once and changes nothing, so it is no step here.        *)
(*                                                                         *)
(* time.Since(openedAt) and time.Since(halfOpenedAt) are kept as ages that *)
(* stop at OpenFor: the code only compares them with openFor.              *)
(***************************************************************************)
EXTENDS Integers, FiniteSets, Callers

CONSTANTS
  MaxFailures,  \* CBConfig.MaxFailures, > 0 (the breaker is enabled)
  HalfOpenMax,  \* CBConfig.HalfOpenMax after NewCircuitBreaker's default
  OpenFor,      \* CBConfig.OpenInterval after the default, in ticks
  MaxGen        \* bound of the model on gen, a uint64 in the code

ASSUME BreakerAssumption ==
  /\ IsFiniteSet(Calls)
  /\ MaxFailures \in Nat \ {0}
  /\ HalfOpenMax \in Nat \ {0}
  /\ OpenFor \in Nat \ {0}
  /\ MaxGen \in Nat

VARIABLES
  state,        \* breaker.state
  failures,     \* breaker.failures
  openAge,      \* time since breaker.openedAt, up to OpenFor
  halfOpenAge,  \* time since breaker.halfOpenedAt, up to OpenFor
  probes,       \* breaker.probes
  gen,          \* breaker.gen
  running,      \* calls between an admitting allow() and their record()
  adm           \* the admission each running call holds

breakerVars == <<state, failures, openAge, halfOpenAge, probes, gen>>
vars == <<state, failures, openAge, halfOpenAge, probes, gen, running, adm>>

States == {"closed", "open", "half_open"}
Outcomes == {"failure", "success", "neutral"}
Admission == [probe : BOOLEAN, gen : 0 .. MaxGen]
NoAdmission == [probe |-> FALSE, gen |-> 0]

\* A breaker is created by get() with the zero value: closed, and its two
\* time stamps in the distant past.
Init ==
  /\ state = "closed"
  /\ failures = 0
  /\ openAge = OpenFor
  /\ halfOpenAge = OpenFor
  /\ probes = 0
  /\ gen = 0
  /\ running = {}
  /\ adm = [c \in Calls |-> NoAdmission]

BumpGen ==
  /\ gen < MaxGen
  /\ gen' = gen + 1

(***************************************************************************)
(* allow()                                                                 *)
(***************************************************************************)
Enter(c, probe, g) ==
  /\ c \notin running
  /\ running' = running \cup {c}
  /\ adm' = [adm EXCEPT ![c] = [probe |-> probe, gen |-> g]]

AllowClosed(c) ==
  /\ state = "closed"
  /\ Enter(c, FALSE, gen)
  /\ UNCHANGED breakerVars

AllowSlot(c) ==
  /\ state = "half_open"
  /\ probes < HalfOpenMax
  /\ probes' = probes + 1
  /\ Enter(c, TRUE, gen)
  /\ UNCHANGED <<state, failures, openAge, halfOpenAge, gen>>

\* Faulty variant: half-open has no elapsed-time escape.
EpisodeOver_OpenOnly == state = "open" /\ openAge >= OpenFor

\* The time-based escapes: cbOpen after openFor, and a cbHalfOpen episode
\* whose slots are all taken and that has lasted openFor.
EpisodeOver ==
  \/ state = "open" /\ openAge >= OpenFor
  \/ state = "half_open" /\ probes >= HalfOpenMax /\ halfOpenAge >= OpenFor

AllowFresh(c) ==
  /\ EpisodeOver
  /\ state' = "half_open"
  /\ BumpGen
  /\ probes' = 1
  /\ halfOpenAge' = 0
  /\ Enter(c, TRUE, gen + 1)
  /\ UNCHANGED <<failures, openAge>>

\* A refused call: the state is not closed, its time is not up, no slot free.
Refusing ==
  /\ state # "closed"
  /\ ~ EpisodeOver
  /\ state = "half_open" => probes >= HalfOpenMax

Allow(c) == AllowClosed(c) \/ AllowSlot(c) \/ AllowFresh(c)

(***************************************************************************)
(* record()                                                                *)
(***************************************************************************)
Leave(c) ==
  /\ c \in running
  /\ running' = running \ {c}
  /\ adm' = [adm EXCEPT ![c] = NoAdmission]

\* Faulty variant: the generation of the admission is not compared.
Counts_AnyEpisode(c) ==
  \/ state = "half_open" /\ adm[c].probe
  \/ state = "closed" /\ ~ adm[c].probe

\* Whether the outcome of the call is looked at by the current state.
Counts(c) ==
  /\ adm[c].gen = gen
  /\ \/ state = "half_open" /\ adm[c].probe
     \/ state = "closed" /\ ~ adm[c].probe

ReleaseSlot == probes' = IF probes > 0 THEN probes - 1 ELSE probes

\* Faulty variant: closing forgets to clear the failure count.
RecordHalfOpen_KeepFailures(out) ==
  /\ state = "half_open"
  /\ ReleaseSlot
  /\ \/ out = "neutral" /\ UNCHANGED <<state, openAge, gen>>
     \/ out = "success" /\ state' = "closed" /\ BumpGen /\ UNCHANGED openAge
     \/ out = "failure" /\ state' = "open" /\ openAge' = 0 /\ BumpGen
  /\ UNCHANGED <<failures, halfOpenAge>>

RecordHalfOpen(out) ==
  /\ state = "half_open"
  /\ ReleaseSlot
  /\ \/ out = "neutral" /\ UNCHANGED <<state, failures, openAge, gen>>
     \/ out = "success" /\ state' = "closed" /\ failures' = 0
                        /\ BumpGen /\ UNCHANGED openAge
     \/ out = "failure" /\ state' = "open" /\ openAge' = 0
                        /\ BumpGen /\ UNCHANGED failures
  /\ UNCHANGED halfOpenAge

RecordClosed(out) ==
  /\ state = "closed"
  /\ \/ out = "neutral" /\ UNCHANGED <<state, failures, openAge, gen>>
     \/ out = "success" /\ failures' = 0 /\ UNCHANGED <<state, openAge, gen>>
     \/ /\ out = "failure"
        /\ failures' = failures + 1
        /\ IF failures + 1 >= MaxFailures
             THEN state' = "open" /\ openAge' = 0 /\ BumpGen
             ELSE UNCHANGED <<state, openAge, gen>>
  /\ UNCHANGED <<halfOpenAge, probes>>

Record(c, out) ==
  /\ Leave(c)
  /\ \/ Counts(c) /\ (RecordHalfOpen(out) \/ RecordClosed(out))
     \/ ~ Counts(c) /\ UNCHANGED breakerVars

(***************************************************************************)
(* The handler returns (its gRPC code and whether the request context is   *)
(* over decide the outcome) or panics (the outcome keeps its zero value).  *)
(* "NotFound" stands for every code classify does not name.                *)
(***************************************************************************)
ServerFaults == {"Unavailable", "Internal", "DeadlineExceeded"}
ClientFaults == {"Canceled", "InvalidArgument", "Unauthenticated", "PermissionDenied"}
Codes == {"OK", "NotFound"} \cup ServerFaults \cup ClientFaults

\* Faulty variant: two verdicts, whatever is not a server fault is a success.
Classify_TwoValued(ctxDone, code) ==
  IF ~ ctxDone /\ code \in ServerFaults THEN "failure" ELSE "success"

Classify(ctxDone, code) ==
  CASE ctxDone -> "neutral"
    [] ~ ctxDone /\ code \in ServerFaults -> "failure"
    [] ~ ctxDone /\ code \in ClientFaults -> "neutral"
    [] OTHER -> "success"

Return(c, ctxDone, code) == Record(c, Classify(ctxDone, code))
Panic(c) == Record(c, "failure")

Older(a) == IF a < OpenFor THEN a + 1 ELSE a

Tick ==
  /\ openAge' = Older(openAge)
  /\ halfOpenAge' = Older(halfOpenAge)
  /\ UNCHANGED <<state, failures, probes, gen, running, adm>>

Next ==
  \/ \E c \in Calls : Allow(c)
  \/ \E c \in Calls, ctxDone \in BOOLEAN, code \in Codes : Return(c, ctxDone, code)
  \/ \E c \in Calls : Panic(c)
  \/ Tick

Spec == Init /\ [][Next]_vars

-----------------------------------------------------------------------------
TypeOK ==
  /\ state \in States
  /\ failures \in 0 .. MaxFailures
  /\ openAge \in 0 .. OpenFor
  /\ halfOpenAge \in 0 .. OpenFor
  /\ probes \in 0 .. HalfOpenMax
  /\ gen \in 0 .. MaxGen
  /\ running \in SUBSET Calls
  /\ adm \in [Calls -> Admission]

\* Calls in flight admitted into the current episode.
Members == {c \in running : adm[c].gen = gen}

\* A generation names one episode for good: no running call holds one from
\* the future, and the calls of the current one are of the kind the state
\* expects: plain calls while closed, probes while half-open, none while
\* open.  So the probe flag and the generation that record() compares never
\* disagree, and no outcome that belongs to this episode is thrown away.
EpisodePurity ==
  \A c \in running :
    /\ adm[c].gen <= gen
    /\ adm[c].gen = gen => /\ state # "open"
                           /\ adm[c].probe <=> state = "half_open"

\* Probe slots are neither leaked nor released twice: while half-open the
\* counter is exactly the number of probes of this episode still in flight,
\* whatever stale calls of earlier episodes finish in between.
SlotsExact == state = "half_open" => probes = Cardinality(Members)

\* A closed breaker is always short of the threshold: the count is cleared
\* when a probe closes it again, so old failures never trip a new episode.
BelowThreshold == state = "closed" => failures < MaxFailures

Policy == INSTANCE BreakerPolicy WITH
  phase <- state,
  streak <- IF state = "closed" THEN failures ELSE 0,
  members <- Members,
  age <- CASE state = "open" -> openAge
           [] state = "half_open" -> halfOpenAge
           [] OTHER -> 0

\* The generation numbers implement the policy: every step of allow() and
\* record() is a step of BreakerPolicy or leaves its state alone (a refused
\* call, the outcome of a stale call).
ImplementsPolicy == Policy!PolicySpec

\* A method that turns callers away admits one again after a while, even when
\* no handler ever returns: allow() has an elapsed-time escape in cbHalfOpen
\* as well as in cbOpen.
NeverWedged == Refusing ~> ~ Refusing
=============================================================================
