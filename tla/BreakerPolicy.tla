---------------------------- MODULE BreakerPolicy ----------------------------
(***************************************************************************)
(* What the circuit breaker of interceptor/circuitbreaker.go promises for  *)
(* one method, without saying how an outcome is tied to the episode it     *)
(* belongs to.  The life of a breaker is a sequence of episodes (closed,   *)
(* open, half-open); "members" is the set of calls in flight that were     *)
(* admitted into the current one.  Only members are heard.  CircuitBreaker *)
(* implements this with a generation number carried by each admission.     *)
(***************************************************************************)
EXTENDS Integers, FiniteSets

CONSTANTS
  Calls,        \* callers; each may have one call of the method in flight
  MaxFailures,  \* CBConfig.MaxFailures: consecutive failures that trip it
  HalfOpenMax,  \* CBConfig.HalfOpenMax: probes of one half-open episode
  OpenFor       \* CBConfig.OpenInterval, in ticks of the model's clock

VARIABLES
  phase,        \* "closed", "open" or "half_open"
  streak,       \* consecutive failures of the current closed episode
  members,      \* calls in flight that belong to the current episode
  age           \* ticks since the episode began, up to OpenFor

policyVars == <<phase, streak, members, age>>

Outcomes == {"failure", "success", "neutral"}

PolicyInit ==
  /\ phase = "closed"
  /\ streak = 0
  /\ members = {}
  /\ age = 0

(***************************************************************************)
(* Admissions.                                                             *)
(***************************************************************************)
AdmitClosed(c) ==
  /\ phase = "closed"
  /\ members' = members \cup {c}
  /\ UNCHANGED <<phase, streak, age>>

AdmitProbe(c) ==
  /\ phase = "half_open"
  /\ Cardinality(members) < HalfOpenMax
  /\ members' = members \cup {c}
  /\ UNCHANGED <<phase, streak, age>>

\* An open or half-open episode that has lasted OpenFor gives way to a fresh
\* half-open one; a half-open episode is kept while it has a free slot.
Expired ==
  /\ age >= OpenFor
  /\ \/ phase = "open"
     \/ phase = "half_open" /\ Cardinality(members) >= HalfOpenMax

StartProbing(c) ==
  /\ Expired
  /\ phase' = "half_open"
  /\ members' = {c}
  /\ age' = 0
  /\ UNCHANGED streak

Admit(c) ==
  /\ c \notin members
  /\ AdmitClosed(c) \/ AdmitProbe(c) \/ StartProbing(c)

(***************************************************************************)
(* Outcomes of members.                                                    *)
(***************************************************************************)
Close ==
  /\ phase' = "closed"
  /\ streak' = 0
  /\ members' = {}
  /\ age' = 0

Trip ==
  /\ phase' = "open"
  /\ streak' = 0
  /\ members' = {}
  /\ age' = 0

ReportNeutral(c) ==
  /\ members' = members \ {c}
  /\ UNCHANGED <<phase, streak, age>>

ReportSuccess(c) ==
  \/ phase = "half_open" /\ Close
  \/ /\ phase = "closed"
     /\ streak' = 0
     /\ members' = members \ {c}
     /\ UNCHANGED <<phase, age>>

ReportFailure(c) ==
  \/ phase = "half_open" /\ Trip
  \/ phase = "closed" /\ streak + 1 >= MaxFailures /\ Trip
  \/ /\ phase = "closed"
     /\ streak + 1 < MaxFailures
     /\ streak' = streak + 1
     /\ members' = members \ {c}
     /\ UNCHANGED <<phase, age>>

Report(c, out) ==
  /\ c \in members
  /\ \/ out = "neutral" /\ ReportNeutral(c)
     \/ out = "success" /\ ReportSuccess(c)
     \/ out = "failure" /\ ReportFailure(c)

Elapse ==
  /\ phase # "closed"
  /\ age < OpenFor
  /\ age' = age + 1
  /\ UNCHANGED <<phase, streak, members>>

PolicyNext ==
  \/ \E c \in Calls : Admit(c)
  \/ \E c \in Calls, out \in Outcomes : Report(c, out)
  \/ Elapse

PolicySpec == PolicyInit /\ [][PolicyNext]_policyVars
=============================================================================
