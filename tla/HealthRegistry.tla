--------------------------- MODULE HealthRegistry ---------------------------
(***************************************************************************)
(* The registry of health/health.go and the status it gives to probes.     *)
(* Register and Replace write the map and then bump gen, both under mu;    *)
(* CachedSnapshot holds evalMu across a whole evaluation but takes mu only *)
(* to copy the map; gen is read without mu; statusFor looks at the drain   *)
(* flag before all of that.                                                *)
(***************************************************************************)
EXTENDS Integers, FiniteSets

CONSTANTS
  Names,          \* names of checks
  Probers,        \* goroutines in statusFor
  MaxGen,         \* bound on registrations
  WatchInterval,  \* watchInterval; ages stop growing there
  Nothing

States == {"healthy", "degraded", "unhealthy"}

VARIABLES
  checks,   \* the map: for each name the number of its check, 0 when absent
  gen,      \* Registry.gen
  writing,  \* mu is held by a Register/Replace that has still to bump gen
  evalMu,   \* the prober that holds evalMu, or Nothing
  snap,     \* evalSnap: for each name the check evaluated and its state; or Nothing
  evalGen, evalAge,
  draining,
  at,       \* "idle", "passed" (not draining), "locked", "copied", "answer"
  sawGen,   \* gen as CachedSnapshot loaded it, Nothing before
  copy,     \* the copied map
  out,      \* results of the checks run so far, or the cached snapshot
  began,    \* history: gen when the probe arrived
  service,  \* the request's service field, Nothing when empty
  status    \* the status reported

cacheVars == <<evalMu, snap, evalGen, evalAge>>
probeVars == <<at, sawGen, copy, out, began, service, status>>
registryVars == <<checks, gen, writing, cacheVars, draining, probeVars>>

\* What a check that was run leaves in a snapshot.
Results == [check : 0..MaxGen, state : States]

ASSUME RegistryAssumption ==
  /\ MaxGen \in Nat /\ Nothing \notin Results \cup 0..MaxGen \cup [Names -> Results \cup {Nothing}]

Absent == [n \in Names |-> 0]
NoResult == [n \in Names |-> Nothing]

RegistryInit ==
  /\ checks = Absent /\ gen = 0 /\ writing = FALSE
  /\ evalMu = Nothing /\ snap = Nothing /\ evalGen = 0 /\ evalAge = 0
  /\ draining = FALSE
  /\ at = [p \in Probers |-> "idle"]
  /\ sawGen = [p \in Probers |-> Nothing]
  /\ copy = [p \in Probers |-> Absent]
  /\ out = [p \in Probers |-> NoResult]
  /\ began = [p \in Probers |-> 0]
  /\ service = [p \in Probers |-> Nothing]
  /\ status = [p \in Probers |-> Nothing]

\* Register of a free name (a duplicate panics) or Replace: the map first ...
Install(n) ==
  /\ ~writing /\ gen < MaxGen
  /\ checks' = [checks EXCEPT ![n] = gen + 1]
  /\ writing' = TRUE
  /\ UNCHANGED <<gen, cacheVars, draining, probeVars>>

\* ... then gen, before mu is released.
BumpGen ==
  /\ writing
  /\ gen' = gen + 1
  /\ writing' = FALSE
  /\ UNCHANGED <<checks, cacheVars, draining, probeVars>>

StartDrain ==
  /\ ~draining
  /\ draining' = TRUE
  /\ UNCHANGED <<checks, gen, writing, cacheVars, probeVars>>

Reply(p, st) ==
  /\ status' = [status EXCEPT ![p] = st]
  /\ at' = [at EXCEPT ![p] = "answer"]

\* statusFor: the drain flag first.
Ask(p, svc) ==
  /\ at[p] = "idle"
  /\ service' = [service EXCEPT ![p] = svc]
  /\ began' = [began EXCEPT ![p] = gen]
  /\ IF draining
     THEN Reply(p, "NOT_SERVING")
     ELSE at' = [at EXCEPT ![p] = "passed"] /\ UNCHANGED status
  /\ UNCHANGED <<checks, gen, writing, cacheVars, draining, sawGen, copy, out>>

Serving(st) == IF st = "unhealthy" THEN "NOT_SERVING" ELSE "SERVING"

\* worst: no check at all is healthy, and one unhealthy check is enough.
Worst(result) ==
  LET seen == {result[n].state : n \in {m \in Names : result[m] # Nothing}}
  IN  CASE "unhealthy" \in seen -> "unhealthy"
        [] "unhealthy" \notin seen /\ "degraded" \in seen -> "degraded"
        [] OTHER -> "healthy"

StatusOf(result, svc) ==
  IF svc = Nothing THEN Serving(Worst(result))
  ELSE IF result[svc] = Nothing THEN "SERVICE_UNKNOWN"
  ELSE Serving(result[svc].state)

Fresh(g) == snap # Nothing /\ evalGen = g /\ evalAge < WatchInterval

\* Faulty variant: the return with the cached snapshot does not unlock evalMu.
Lock_HitKeepsMutex(p) ==
  /\ at[p] = "passed" /\ evalMu = Nothing
  /\ sawGen' = [sawGen EXCEPT ![p] = gen]
  /\ IF Fresh(gen)
     THEN /\ Reply(p, StatusOf(snap, service[p]))
          /\ out' = [out EXCEPT ![p] = snap]
          /\ evalMu' = p
     ELSE /\ evalMu' = p
          /\ at' = [at EXCEPT ![p] = "locked"]
          /\ UNCHANGED <<status, out>>
  /\ UNCHANGED <<checks, gen, writing, snap, evalGen, evalAge, draining, copy, began, service>>

\* CachedSnapshot: evalMu, then gen, then the cached snapshot if it may serve.
Lock(p) ==
  /\ at[p] = "passed" /\ evalMu = Nothing
  /\ sawGen' = [sawGen EXCEPT ![p] = gen]
  /\ IF Fresh(gen)
     THEN /\ Reply(p, StatusOf(snap, service[p]))
          /\ out' = [out EXCEPT ![p] = snap]
          /\ UNCHANGED evalMu
     ELSE /\ evalMu' = p
          /\ at' = [at EXCEPT ![p] = "locked"]
          /\ UNCHANGED <<status, out>>
  /\ UNCHANGED <<checks, gen, writing, snap, evalGen, evalAge, draining, copy, began, service>>

\* Snapshot copies the map under mu ...
Copy(p) ==
  /\ at[p] = "locked" /\ ~writing
  /\ copy' = [copy EXCEPT ![p] = checks]
  /\ at' = [at EXCEPT ![p] = "copied"]
  /\ UNCHANGED <<checks, gen, writing, cacheVars, draining, sawGen, out, began, service, status>>

\* ... and runs the checks, each in a goroutine, in any order; a check finds its
\* dependency in any state, and one that panics counts as unhealthy.
EvalCheck(p, n) ==
  /\ at[p] = "copied" /\ copy[p][n] # 0 /\ out[p][n] = Nothing
  /\ \E st \in States :
       out' = [out EXCEPT ![p][n] = [check |-> copy[p][n], state |-> st]]
  /\ UNCHANGED <<checks, gen, writing, cacheVars, draining, at, sawGen, copy, began, service, status>>

\* Faulty variant: gen is read when the evaluation is over.
Store_LateGen(p) ==
  /\ at[p] = "copied"
  /\ \A n \in Names : copy[p][n] # 0 => out[p][n] # Nothing
  /\ snap' = out[p] /\ evalGen' = gen /\ evalAge' = 0
  /\ evalMu' = Nothing
  /\ Reply(p, StatusOf(out[p], service[p]))
  /\ copy' = [copy EXCEPT ![p] = Absent]
  /\ UNCHANGED <<checks, gen, writing, draining, sawGen, out, began, service>>

\* wg.Wait; the snapshot is stored with the gen read before it.
Store(p) ==
  /\ at[p] = "copied"
  /\ \A n \in Names : copy[p][n] # 0 => out[p][n] # Nothing
  /\ snap' = out[p] /\ evalGen' = sawGen[p] /\ evalAge' = 0
  /\ evalMu' = Nothing
  /\ Reply(p, StatusOf(out[p], service[p]))
  /\ copy' = [copy EXCEPT ![p] = Absent]
  /\ UNCHANGED <<checks, gen, writing, draining, sawGen, out, began, service>>

Return(p) ==
  /\ at[p] = "answer"
  /\ at' = [at EXCEPT ![p] = "idle"]
  /\ status' = [status EXCEPT ![p] = Nothing]
  /\ service' = [service EXCEPT ![p] = Nothing]
  /\ sawGen' = [sawGen EXCEPT ![p] = Nothing]
  /\ out' = [out EXCEPT ![p] = NoResult]
  /\ began' = [began EXCEPT ![p] = 0]
  /\ UNCHANGED <<checks, gen, writing, cacheVars, draining, copy>>

Tick ==
  /\ snap # Nothing /\ evalAge < WatchInterval
  /\ evalAge' = evalAge + 1
  /\ UNCHANGED <<checks, gen, writing, evalMu, snap, evalGen, draining, probeVars>>

Progress(p) == Lock(p) \/ Copy(p) \/ (\E n \in Names : EvalCheck(p, n)) \/ Store(p) \/ Return(p)

RegistryNext ==
  \/ \E n \in Names : Install(n)
  \/ BumpGen \/ StartDrain \/ Tick
  \/ \E p \in Probers : (\E svc \in Names \cup {Nothing} : Ask(p, svc)) \/ Progress(p)

RegistrySpec == RegistryInit /\ [][RegistryNext]_registryVars

\* Checks end by checkTimeout, evalMu is a fair mutex, Register finishes.
RegistryFairSpec ==
  /\ RegistrySpec
  /\ WF_registryVars(BumpGen)
  /\ \A p \in Probers : WF_registryVars(Progress(p)) /\ SF_registryVars(Lock(p))

-----------------------------------------------------------------------------
RegistryTypeOK ==
  /\ checks \in [Names -> 0..MaxGen] /\ gen \in 0..MaxGen /\ writing \in BOOLEAN
  /\ evalMu \in Probers \cup {Nothing}
  /\ evalGen \in 0..MaxGen /\ evalAge \in 0..WatchInterval
  /\ at \in [Probers -> {"idle", "passed", "locked", "copied", "answer"}]
  /\ status \in [Probers -> {"SERVING", "NOT_SERVING", "SERVICE_UNKNOWN", Nothing}]

\* A status is computed from every check that was registered before its probe
\* arrived and is still the one registered under its name, whatever evaluations
\* and registrations ran meanwhile.
ProbeSeesChecks ==
  \A p \in Probers, n \in Names :
    at[p] = "answer" /\ sawGen[p] # Nothing /\ checks[n] \in 1..began[p] =>
      out[p][n] # Nothing /\ out[p][n].check = checks[n]

\* Every probe is answered.
ProbeAnswered == \A p \in Probers : at[p] # "idle" ~> at[p] = "idle"
=============================================================================
