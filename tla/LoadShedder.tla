----------------------------- MODULE LoadShedder -----------------------------
(***************************************************************************)
(* The concurrency signal of interceptor/loadshedding.go.  There is no     *)
(* lock: admit() adds one to an atomic counter, looks at the sum it got    *)
(* back, and takes the one off again when the sum is too high.  The three  *)
(* are separate steps, so other calls see the counter in between.          *)
(***************************************************************************)
EXTENDS Integers, FiniteSets, Callers

CONSTANT
  MaxInflight   \* LoadSheddingConfig.MaxInflight, > 0 (the signal is enabled)

ASSUME ShedderAssumption ==
  /\ IsFiniteSet(Calls)
  /\ MaxInflight \in Nat \ {0}

VARIABLES
  inflight,  \* LoadShedder.inflight
  place,     \* where each call is
  sum        \* the sum a call got from inflight.Add(1)

shedVars == <<inflight, place, sum>>

(***************************************************************************)
(* "out" not in the interceptor (or skipped, or shed by the CPU signal:    *)
(* those never touch the counter); "added" has added one; "shed" found the *)
(* sum too high and has still to take it off; "admitted" runs the handler. *)
(***************************************************************************)
Places == {"out", "added", "shed", "admitted"}

ShedInit ==
  /\ inflight = 0
  /\ place = [c \in Calls |-> "out"]
  /\ sum = [c \in Calls |-> 0]

Add(c) ==
  /\ place[c] = "out"
  /\ inflight' = inflight + 1
  /\ sum' = [sum EXCEPT ![c] = inflight + 1]
  /\ place' = [place EXCEPT ![c] = "added"]

\* Faulty variant: the limit is compared with the counter as it is now.
Check_Reread(c) ==
  /\ place[c] = "added"
  /\ place' = [place EXCEPT ![c] = IF inflight - 1 > MaxInflight THEN "shed" ELSE "admitted"]
  /\ UNCHANGED <<inflight, sum>>

Check(c) ==
  /\ place[c] = "added"
  /\ place' = [place EXCEPT ![c] = IF sum[c] > MaxInflight THEN "shed" ELSE "admitted"]
  /\ UNCHANGED <<inflight, sum>>

\* release(): at once for a shed call, deferred past the handler (and past a
\* panic in it) for an admitted one.
TakeOff(c) ==
  /\ place[c] \in {"shed", "admitted"}
  /\ inflight' = inflight - 1
  /\ place' = [place EXCEPT ![c] = "out"]
  /\ sum' = [sum EXCEPT ![c] = 0]

ShedNext == \E c \in Calls : Add(c) \/ Check(c) \/ TakeOff(c)

ShedSpec == ShedInit /\ [][ShedNext]_shedVars

-----------------------------------------------------------------------------
Inside == {c \in Calls : place[c] # "out"}

\* Calls that run the handler, or are bound to.
Cleared == {c \in Calls : place[c] = "admitted" \/ (place[c] = "added" /\ sum[c] <= MaxInflight)}

ShedTypeOK ==
  /\ inflight \in Nat
  /\ place \in [Calls -> Places]
  /\ sum \in [Calls -> Nat]

\* The counter is the number of calls inside the interceptor at every moment,
\* so it comes back to zero when they have left: no path of admit() (shed,
\* returned or panicked) leaks a unit and slowly closes the method.
CounterExact == inflight = Cardinality(Inside)

\* Never more than MaxInflight handlers run at once, although calls add, look
\* and take off in any interleaving.
AdmittedBounded == Cardinality({c \in Calls : place[c] = "admitted"}) <= MaxInflight

\* The reason: a call cleared by its sum was, at that moment, among at most
\* MaxInflight calls inside.
ClearedBounded == Cardinality(Cleared) <= MaxInflight
=============================================================================
