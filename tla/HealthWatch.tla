----------------------------- MODULE HealthWatch ----------------------------
(***************************************************************************)
(* The Watch streams of health/health.go: the two slots a stream takes (an *)
(* atomic counter first, then a map under perPeerMu), the loop that        *)
(* reports a changed status, and the drain that ends the stream.           *)
(***************************************************************************)
EXTENDS Integers, FiniteSets, Functions

CONSTANTS
  Streams,     \* Watch calls
  Keys,        \* per-peer keys; a stream with key None has no network peer
  MaxWatchers, MaxWatchersPerPeer,
  None

ASSUME WatchAssumption ==
  /\ IsFiniteSet(Streams) /\ None \notin Keys
  /\ MaxWatchers \in Nat /\ MaxWatchersPerPeer \in Nat

VARIABLES
  watchers,  \* grpcHealth.watchers
  perPeer,   \* grpcHealth.perPeer, a function on the keys present
  drained,   \* Registry.drained is closed
  pc,        \* where each call is
  key,       \* watcherPeerKey of the call
  goal,      \* where send continues: "select", or "release" for the last one
  last,      \* the status last handed to stream.Send
  told,      \* the status last delivered to the client
  gone       \* the stream's context is done

vars == <<watchers, perPeer, drained, pc, key, goal, last, told, gone>>
callVars == <<goal, last, told, gone>>

Statuses == {"SERVING", "NOT_SERVING"}

\* Calls that hold a unit of watchers, a unit of perPeer, and those let in.
Counted == {w \in Streams : pc[w] \in {"peer", "undo", "send", "eval", "select", "release", "uncount"}}
Admitted == {w \in Streams : pc[w] \in {"send", "eval", "select", "release"}}
OfKey(k) == {w \in Admitted : key[w] = k}

Init ==
  /\ watchers = 0 /\ perPeer = [k \in {} |-> 0] /\ drained = FALSE
  /\ pc = [w \in Streams |-> "idle"]
  /\ key = [w \in Streams |-> None]
  /\ goal = [w \in Streams |-> "select"]
  /\ last = [w \in Streams |-> None]
  /\ told = [w \in Streams |-> None]
  /\ gone = [w \in Streams |-> FALSE]

GoTo(w, label) == pc' = [pc EXCEPT ![w] = label]

\* The call returns; its goroutine stands for a later call.
Forget(w) ==
  /\ GoTo(w, "idle")
  /\ key' = [key EXCEPT ![w] = None]
  /\ goal' = [goal EXCEPT ![w] = "select"]
  /\ last' = [last EXCEPT ![w] = None]
  /\ told' = [told EXCEPT ![w] = None]
  /\ gone' = [gone EXCEPT ![w] = FALSE]

\* acquireWatcher: watchers.Add(1), and the verdict on what it returned.
Acquire(w, k) ==
  /\ pc[w] = "idle"
  /\ watchers' = watchers + 1
  /\ IF watchers + 1 > MaxWatchers
     THEN GoTo(w, "undo") /\ UNCHANGED key
     ELSE /\ key' = [key EXCEPT ![w] = k]
          /\ GoTo(w, IF k = None THEN "send" ELSE "peer")
  /\ UNCHANGED <<perPeer, drained, callVars>>

Held(k) == IF k \in DOMAIN perPeer THEN perPeer[k] ELSE 0

\* Faulty variant: a refusal by the per-peer cap keeps the global unit.
PeerSlot_KeepsGlobal(w) ==
  /\ pc[w] = "peer"
  /\ IF Held(key[w]) >= MaxWatchersPerPeer
     THEN GoTo(w, "idle") /\ UNCHANGED perPeer
     ELSE /\ perPeer' = [k \in DOMAIN perPeer \cup {key[w]} |-> IF k = key[w] THEN Held(k) + 1 ELSE perPeer[k]]
          /\ GoTo(w, "send")
  /\ UNCHANGED <<watchers, drained, key, callVars>>

\* acquireWatcher under perPeerMu.
PeerSlot(w) ==
  /\ pc[w] = "peer"
  /\ IF Held(key[w]) >= MaxWatchersPerPeer
     THEN GoTo(w, "undo") /\ UNCHANGED perPeer
     ELSE /\ perPeer' = [k \in DOMAIN perPeer \cup {key[w]} |-> IF k = key[w] THEN Held(k) + 1 ELSE perPeer[k]]
          /\ GoTo(w, "send")
  /\ UNCHANGED <<watchers, drained, key, callVars>>

\* The Add(-1) of a refusal.
Undo(w) ==
  /\ pc[w] = "undo"
  /\ watchers' = watchers - 1
  /\ Forget(w)
  /\ UNCHANGED <<perPeer, drained>>

\* stream.Send of a status that differs from the last one: delivered or an error,
\* which ends the call.
Deliver(w, st) ==
  IF st = last[w]
  THEN GoTo(w, goal[w]) /\ UNCHANGED <<last, told>>
  ELSE /\ last' = [last EXCEPT ![w] = st]
       /\ \/ told' = [told EXCEPT ![w] = st] /\ GoTo(w, goal[w])
          \/ gone[w] /\ GoTo(w, "release") /\ UNCHANGED told

\* send: statusFor sees the drain ...
SendDraining(w) ==
  /\ pc[w] = "send" /\ drained
  /\ Deliver(w, "NOT_SERVING")
  /\ UNCHANGED <<watchers, perPeer, drained, key, goal, gone>>

\* ... or does not, and evaluates the checks, which takes time ...
Evaluate(w) ==
  /\ pc[w] = "send" /\ ~drained
  /\ GoTo(w, "eval")
  /\ UNCHANGED <<watchers, perPeer, drained, key, callVars>>

\* ... and sends what it found.
SendEvaluated(w) ==
  /\ pc[w] = "eval"
  /\ \E st \in Statuses : Deliver(w, st)
  /\ UNCHANGED <<watchers, perPeer, drained, key, goal, gone>>

\* The three cases of select; with several ready, any one is taken.
SelectDone(w) ==
  /\ pc[w] = "select" /\ gone[w]
  /\ GoTo(w, "release")
  /\ UNCHANGED <<watchers, perPeer, drained, key, callVars>>

\* Faulty variant: the drain ends the stream without a last status.
SelectDrained_Silent(w) ==
  /\ pc[w] = "select" /\ drained
  /\ goal' = [goal EXCEPT ![w] = "release"]
  /\ GoTo(w, "release")
  /\ UNCHANGED <<watchers, perPeer, drained, key, last, told, gone>>

SelectDrained(w) ==
  /\ pc[w] = "select" /\ drained
  /\ goal' = [goal EXCEPT ![w] = "release"]
  /\ GoTo(w, "send")
  /\ UNCHANGED <<watchers, perPeer, drained, key, last, told, gone>>

SelectTick(w) ==
  /\ pc[w] = "select"
  /\ GoTo(w, "send")
  /\ UNCHANGED <<watchers, perPeer, drained, key, callVars>>

\* The deferred release: the per-peer unit, the last of which removes the entry ...
Release(w) ==
  /\ pc[w] = "release"
  /\ IF key[w] = None THEN UNCHANGED perPeer
     ELSE IF Held(key[w]) <= 1
     THEN perPeer' = Restrict(perPeer, DOMAIN perPeer \ {key[w]})
     ELSE perPeer' = [perPeer EXCEPT ![key[w]] = @ - 1]
  /\ GoTo(w, "uncount")
  /\ UNCHANGED <<watchers, drained, key, callVars>>

\* ... then watchers.Add(-1).
Uncount(w) ==
  /\ pc[w] = "uncount"
  /\ watchers' = watchers - 1
  /\ Forget(w)
  /\ UNCHANGED <<perPeer, drained>>

\* Registry.Drain, and a client that goes away.
Drain ==
  /\ ~drained
  /\ drained' = TRUE
  /\ UNCHANGED <<watchers, perPeer, pc, key, callVars>>

Leave(w) ==
  /\ ~gone[w] /\ w \in Admitted
  /\ gone' = [gone EXCEPT ![w] = TRUE]
  /\ UNCHANGED <<watchers, perPeer, drained, pc, key, goal, last, told>>

Run(w) ==
  \/ PeerSlot(w) \/ Undo(w) \/ SendDraining(w) \/ Evaluate(w) \/ SendEvaluated(w)
  \/ SelectDone(w) \/ SelectTick(w) \/ Release(w) \/ Uncount(w)

Next ==
  \/ Drain
  \/ \E w \in Streams :
       (\E k \in Keys \cup {None} : Acquire(w, k)) \/ Run(w) \/ SelectDrained(w) \/ Leave(w)

Spec == Init /\ [][Next]_vars

\* Running calls make progress (stream.Send returns, an evaluation is bounded by
\* checkTimeout); select picks among ready cases at random, so a case that is
\* ready again and again is taken.
FairSpec ==
  /\ Spec
  /\ \A w \in Streams : WF_vars(Run(w)) /\ SF_vars(SelectDrained(w))

-----------------------------------------------------------------------------
TypeOK ==
  /\ watchers \in 0..Cardinality(Streams)
  /\ DOMAIN perPeer \subseteq Keys
  /\ \A k \in DOMAIN perPeer : perPeer[k] \in 1..MaxWatchersPerPeer
  /\ drained \in BOOLEAN
  /\ pc \in [Streams -> {"idle", "peer", "undo", "send", "eval", "select", "release", "uncount"}]
  /\ key \in [Streams -> Keys \cup {None}]
  /\ goal \in [Streams -> {"select", "release"}]
  /\ last \in [Streams -> Statuses \cup {None}]
  /\ told \in [Streams -> Statuses \cup {None}]
  /\ gone \in [Streams -> BOOLEAN]

\* watchers counts exactly the calls between acquireWatcher's Add(1) and the
\* Add(-1) of their refusal or release; perPeer holds, for the keys with a live
\* stream and for no other, the number of their streams: it "never grows past the
\* set of live peers".  No path through a call leaks a unit of either, and no
\* interleaving of acquisitions lets in more streams than MaxWatchers, or more of one
\* peer than MaxWatchersPerPeer.
WatchersExact ==
  /\ watchers = Cardinality(Counted)
  /\ DOMAIN perPeer = {key[w] : w \in Admitted} \ {None}
  /\ \A k \in DOMAIN perPeer : perPeer[k] = Cardinality(OfKey(k))
  /\ Cardinality(Admitted) <= MaxWatchers
  /\ \A k \in Keys : Cardinality(OfKey(k)) <= MaxWatchersPerPeer

\* Once the server drains, every stream ends: none pins the graceful stop.  It has told
\* its client NOT_SERVING last, unless the client is gone: even if an evaluation from
\* before the drain said SERVING later.
DrainEnds ==
  \A w \in Streams :
    drained /\ w \in Admitted ~>
      w \notin Admitted /\ (gone[w] \/ told[w] = "NOT_SERVING")
=============================================================================
