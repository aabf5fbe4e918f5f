----------------------------- MODULE HealthProofs -----------------------------
(***************************************************************************)
(* Proofs about the Watch streams, for any streams, peers and caps, and    *)
(* about the registry, for any names, probers and registrations.           *)
(***************************************************************************)
EXTENDS HealthWatch, HealthRegistry, FiniteSetTheorems, TLAPS

\* A leaf that names no prover is tried with Zenon, then with SMT.
USE ZenonT(3), SMTT(30), ZenonT(20)

\* Calls that the global cap has let through.
Cleared == {w \in Streams : pc[w] \in {"peer", "send", "eval", "select", "release", "uncount"}}

Places == {"idle", "peer", "undo", "send", "eval", "select", "release", "uncount"}

WatchTypes ==
  /\ pc \in [Streams -> Places]
  /\ key \in [Streams -> Keys \cup {None}]
  /\ goal \in [Streams -> {"select", "release"}]
  /\ \A w \in Streams : pc[w] = "peer" => key[w] \in Keys

\* The units taken from watchers are those of the calls in Counted, and the calls let
\* through are among them: so the count that clears a call is at least theirs.
GlobalExact == watchers = Cardinality(Counted) /\ Cardinality(Cleared) <= MaxWatchers

PeersExact ==
  /\ DOMAIN perPeer = {key[w] : w \in Admitted} \ {None}
  /\ \A k \in DOMAIN perPeer : perPeer[k] = Cardinality(OfKey(k))
  /\ \A k \in Keys : Cardinality(OfKey(k)) <= MaxWatchersPerPeer

IInv == WatchTypes /\ GlobalExact /\ PeersExact

\* Counting a set of streams.
LEMMA StreamSets ==
  ASSUME NEW S \in SUBSET Streams
  PROVE  IsFiniteSet(S) /\ Cardinality(S) \in Nat /\ (Cardinality(S) = 0 <=> S = {})
BY WatchAssumption, FS_Subset, FS_CardinalityType, FS_EmptySet

\* A stream joins a set of streams ...
LEMMA StreamJoins ==
  ASSUME NEW S \in SUBSET Streams, NEW w \in Streams, w \notin S
  PROVE  Cardinality(S \cup {w}) = Cardinality(S) + 1
BY StreamSets, FS_AddElement

\* ... or leaves it.
LEMMA StreamLeaves ==
  ASSUME NEW S \in SUBSET Streams, NEW w \in S
  PROVE  Cardinality(S \ {w}) = Cardinality(S) - 1
BY StreamSets, FS_RemoveElement

\* A part of a set of streams.
LEMMA StreamParts ==
  ASSUME NEW S \in SUBSET Streams, NEW T \in SUBSET S
  PROVE  Cardinality(T) <= Cardinality(S)
BY StreamSets, FS_Subset

\* perPeer's value for a key, absent ones included, is the number of its streams.
LEMMA HeldExact ==
  ASSUME IInv, NEW k \in Keys
  PROVE  Held(k) = Cardinality(OfKey(k))
<1>1. CASE k \in DOMAIN perPeer BY <1>1 DEF IInv, PeersExact, Held
<1>2. CASE k \notin DOMAIN perPeer
  <2>1. OfKey(k) = {} BY <1>2, WatchAssumption DEF IInv, PeersExact, OfKey
  <2> QED BY <1>2, <2>1, FS_EmptySet DEF Held
<1> QED BY <1>1, <1>2

\* No stream, no unit.
LEMMA InitIInv == Init => IInv
<1> SUFFICES ASSUME Init PROVE IInv OBVIOUS
<1>1. WatchTypes BY DEF Init, WatchTypes, Places
<1>2. Counted = {} /\ Cleared = {} /\ Admitted = {}
  BY DEF Init, Counted, Cleared, Admitted
<1>3. \A k : OfKey(k) = {} BY <1>2 DEF OfKey
<1>4. DOMAIN perPeer = {} BY DEF Init
<1>5. {key[w] : w \in Admitted} \ {None} = {} BY <1>2
<1>6. \A k \in Keys : Cardinality(OfKey(k)) = 0 BY <1>3, FS_EmptySet
<1>7. \A k \in Keys : Cardinality(OfKey(k)) <= MaxWatchersPerPeer BY <1>6, WatchAssumption
<1>8. PeersExact BY <1>4, <1>5, <1>7 DEF PeersExact
<1>9. GlobalExact BY <1>2, FS_EmptySet, WatchAssumption DEF GlobalExact, Init
<1> QED BY <1>1, <1>8, <1>9 DEF IInv

\* A step that lets nobody in or out of the sets changes nothing that is counted.
LEMMA Quiet ==
  ASSUME IInv, WatchTypes', UNCHANGED <<watchers, perPeer>>, Counted' = Counted, Cleared' = Cleared,
         Admitted' = Admitted, \A w \in Admitted : key'[w] = key[w]
  PROVE  IInv'
<1>1. \A k : OfKey(k)' = OfKey(k) BY DEF OfKey
<1>2. {key[w] : w \in Admitted}' = {key[w] : w \in Admitted} OBVIOUS
<1> QED BY <1>1, <1>2 DEF IInv, GlobalExact, PeersExact

\* The loop of a stream that is let in: send, evaluate, select.
LEMMA LoopIInv ==
  ASSUME IInv, NEW w \in Streams,
         \/ SendDraining(w) \/ Evaluate(w) \/ SendEvaluated(w)
         \/ SelectDone(w) \/ SelectTick(w) \/ SelectDrained(w) \/ Leave(w)
  PROVE  IInv'
<1>1. /\ UNCHANGED <<watchers, perPeer, key>>
      /\ goal' \in [Streams -> {"select", "release"}]
  BY DEF IInv, WatchTypes, SendDraining, Evaluate, SendEvaluated, SelectDone, SelectTick,
         SelectDrained, Leave, callVars
<1>2. \/ pc' = pc
      \/ /\ pc[w] \in {"send", "eval", "select"}
         /\ \E p \in {"send", "eval", "select", "release"} : pc' = [pc EXCEPT ![w] = p]
  BY DEF IInv, WatchTypes, SendDraining, Evaluate, SendEvaluated, SelectDone, SelectTick,
         SelectDrained, Leave, Deliver, GoTo
<1>3. WatchTypes' BY <1>1, <1>2 DEF IInv, WatchTypes, Places
<1>4. Counted' = Counted /\ Cleared' = Cleared /\ Admitted' = Admitted
  BY <1>2 DEF IInv, WatchTypes, Counted, Cleared, Admitted
<1> QED BY <1>1, <1>3, <1>4, Quiet

\* acquireWatcher's Add(1): the call is counted, and let through only if the count it
\* got, which includes everyone let through before, is within the cap.
LEMMA AcquireIInv ==
  ASSUME IInv, NEW w \in Streams, NEW k \in Keys \cup {None}, Acquire(w, k)
  PROVE  IInv'
<1>1. WatchTypes' BY DEF IInv, WatchTypes, Places, Acquire, GoTo, callVars
<1>2. w \notin Counted /\ w \notin Cleared /\ w \notin Admitted
  BY DEF Acquire, Counted, Cleared, Admitted
<1>3. Counted' = Counted \cup {w}
  BY DEF IInv, WatchTypes, Acquire, GoTo, Counted
<1>4. Counted \in SUBSET Streams /\ Cleared \in SUBSET Counted /\ Cleared \in SUBSET Streams
  BY DEF Counted, Cleared
<1>5. watchers' = Cardinality(Counted')
  BY <1>2, <1>3, <1>4, StreamJoins DEF IInv, GlobalExact, Acquire
<1>6. Cardinality(Cleared') <= MaxWatchers
  <2>1. CASE watchers + 1 > MaxWatchers
    <3>1. Cleared' = Cleared BY <2>1 DEF IInv, WatchTypes, Acquire, GoTo, Cleared
    <3> QED BY <3>1 DEF IInv, GlobalExact
  <2>2. CASE ~(watchers + 1 > MaxWatchers)
    <3>1. Cleared' = Cleared \cup {w} BY <2>2 DEF IInv, WatchTypes, Acquire, GoTo, Cleared
    <3>2. Cardinality(Cleared') = Cardinality(Cleared) + 1 BY <3>1, <1>2, <1>4, StreamJoins
    <3>3. Cardinality(Cleared) <= watchers BY <1>4, StreamParts DEF IInv, GlobalExact
    <3> QED BY <3>2, <3>3, <2>2, <1>4, StreamSets, WatchAssumption DEF IInv, GlobalExact
  <2> QED BY <2>1, <2>2
<1>7. /\ Admitted' = Admitted \/ (Admitted' = Admitted \cup {w} /\ key'[w] = None)
      /\ \A v \in Admitted : key'[v] = key[v]
  BY <1>2 DEF IInv, WatchTypes, Acquire, GoTo, Admitted
<1>8. {key[v] : v \in Admitted}' \ {None} = {key[v] : v \in Admitted} \ {None}
  BY <1>7
<1>9. \A j \in Keys : OfKey(j)' = OfKey(j)
  BY <1>2, <1>7, WatchAssumption DEF OfKey
<1>10. perPeer' = perPeer /\ DOMAIN perPeer \subseteq Keys
  BY DEF IInv, WatchTypes, PeersExact, Acquire, Admitted
<1>11. PeersExact' BY <1>8, <1>9, <1>10 DEF IInv, PeersExact
<1> QED BY <1>1, <1>5, <1>6, <1>11 DEF IInv, GlobalExact

\* acquireWatcher under perPeerMu, refused or let in.
LEMMA PeerSlotIInv ==
  ASSUME IInv, NEW w \in Streams, PeerSlot(w)
  PROVE  IInv'
<1>1. WatchTypes' BY DEF IInv, WatchTypes, Places, PeerSlot, GoTo, callVars
<1>2. /\ key[w] \in Keys /\ w \notin Admitted /\ key' = key /\ watchers' = watchers
      /\ Counted' = Counted
  BY DEF IInv, WatchTypes, PeerSlot, GoTo, Counted, Admitted
<1>3. Cleared' \in SUBSET Cleared /\ Cleared \in SUBSET Streams
  BY DEF IInv, WatchTypes, PeerSlot, GoTo, Cleared
<1>4. GlobalExact'
  <2>1. Cardinality(Cleared') <= Cardinality(Cleared) BY <1>3, StreamParts
  <2>2. Cardinality(Cleared) \in Nat /\ Cardinality(Cleared') \in Nat BY <1>3, StreamSets
  <2> QED BY <1>2, <2>1, <2>2, WatchAssumption DEF IInv, GlobalExact
<1>5. CASE Held(key[w]) >= MaxWatchersPerPeer
  <2>1. Admitted' = Admitted /\ perPeer' = perPeer
    BY <1>5 DEF IInv, WatchTypes, PeerSlot, GoTo, Admitted
  <2>2. \A k : OfKey(k)' = OfKey(k) BY <1>2, <2>1 DEF OfKey
  <2> QED BY <1>1, <1>2, <1>4, <2>1, <2>2 DEF IInv, PeersExact
<1>6. CASE ~(Held(key[w]) >= MaxWatchersPerPeer)
  <2>0. PICK q \in Keys : q = key[w] BY <1>2
  <2>1. Admitted' = Admitted \cup {w}
    BY <2>0, <1>6 DEF IInv, WatchTypes, PeerSlot, GoTo, Admitted
  <2>2. \A k \in Keys \ {key[w]} : OfKey(k)' = OfKey(k) BY <2>0, <1>2, <2>1 DEF OfKey
  <2>3. OfKey(q)' = OfKey(q) \cup {w} /\ w \notin OfKey(q)
    BY <2>0, <1>2, <2>1 DEF OfKey
  <2>4. OfKey(q) \in SUBSET Streams BY <2>0 DEF OfKey, Admitted
  <2>5. Cardinality(OfKey(q)') = Held(q) + 1
    BY <2>0, <1>2, <2>3, <2>4, StreamJoins, HeldExact
  <2>6. Held(q) \in Nat BY <1>2, <2>4, HeldExact, StreamSets
  <2>7. {key[v] : v \in Admitted}' = {key[v] : v \in Admitted} \cup {key[w]} BY <2>0, <1>2, <2>1
  <2>8. perPeer' = [k \in DOMAIN perPeer \cup {key[w]} |->
                      IF k = key[w] THEN Held(k) + 1 ELSE perPeer[k]]
    BY <2>0, <1>6 DEF PeerSlot
  <2>9. DOMAIN perPeer' = {key[v] : v \in Admitted}' \ {None}
    BY <2>0, <1>2, <2>7, <2>8, WatchAssumption DEF IInv, PeersExact
  <2>10. DOMAIN perPeer \subseteq Keys BY <2>0 DEF IInv, WatchTypes, PeersExact, Admitted
  <2>11. \A k \in DOMAIN perPeer' : perPeer'[k] = Cardinality(OfKey(k)')
    BY <2>0, <1>2, <2>2, <2>5, <2>8, <2>10 DEF IInv, PeersExact
  <2>12. \A k \in Keys : Cardinality(OfKey(k)') <= MaxWatchersPerPeer
    <3>1. Held(q) + 1 <= MaxWatchersPerPeer BY <2>0, <1>6, <2>6, WatchAssumption
    <3>2. ASSUME NEW k \in Keys PROVE Cardinality(OfKey(k)') <= MaxWatchersPerPeer
      <4>1. CASE k = q BY <2>0, <3>1, <4>1, <2>5
      <4>2. CASE k # q BY <2>0, <4>2, <2>2 DEF IInv, PeersExact
      <4> QED BY <4>1, <4>2
    <3> QED BY <3>2
  <2>13. PeersExact' BY <2>9, <2>11, <2>12 DEF PeersExact
  <2> QED BY <1>1, <1>4, <2>13 DEF IInv
<1> QED BY <1>5, <1>6

\* The Add(-1) of a refusal and of a release: a call that holds no peer's unit.
LEMMA UncountIInv ==
  ASSUME IInv, NEW w \in Streams, Undo(w) \/ Uncount(w)
  PROVE  IInv'
<1>1. WatchTypes' BY DEF IInv, WatchTypes, Places, Undo, Uncount, Forget, GoTo
<1>2. w \in Counted /\ w \notin Admitted BY DEF Undo, Uncount, Counted, Admitted
<1>3. /\ Counted' = Counted \ {w} /\ Admitted' = Admitted
      /\ Cleared' \in SUBSET Cleared
  BY DEF IInv, WatchTypes, Undo, Uncount, Forget, GoTo, Counted, Admitted, Cleared
<1>4. Counted \in SUBSET Streams /\ Cleared \in SUBSET Streams BY DEF Counted, Cleared
<1>5. watchers' = Cardinality(Counted')
  BY <1>2, <1>3, <1>4, StreamLeaves DEF IInv, GlobalExact, Undo, Uncount
<1>6. Cardinality(Cleared') <= MaxWatchers
  <2>1. Cardinality(Cleared') <= Cardinality(Cleared) BY <1>3, <1>4, StreamParts
  <2>2. Cardinality(Cleared) \in Nat /\ Cardinality(Cleared') \in Nat BY <1>3, <1>4, StreamSets
  <2> QED BY <2>1, <2>2, WatchAssumption DEF IInv, GlobalExact
<1>7. perPeer' = perPeer /\ \A v \in Admitted : key'[v] = key[v]
  BY <1>2 DEF IInv, WatchTypes, Undo, Uncount, Forget, Admitted
<1>8. \A k : OfKey(k)' = OfKey(k) BY <1>3, <1>7 DEF OfKey
<1>9. {key[v] : v \in Admitted}' = {key[v] : v \in Admitted} BY <1>3, <1>7
<1> QED BY <1>1, <1>5, <1>6, <1>7, <1>8, <1>9 DEF IInv, GlobalExact, PeersExact

\* The deferred release of a peer's unit, the last of which removes the entry.
LEMMA ReleaseIInv ==
  ASSUME IInv, NEW w \in Streams, Release(w)
  PROVE  IInv'
<1>1. WatchTypes' BY DEF IInv, WatchTypes, Places, Release, GoTo, callVars
<1>2. /\ w \in Admitted /\ Admitted' = Admitted \ {w} /\ key' = key
      /\ Counted' = Counted /\ Cleared' = Cleared /\ watchers' = watchers
  BY DEF IInv, WatchTypes, Release, GoTo, Counted, Cleared, Admitted
<1>3. GlobalExact' BY <1>2 DEF IInv, GlobalExact
<1>4. \A k \in Keys \ {key[w]} : OfKey(k)' = OfKey(k) BY <1>2 DEF OfKey
<1>5. CASE key[w] = None
  <2>1. \A k \in Keys : OfKey(k)' = OfKey(k) BY <1>4, <1>5, WatchAssumption
  <2>2. {key[v] : v \in Admitted}' \ {None} = {key[v] : v \in Admitted} \ {None} BY <1>2, <1>5
  <2>3. perPeer' = perPeer BY <1>5 DEF Release
  <2>4. DOMAIN perPeer \subseteq Keys BY DEF IInv, WatchTypes, PeersExact, Admitted
  <2> QED BY <1>1, <1>3, <2>1, <2>2, <2>3, <2>4 DEF IInv, PeersExact
<1>6. CASE key[w] # None
  <2>0. PICK q \in Keys : q = key[w] BY <1>2, <1>6 DEF IInv, WatchTypes, Admitted
  <2>1. key[w] \in Keys /\ key[w] \in DOMAIN perPeer /\ DOMAIN perPeer \subseteq Keys
    BY <2>0, <1>2, <1>6 DEF IInv, WatchTypes, PeersExact, Admitted
  <2>2. OfKey(q)' = OfKey(q) \ {w} /\ w \in OfKey(q) BY <2>0, <1>2 DEF OfKey
  <2>3. OfKey(q) \in SUBSET Streams /\ OfKey(q) \ {w} \in SUBSET Streams
    BY <2>0 DEF OfKey, Admitted
  <2>4. Cardinality(OfKey(q)') = Held(q) - 1
    BY <2>0, <2>1, <2>2, <2>3, StreamLeaves, HeldExact
  <2>5. Held(q) \in Nat /\ Held(q) = perPeer[key[w]]
    BY <2>0, <2>1, <2>3, HeldExact, StreamSets DEF Held
  <2>6. \A k \in Keys : Cardinality(OfKey(k)') <= MaxWatchersPerPeer
    <3>1. Held(q) <= MaxWatchersPerPeer BY <2>0, <2>1, HeldExact DEF IInv, PeersExact
    <3>2. Held(q) - 1 <= MaxWatchersPerPeer BY <2>0, <3>1, <2>5, WatchAssumption
    <3>3. ASSUME NEW k \in Keys PROVE Cardinality(OfKey(k)') <= MaxWatchersPerPeer
      <4>1. CASE k = q BY <2>0, <3>2, <4>1, <2>4
      <4>2. CASE k # q BY <2>0, <4>2, <1>4 DEF IInv, PeersExact
      <4> QED BY <4>1, <4>2
    <3> QED BY <3>3
  <2>7. CASE Held(q) <= 1
    <3>1. OfKey(q)' = {}
      <4>1. Cardinality(OfKey(q) \ {w}) \in Nat BY <2>3, StreamSets
      <4>2. Cardinality(OfKey(q) \ {w}) = 0 BY <2>0, <4>1, <2>2, <2>4, <2>5, <2>7
      <4> QED BY <4>2, <2>2, <2>3, StreamSets
    <3>2. key[w] \notin {key[v] : v \in Admitted}' BY <2>0, <3>1, <1>2 DEF OfKey
    <3>3. {key[v] : v \in Admitted}' = {key[v] : v \in Admitted} \ {key[w]} BY <2>0, <1>2, <3>2
    <3>4. perPeer' = [k \in DOMAIN perPeer \ {key[w]} |-> perPeer[k]]
      BY <2>0, <1>6, <2>7 DEF Release, Restrict
    <3>5. DOMAIN perPeer' = {key[v] : v \in Admitted}' \ {None}
      BY <2>0, <3>3, <3>4 DEF IInv, PeersExact
    <3>6. \A k \in DOMAIN perPeer' : perPeer'[k] = Cardinality(OfKey(k)')
      BY <2>0, <3>4, <1>4, <2>1 DEF IInv, PeersExact
    <3>7. PeersExact' BY <3>5, <3>6, <2>6 DEF PeersExact
    <3> QED BY <1>1, <1>3, <3>7 DEF IInv
  <2>8. CASE ~(Held(q) <= 1)
    <3>1. OfKey(q)' # {}
      <4>1. Cardinality(OfKey(q)') # 0 BY <2>4, <2>5, <2>8
      <4>2. Cardinality({}) = 0 BY FS_EmptySet
      <4> QED BY <4>1, <4>2
    <3>2. key[w] \in {key[v] : v \in Admitted}' BY <2>0, <3>1, <1>2 DEF OfKey
    <3>3. {key[v] : v \in Admitted}' = {key[v] : v \in Admitted} BY <2>0, <1>2, <3>2
    <3>4. perPeer' = [perPeer EXCEPT ![key[w]] = @ - 1] BY <2>0, <1>6, <2>8 DEF Release
    <3>5. DOMAIN perPeer' = {key[v] : v \in Admitted}' \ {None}
      BY <2>0, <3>3, <3>4 DEF IInv, PeersExact
    <3>6. \A k \in DOMAIN perPeer' : perPeer'[k] = Cardinality(OfKey(k)')
      BY <2>0, <3>4, <1>4, <2>1, <2>4, <2>5 DEF IInv, PeersExact
    <3>7. PeersExact' BY <3>5, <3>6, <2>6 DEF PeersExact
    <3> QED BY <1>1, <1>3, <3>7 DEF IInv
  <2> QED BY <2>7, <2>8
<1> QED BY <1>5, <1>6

\* Every step keeps IInv.
LEMMA NextIInv == IInv /\ [Next]_vars => IInv'
<1> SUFFICES ASSUME IInv, [Next]_vars PROVE IInv' OBVIOUS
<1>1. CASE Drain \/ UNCHANGED vars
  <2>1. UNCHANGED <<watchers, perPeer, pc, key, goal>> BY <1>1 DEF Drain, vars, callVars
  <2> QED BY <2>1, Quiet DEF IInv, WatchTypes, Counted, Cleared, Admitted
<1>2. ASSUME NEW w \in Streams, Run(w) \/ SelectDrained(w) \/ Leave(w) PROVE IInv'
  BY <1>2, LoopIInv, PeerSlotIInv, UncountIInv, ReleaseIInv DEF Run
<1> QED BY <1>1, <1>2, AcquireIInv DEF Next

\* The inductive invariant holds throughout.
LEMMA Inductive == Spec => []IInv
BY InitIInv, NextIInv, PTL DEF Spec

\* acquireWatcher and its release: for any number of streams and peers, the counts are
\* exact, no unit leaks on any path, and neither cap is passed in any interleaving.
THEOREM SlotsNeverLeak == Spec => []WatchersExact
<1>1. IInv => WatchersExact
  <2> SUFFICES ASSUME IInv PROVE WatchersExact OBVIOUS
  <2>1. Admitted \in SUBSET Cleared /\ Cleared \in SUBSET Streams /\ Admitted \in SUBSET Streams
    BY DEF Admitted, Cleared
  <2>2. Cardinality(Admitted) <= Cardinality(Cleared) BY <2>1, StreamParts
  <2>3. Cardinality(Admitted) <= MaxWatchers
    BY <2>1, <2>2, StreamSets, WatchAssumption DEF IInv, GlobalExact
  <2> QED BY <2>3 DEF IInv, GlobalExact, PeersExact, WatchersExact
<1> QED BY <1>1, Inductive, PTL

-----------------------------------------------------------------------------
\* The registry: a status is computed from the checks registered before its probe.

\* A snapshot has every check of the map that was registered by generation g.
Covers(snapshot, g) ==
  \A n \in Names : checks[n] \in 1..g => snapshot[n] # Nothing /\ snapshot[n].check = checks[n]

\* The types of the registry's state.
RegistryTyped ==
  /\ checks \in [Names -> 0..MaxGen] /\ gen \in 0..MaxGen
  /\ writing => gen < MaxGen
  /\ snap \in [Names -> Results \cup {Nothing}] \cup {Nothing} /\ evalGen \in 0..MaxGen
  /\ at \in [Probers -> {"idle", "passed", "locked", "copied", "answer"}]
  /\ sawGen \in [Probers -> 0..MaxGen \cup {Nothing}] /\ began \in [Probers -> 0..MaxGen]
  /\ copy \in [Probers -> [Names -> 0..MaxGen]]
  /\ out \in [Probers -> [Names -> Results \cup {Nothing}]]
  /\ service \in [Probers -> Names \cup {Nothing}]

\* A probe from the load of gen on: later than its arrival, no later than now.
Loaded(p) == sawGen[p] \in 0..MaxGen /\ began[p] <= sawGen[p] /\ sawGen[p] <= gen

\* How far a probe is: the copy has what was registered when gen was loaded, the
\* results are those of the copy, and the answer covers what they are for.
ProbeOK(p) ==
  /\ began[p] <= gen
  /\ at[p] \in {"idle", "passed"} => sawGen[p] = Nothing
  /\ at[p] \in {"idle", "passed", "locked"} => out[p] = NoResult
  /\ at[p] \in {"locked", "copied"} => Loaded(p)
  /\ at[p] = "copied" =>
       \A n \in Names :
         /\ checks[n] \in 1..sawGen[p] => copy[p][n] = checks[n]
         /\ out[p][n] # Nothing => out[p][n].check = copy[p][n]
  /\ at[p] = "answer" /\ sawGen[p] # Nothing => Loaded(p) /\ Covers(out[p], sawGen[p])

\* The cached snapshot covers its generation.
SnapOK == snap # Nothing => evalGen <= gen /\ Covers(snap, evalGen)

RegistryInv == RegistryTyped /\ SnapOK /\ \A p \in Probers : ProbeOK(p)

USE RegistryAssumption

\* The values of the empty tables.
LEMMA NoResultFacts ==
  /\ NoResult \in [Names -> Results \cup {Nothing}] /\ \A n \in Names : NoResult[n] = Nothing
  /\ Absent \in [Names -> 0..MaxGen] /\ \A n \in Names : Absent[n] = 0
BY DEF NoResult, Absent

\* NewRegistry: no check, generation zero, no snapshot and no probe under way.
LEMMA InitRegistry == RegistryInit => RegistryInv
<1> SUFFICES ASSUME RegistryInit PROVE RegistryInv
  OBVIOUS
<1>1. RegistryTyped
  BY NoResultFacts DEF RegistryInit, RegistryTyped
<1>2. SnapOK
  BY DEF RegistryInit, SnapOK
<1>3. ASSUME NEW p \in Probers PROVE ProbeOK(p)
  BY DEF RegistryInit, ProbeOK
<1> QED BY <1>1, <1>2, <1>3 DEF RegistryInv

\* A registration is newer than every evaluation and every probe so far; to bump gen,
\* to drain and to let time pass take nothing away.
LEMMA WriterInv ==
  ASSUME RegistryInv, (\E n \in Names : Install(n)) \/ BumpGen \/ StartDrain \/ Tick
  PROVE  RegistryInv'
<1>1. /\ RegistryTyped /\ SnapOK /\ \A p \in Probers : ProbeOK(p)
      /\ UNCHANGED <<snap, evalGen, probeVars>>
  BY DEF RegistryInv, Install, BumpGen, StartDrain, Tick, cacheVars
<1>2. UNCHANGED <<at, sawGen, copy, out, began, service>>
  BY <1>1 DEF probeVars
<1>3. /\ checks' \in [Names -> 0..MaxGen] /\ gen' \in 0..MaxGen /\ gen <= gen'
      /\ writing' => gen' < MaxGen
      /\ \A n \in Names : checks'[n] = checks[n] \/ checks'[n] = gen + 1
  BY <1>1 DEF RegistryTyped, Install, BumpGen, StartDrain, Tick
<1>4. RegistryTyped'
  BY <1>1, <1>2, <1>3 DEF RegistryTyped
<1>5. ASSUME NEW r, NEW g \in 0..MaxGen, g <= gen, Covers(r, g)
      PROVE  \A n \in Names : checks'[n] \in 1..g => r[n] # Nothing /\ r[n].check = checks'[n]
  <2> SUFFICES ASSUME NEW n \in Names, checks'[n] \in 1..g
               PROVE  r[n] # Nothing /\ r[n].check = checks'[n]
    OBVIOUS
  <2>1. checks'[n] = checks[n]
    BY <1>1, <1>3, <1>5 DEF RegistryTyped
  <2> QED BY <1>5, <2>1 DEF Covers
<1>6. SnapOK'
  BY <1>1, <1>3, <1>5 DEF RegistryTyped, SnapOK, Covers
<1>7. ASSUME NEW p \in Probers PROVE ProbeOK(p)'
  <2>1. ProbeOK(p) /\ began[p] \in 0..MaxGen
    BY <1>1 DEF RegistryTyped
  <2>2. at[p] = "answer" /\ sawGen[p] # Nothing => Covers(out[p], sawGen[p])'
    BY <1>1, <1>2, <1>5, <2>1 DEF ProbeOK, Loaded, Covers
  <2>3. Loaded(p) => Loaded(p)'
    BY <1>1, <1>2, <1>3, <2>1 DEF RegistryTyped, Loaded
  <2>4. ASSUME at[p] = "copied", NEW n \in Names, checks'[n] \in 1..sawGen[p]
        PROVE  copy[p][n] = checks'[n]
    <3>1. Loaded(p)
      BY <2>1, <2>4 DEF ProbeOK
    <3>2. checks'[n] = checks[n]
      BY <1>1, <1>3, <2>4, <3>1 DEF RegistryTyped, Loaded
    <3> QED BY <2>1, <2>4, <3>2 DEF ProbeOK
  <2>5. began[p] <= gen'
    BY <1>1, <1>3, <2>1 DEF RegistryTyped, ProbeOK
  <2> QED BY <1>2, <2>1, <2>2, <2>3, <2>4, <2>5 DEF ProbeOK
<1> QED BY <1>4, <1>6, <1>7 DEF RegistryInv

\* A step of one probe leaves the others alone.
LEMMA OthersOK ==
  ASSUME RegistryInv, RegistryTyped', SnapOK', UNCHANGED <<checks, gen>>,
         NEW p \in Probers, ProbeOK(p)',
         \A q \in Probers \ {p} :
           /\ at'[q] = at[q] /\ sawGen'[q] = sawGen[q] /\ began'[q] = began[q]
           /\ copy'[q] = copy[q] /\ out'[q] = out[q]
  PROVE  RegistryInv'
<1>1. ASSUME NEW q \in Probers \ {p} PROVE ProbeOK(q)'
  <2>1. ProbeOK(q)
    BY DEF RegistryInv
  <2> QED BY <2>1 DEF ProbeOK, Loaded, Covers
<1> QED BY <1>1 DEF RegistryInv
\* A probe arrives, or returns its answer.
LEMMA ComeAndGo ==
  ASSUME RegistryInv, NEW p \in Probers,
         (\E svc \in Names \cup {Nothing} : Ask(p, svc)) \/ Return(p)
  PROVE  RegistryInv'
<1>1. RegistryTyped /\ SnapOK /\ ProbeOK(p)
  BY DEF RegistryInv
<1>2. UNCHANGED <<checks, gen, writing, snap, evalGen, copy>>
  BY DEF Ask, Return, cacheVars
<1>3. RegistryTyped'
  <2>1. CASE Return(p)
    BY <1>1, <1>2, <2>1, NoResultFacts DEF RegistryTyped, Return
  <2>2. ASSUME NEW svc \in Names \cup {Nothing}, Ask(p, svc) PROVE RegistryTyped'
    <3>1. /\ at' = [at EXCEPT ![p] = "answer"] \/ at' = [at EXCEPT ![p] = "passed"]
          /\ service' = [service EXCEPT ![p] = svc] /\ began' = [began EXCEPT ![p] = gen]
          /\ UNCHANGED <<sawGen, out>>
      BY <2>2 DEF Ask, Reply
    <3>2. at' \in [Probers -> {"idle", "passed", "locked", "copied", "answer"}]
      BY <1>1, <3>1 DEF RegistryTyped
    <3> QED BY <1>1, <1>2, <3>1, <3>2 DEF RegistryTyped
  <2> QED BY <2>1, <2>2
<1>4. SnapOK'
  BY <1>1, <1>2 DEF SnapOK, Covers
<1>5. ProbeOK(p)'
  <2>1. CASE Return(p)
    BY <1>1, <1>2, <2>1 DEF RegistryTyped, Return, ProbeOK
  <2>2. ASSUME NEW svc \in Names \cup {Nothing}, Ask(p, svc) PROVE ProbeOK(p)'
    <3>1. /\ at[p] = "idle" /\ at'[p] \in {"passed", "answer"} /\ began'[p] = gen
          /\ UNCHANGED <<sawGen, out>>
      BY <1>1, <2>2 DEF RegistryTyped, Ask, Reply
    <3> QED BY <1>1, <1>2, <3>1 DEF RegistryTyped, ProbeOK
  <2> QED BY <2>1, <2>2
<1>6. ASSUME NEW q \in Probers \ {p}
      PROVE  /\ at'[q] = at[q] /\ sawGen'[q] = sawGen[q] /\ began'[q] = began[q]
             /\ copy'[q] = copy[q] /\ out'[q] = out[q]
  BY <1>1, <1>2 DEF RegistryTyped, Ask, Return, Reply
<1> QED BY <1>2, <1>3, <1>4, <1>5, <1>6, OthersOK

\* CachedSnapshot up to its answer from the cache, or to its evaluation.
LEMMA LockInv ==
  ASSUME RegistryInv, NEW p \in Probers, Lock(p)
  PROVE  RegistryInv'
<1>1. RegistryTyped /\ SnapOK /\ ProbeOK(p)
  BY DEF RegistryInv
<1>2. /\ UNCHANGED <<checks, gen, writing, snap, evalGen, copy, began, service>>
      /\ at[p] = "passed" /\ sawGen' = [sawGen EXCEPT ![p] = gen]
      /\ \/ Fresh(gen) /\ at' = [at EXCEPT ![p] = "answer"] /\ out' = [out EXCEPT ![p] = snap]
         \/ at' = [at EXCEPT ![p] = "locked"] /\ out' = out
  BY DEF Lock, Reply
<1>3. RegistryTyped'
  <2>1. Fresh(gen) => snap \in [Names -> Results \cup {Nothing}]
    BY <1>1 DEF RegistryTyped, Fresh
  <2>2. out' \in [Probers -> [Names -> Results \cup {Nothing}]]
    BY <1>1, <1>2, <2>1 DEF RegistryTyped
  <2>3. /\ at' \in [Probers -> {"idle", "passed", "locked", "copied", "answer"}]
        /\ sawGen' \in [Probers -> 0..MaxGen \cup {Nothing}]
    BY <1>1, <1>2 DEF RegistryTyped
  <2> QED BY <1>1, <1>2, <2>2, <2>3 DEF RegistryTyped
<1>4. SnapOK'
  BY <1>1, <1>2 DEF SnapOK, Covers
<1>5. ProbeOK(p)'
  <2>1. /\ sawGen'[p] = gen /\ gen \in 0..MaxGen /\ began[p] <= gen /\ out[p] = NoResult
    BY <1>1, <1>2 DEF RegistryTyped, ProbeOK
  <2>2. Loaded(p)'
    BY <1>2, <2>1 DEF Loaded
  <2>3. CASE at' = [at EXCEPT ![p] = "locked"] /\ out' = out
    BY <1>1, <1>2, <2>1, <2>2, <2>3 DEF RegistryTyped, ProbeOK
  <2>4. CASE Fresh(gen) /\ at' = [at EXCEPT ![p] = "answer"] /\ out' = [out EXCEPT ![p] = snap]
    <3>1. at'[p] = "answer" /\ out'[p] = snap /\ Covers(snap, gen)
      BY <1>1, <2>4 DEF RegistryTyped, SnapOK, Fresh
    <3>2. Covers(out[p], sawGen[p])'
      BY <1>2, <2>1, <3>1 DEF Covers
    <3> QED BY <1>2, <2>1, <2>2, <3>1, <3>2 DEF ProbeOK
  <2> QED BY <1>2, <2>3, <2>4
<1>6. ASSUME NEW q \in Probers \ {p}
      PROVE  /\ at'[q] = at[q] /\ sawGen'[q] = sawGen[q] /\ began'[q] = began[q]
             /\ copy'[q] = copy[q] /\ out'[q] = out[q]
  BY <1>1, <1>2 DEF RegistryTyped
<1> QED BY <1>2, <1>3, <1>4, <1>5, <1>6, OthersOK

\* Snapshot copies the map and runs the checks of the copy.
LEMMA EvaluateInv ==
  ASSUME RegistryInv, NEW p \in Probers, Copy(p) \/ \E n \in Names : EvalCheck(p, n)
  PROVE  RegistryInv'
<1>1. RegistryTyped /\ SnapOK /\ ProbeOK(p)
  BY DEF RegistryInv
<1>2. UNCHANGED <<checks, gen, writing, snap, evalGen, sawGen, began, service>>
  BY DEF Copy, EvalCheck, cacheVars
<1>3. CASE Copy(p)
  <2>1. /\ at[p] = "locked" /\ at' = [at EXCEPT ![p] = "copied"]
        /\ copy' = [copy EXCEPT ![p] = checks] /\ out' = out
    BY <1>3 DEF Copy
  <2>2. RegistryTyped'
    BY <1>1, <1>2, <2>1 DEF RegistryTyped
  <2>3. SnapOK'
    BY <1>1, <1>2 DEF SnapOK, Covers
  <2>4. ProbeOK(p)'
    BY <1>1, <1>2, <2>1, NoResultFacts DEF RegistryTyped, ProbeOK, Loaded
  <2> QED BY <1>1, <1>2, <2>1, <2>2, <2>3, <2>4, OthersOK DEF RegistryTyped
<1>4. ASSUME NEW n \in Names, EvalCheck(p, n) PROVE RegistryInv'
  <2>1. PICK st \in States :
        /\ at[p] = "copied" /\ UNCHANGED <<at, copy>>
        /\ out' = [out EXCEPT ![p][n] = [check |-> copy[p][n], state |-> st]]
    BY <1>4 DEF EvalCheck
  <2>2. [check |-> copy[p][n], state |-> st] \in Results
    BY <1>1 DEF RegistryTyped, Results
  <2>3. /\ out' \in [Probers -> [Names -> Results \cup {Nothing}]]
        /\ out'[p][n] = [check |-> copy[p][n], state |-> st]
        /\ \A m \in Names \ {n} : out'[p][m] = out[p][m]
        /\ \A q \in Probers \ {p} : out'[q] = out[q]
    BY <1>1, <2>1, <2>2 DEF RegistryTyped
  <2>4. RegistryTyped'
    BY <1>1, <1>2, <2>1, <2>3 DEF RegistryTyped
  <2>5. SnapOK'
    BY <1>1, <1>2 DEF SnapOK, Covers
  <2>6. ProbeOK(p)'
    BY <1>1, <1>2, <2>1, <2>3 DEF ProbeOK, Loaded
  <2> QED BY <1>2, <2>1, <2>3, <2>4, <2>5, <2>6, OthersOK
<1> QED BY <1>3, <1>4

\* The results are stored with the generation they were begun with, and answered.
LEMMA StoreInv ==
  ASSUME RegistryInv, NEW p \in Probers, Store(p)
  PROVE  RegistryInv'
<1>1. RegistryTyped /\ SnapOK /\ ProbeOK(p)
  BY DEF RegistryInv
<1>2. /\ UNCHANGED <<checks, gen, writing, sawGen, out, began, service>>
      /\ at[p] = "copied" /\ at' = [at EXCEPT ![p] = "answer"]
      /\ \A n \in Names : copy[p][n] # 0 => out[p][n] # Nothing
      /\ snap' = out[p] /\ evalGen' = sawGen[p]
      /\ copy' = [copy EXCEPT ![p] = Absent]
  BY DEF Store, Reply
<1>3. Loaded(p)
  BY <1>1, <1>2 DEF ProbeOK
<1>4. Covers(out[p], sawGen[p])
  <2> SUFFICES ASSUME NEW n \in Names, checks[n] \in 1..sawGen[p]
               PROVE  out[p][n] # Nothing /\ out[p][n].check = checks[n]
    BY DEF Covers
  <2>1. copy[p][n] = checks[n] /\ (out[p][n] # Nothing => out[p][n].check = copy[p][n])
    BY <1>1, <1>2 DEF ProbeOK
  <2> QED BY <1>2, <2>1
<1>5. RegistryTyped'
  BY <1>1, <1>2, <1>3, NoResultFacts DEF RegistryTyped, Loaded
<1>6. Covers(out[p], sawGen[p])' /\ Loaded(p)'
  BY <1>2, <1>3, <1>4 DEF Covers, Loaded
<1>7. SnapOK'
  BY <1>2, <1>3, <1>4 DEF SnapOK, Covers, Loaded
<1>8. ProbeOK(p)'
  BY <1>1, <1>2, <1>6 DEF RegistryTyped, ProbeOK
<1> QED BY <1>1, <1>2, <1>5, <1>7, <1>8, OthersOK DEF RegistryTyped

\* The inductive invariant of the registry holds in every reachable state.
THEOREM RegistryInvariance == RegistrySpec => []RegistryInv
<1>1. RegistryInv /\ [RegistryNext]_registryVars => RegistryInv'
  <2> SUFFICES ASSUME RegistryInv, [RegistryNext]_registryVars PROVE RegistryInv'
    OBVIOUS
  <2>1. CASE UNCHANGED registryVars
    BY <2>1 DEF registryVars, cacheVars, probeVars, RegistryInv, RegistryTyped, SnapOK, ProbeOK, Loaded, Covers
  <2>2. CASE RegistryNext
    BY <2>2, WriterInv, ComeAndGo, LockInv, EvaluateInv, StoreInv DEF RegistryNext, Progress
  <2> QED BY <2>1, <2>2
<1> QED BY <1>1, InitRegistry, PTL DEF RegistrySpec

\* statusFor answers from every check registered before the probe came, for any
\* checks, probes and evaluations in flight: gen is loaded before the map is copied,
\* and written after the map.
THEOREM ProbesSeeRegistrations == RegistrySpec => []ProbeSeesChecks
<1>1. RegistryInv => ProbeSeesChecks
  <2> SUFFICES ASSUME RegistryInv, NEW p \in Probers, NEW n \in Names,
                      at[p] = "answer", sawGen[p] # Nothing, checks[n] \in 1..began[p]
               PROVE  out[p][n] # Nothing /\ out[p][n].check = checks[n]
    BY DEF ProbeSeesChecks
  <2>1. Loaded(p) /\ Covers(out[p], sawGen[p]) /\ began[p] \in 0..MaxGen
    BY DEF RegistryInv, RegistryTyped, ProbeOK
  <2>2. checks[n] \in 1..sawGen[p]
    BY <2>1 DEF RegistryInv, RegistryTyped, Loaded
  <2> QED BY <2>1, <2>2 DEF Covers
<1> QED BY <1>1, RegistryInvariance, PTL
=============================================================================
