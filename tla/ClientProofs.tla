----------------------------- MODULE ClientProofs -----------------------------
(***************************************************************************)
(* Proofs about two clients of outside services: the connection pool of    *)
(* the Redis client, for any number of goroutines and any pool size, and   *)
(* the key set of the issuer, for any callers, kids, ages and sets.        *)
(***************************************************************************)
EXTENDS RespPool, KeySet, FiniteSetTheorems, TLAPS

\* A leaf that names no prover is tried with Zenon, then with SMT.
USE ZenonT(3), SMTT(30), ZenonT(20)

\* The connection pool.

Dialers == {p \in Procs : at[p] = "dial"}
Users == {p \in Procs : at[p] \in HasConn}

\* LiveCapped is not inductive: a goroutine that has decided to dial is already
\* committed to a socket, so it is counted with the open ones.
Capped ==
  /\ IsFiniteSet(open)
  /\ Cardinality(open) + Cardinality(Dialers) <= poolSize

\* Close is the only one to steal connections, and does it once.
StolenOnce == ~poolClosed => stolen = {}

PoolInv == PoolTypeOK /\ TokensExact /\ OneOwner /\ ParkedClean /\ StolenOnce /\ Capped

\* Sets of goroutines are finite.
LEMMA ProcSets ==
  ASSUME NEW S \in SUBSET Procs
  PROVE  IsFiniteSet(S) /\ Cardinality(S) \in Nat
BY PoolAssumption, FS_Subset, FS_CardinalityType

\* Adding a goroutine to a set.
LEMMA ProcJoins ==
  ASSUME NEW S \in SUBSET Procs, NEW p \in Procs, p \notin S
  PROVE  Cardinality(S \cup {p}) = Cardinality(S) + 1
BY ProcSets, FS_AddElement

\* Taking a goroutine out of a set.
LEMMA ProcLeaves ==
  ASSUME NEW S \in SUBSET Procs, NEW p \in S
  PROVE  Cardinality(S \ {p}) = Cardinality(S) - 1
BY ProcSets, FS_RemoveElement

\* Closing a socket raises no count.
LEMMA SocketLess ==
  ASSUME NEW S, IsFiniteSet(S), NEW c
  PROVE  /\ IsFiniteSet(S \ {c})
         /\ Cardinality(S \ {c}) <= Cardinality(S)
         /\ Cardinality(S \ {c}) \in Nat /\ Cardinality(S) \in Nat
<1>1. S \ {c} \in SUBSET S OBVIOUS
<1>2. IsFiniteSet(S \ {c}) /\ Cardinality(S \ {c}) <= Cardinality(S)
  BY <1>1, FS_Subset
<1> QED BY <1>2, FS_CardinalityType

\* A step of Next is one of its actions.
LEMMA NextCases ==
  ASSUME PoolNext
  PROVE  \/ \E p \in Procs : Do(p) \/ CancelDo(p) \/ Acquire(p) \/ Step(p)
         \/ ClosePool \/ CloseIdle \/ PeerDrops
BY DEF PoolNext

\* A new client has no sockets and no command under way.
LEMMA InitPoolInv == PoolInit => PoolInv
<1> SUFFICES ASSUME PoolInit PROVE PoolInv OBVIOUS
<1>1. PoolTypeOK
  <2>1. sem \in 0..poolSize
    BY PoolAssumption DEF PoolInit
  <2> QED BY <2>1, Zenon DEF PoolInit, PoolTypeOK, PoolPlaces
<1>2. Holders = {} /\ Dialers = {} /\ Out = {}
  BY DEF PoolInit, Holders, Dialers, Out, HasToken, HasConn, PoolPlaces
<1>3. TokensExact /\ Capped
  BY <1>2, FS_EmptySet, PoolAssumption DEF PoolInit, TokensExact, Capped
<1>4. OneOwner
  BY <1>2 DEF PoolInit, OneOwner, HasConn
<1> QED
  BY <1>1, <1>3, <1>4 DEF PoolInv, PoolInit, ParkedClean, StolenOnce

\* Type correctness, step by step.
LEMMA GoroutineTypes ==
  ASSUME PoolTypeOK, NEW p \in Procs, Do(p) \/ CancelDo(p) \/ Acquire(p) \/ Step(p),
         p \in Holders => sem > 0, at[p] \in HasConn => held[p] \in Conns
  PROVE  PoolTypeOK'
<1> USE PoolAssumption DEF PoolTypeOK, PoolPlaces
<1>1. CASE Do(p) BY <1>1 DEF Do, Move, poolVars, sockVars
<1>2. CASE CancelDo(p) BY <1>2 DEF CancelDo, poolVars, sockVars
<1>3. CASE Acquire(p) BY <1>3 DEF Acquire, Move, sockVars
<1>4. CASE Step(p)
  <2> USE DEF Move, poolVars, sockVars
  <2>1. CASE LeaveQueue(p) BY <2>1 DEF LeaveQueue, LeaveDo
  <2>2. CASE RefuseClosed(p) BY <2>2 DEF RefuseClosed
  <2>3. CASE Reuse(p) BY <2>3 DEF Reuse
  <2>4. CASE StartDial(p) BY <2>4 DEF StartDial
  <2>5. CASE DialFails(p) BY <2>5 DEF DialFails
  <2>6. CASE Connect(p) BY <2>6 DEF Connect
  <2>7. CASE Handshake(p) BY <2>7 DEF Handshake, Mark, HasConn
  <2>8. CASE Clean(p) BY <2>8 DEF Clean, Mark, HasConn
  <2>9. CASE Broken(p) BY <2>9 DEF Broken, Mark, HasConn
  <2>10. CASE TimedOut(p) BY <2>10 DEF TimedOut, Mark, HasConn
  <2>11. CASE Keep(p) BY <2>11 DEF Keep, HasConn
  <2>12. CASE Reject(p) BY <2>12 DEF Reject
  <2>13. CASE DiscardConn(p) BY <2>13 DEF DiscardConn, Shut
  <2>14. CASE Release(p)
    <3>1. sem' \in 0..poolSize
      BY <2>14 DEF Release, Holders, HasToken
    <3>2. UNCHANGED <<held, poolSize, idle, poolClosed, stolen, open, dead, marked>>
      BY <2>14 DEF Release
    <3>3. /\ at' \in [Procs -> PoolPlaces] /\ doCtx' \in [Procs -> {"live", "done"}]
          /\ fromIdle' \in [Procs -> BOOLEAN] /\ again' \in [Procs -> BOOLEAN]
          /\ second' \in [Procs -> BOOLEAN]
      BY <2>14, Zenon DEF Release, LeaveDo
    <3> QED BY <3>1, <3>2, <3>3
  <2> QED
    BY <1>4, <2>1, <2>2, <2>3, <2>4, <2>5, <2>6, <2>7, <2>8, <2>9, <2>10,
       <2>11, <2>12, <2>13, <2>14 DEF Step
<1> QED BY <1>1, <1>2, <1>3, <1>4

\* Which goroutines have a socket is all that matters for Out.
LEMMA OutSame ==
  ASSUME at' \in [Procs -> PoolPlaces], at \in [Procs -> PoolPlaces], held' = held,
         \A q \in Procs : at'[q] \in HasConn <=> at[q] \in HasConn
  PROVE  Out' = Out
BY DEF Out

\* The exclusive owner survives the steps of getConn, dial and putConn.
LEMMA GoroutineOwner ==
  ASSUME PoolTypeOK, PoolTypeOK', OneOwner, StolenOnce, NEW p \in Procs,
         Do(p) \/ CancelDo(p) \/ Acquire(p) \/ Step(p)
  PROVE  OneOwner' /\ StolenOnce'
<1>0. StolenOnce' /\ stolen' = stolen
  BY DEF StolenOnce, Do, CancelDo, Acquire, Step, LeaveQueue, RefuseClosed, Reuse, StartDial,
     DialFails, Connect, Handshake, Clean, Broken, TimedOut, Keep, Reject, DiscardConn,
     Release, poolVars
<1> SUFFICES OneOwner'
  BY <1>0
<1>1. ASSUME held' = held, idle' = idle, open' = open,
             \A q \in Procs : at'[q] \in HasConn <=> at[q] \in HasConn
      PROVE  OneOwner'
  <2>1. Out' = Out BY <1>1, OutSame DEF PoolTypeOK
  <2> QED BY <1>0, <1>1, <2>1 DEF OneOwner
<1> USE DEF Move, HasConn, PoolTypeOK, poolVars, sockVars
<1>2. CASE Do(p) BY <1>1, <1>2 DEF Do
<1>3. CASE CancelDo(p) BY <1>1, <1>3 DEF CancelDo
<1>4. CASE Acquire(p) BY <1>1, <1>4 DEF Acquire
<1>5. CASE Step(p)
  <2>1. CASE LeaveQueue(p) BY <1>1, <2>1 DEF LeaveQueue, LeaveDo
  <2>2. CASE RefuseClosed(p) BY <1>1, <2>2 DEF RefuseClosed
  <2>4. CASE StartDial(p) BY <1>1, <2>4 DEF StartDial
  <2>5. CASE DialFails(p) BY <1>1, <2>5 DEF DialFails
  <2>7. CASE Handshake(p) BY <1>1, <2>7 DEF Handshake
  <2>8. CASE Clean(p) BY <1>1, <2>8 DEF Clean
  <2>9. CASE Broken(p) BY <1>1, <2>9 DEF Broken
  <2>10. CASE TimedOut(p) BY <1>1, <2>10 DEF TimedOut
  <2>12. CASE Reject(p) BY <1>1, <2>12 DEF Reject
  <2>14. CASE Release(p) BY <1>1, <2>14 DEF Release, LeaveDo
  <2>3. CASE Reuse(p)
    <3>1. PICK c \in idle : held' = [held EXCEPT ![p] = c] /\ idle' = idle \ {c}
      BY <2>3 DEF Reuse
    <3>2. c \in Conns /\ c # NoConn /\ c \notin Out /\ c \notin stolen
      BY PoolAssumption DEF OneOwner
    <3>3. Out' = Out \cup {c}
      BY <2>3, <3>1 DEF Out, Reuse, OneOwner
    <3> QED BY <1>0, <2>3, <3>1, <3>2, <3>3 DEF Reuse, OneOwner, Out
  <2>6. CASE Connect(p)
    <3>1. PICK c \in Conns \ open : held' = [held EXCEPT ![p] = c] /\ open' = open \cup {c}
      BY <2>6 DEF Connect
    <3>2. c # NoConn /\ c \notin Out /\ c \notin stolen /\ c \notin idle
      BY PoolAssumption DEF OneOwner
    <3>3. Out' = Out \cup {c}
      BY <2>6, <3>1 DEF Out, Connect, OneOwner
    <3> QED BY <1>0, <2>6, <3>1, <3>2, <3>3 DEF Connect, OneOwner, Out
  <2>11. CASE Keep(p)
    <3>1. held[p] \in Out /\ held[p] # NoConn
      BY <2>11 DEF Keep, OneOwner, Out
    <3>2. Out' = Out \ {held[p]}
      BY <2>11, <3>1 DEF Out, Keep, OneOwner
    <3> QED BY <1>0, <2>11, <3>1, <3>2 DEF Keep, OneOwner
  <2>13. CASE DiscardConn(p)
    <3>1. held[p] \in Out /\ held[p] # NoConn
      BY <2>13 DEF DiscardConn, OneOwner, Out
    <3>2. Out' = Out \ {held[p]}
      BY <2>13, <3>1 DEF Out, DiscardConn, OneOwner
    <3> QED BY <1>0, <2>13, <3>1, <3>2 DEF DiscardConn, Shut, OneOwner
  <2> QED
    BY <1>5, <2>1, <2>2, <2>3, <2>4, <2>5, <2>6, <2>7, <2>8, <2>9, <2>10,
       <2>11, <2>12, <2>13, <2>14 DEF Step
<1> QED BY <1>2, <1>3, <1>4, <1>5

\* A token is taken on the way into getConn and given back on every way out.
LEMMA GoroutineTokens ==
  ASSUME PoolTypeOK, PoolTypeOK', TokensExact, NEW p \in Procs,
         Do(p) \/ CancelDo(p) \/ Acquire(p) \/ Step(p)
  PROVE  TokensExact'
<1>0. Holders \in SUBSET Procs BY DEF Holders
<1>1. CASE Acquire(p)
  <2>1. Holders' = Holders \cup {p} /\ p \notin Holders
    BY <1>1 DEF Holders, Acquire, Move, HasToken, PoolPlaces, PoolTypeOK
  <2> QED BY <1>0, <1>1, <2>1, ProcJoins DEF TokensExact, Acquire
<1>2. CASE Release(p)
  <2>1. Holders' = Holders \ {p} /\ p \in Holders
    BY <1>2 DEF Holders, Release, LeaveDo, Move, HasToken, PoolPlaces, PoolTypeOK
  <2> QED BY <1>0, <1>2, <2>1, ProcLeaves DEF TokensExact, Release
<1>3. CASE Do(p) \/ CancelDo(p) \/ (Step(p) /\ ~Release(p))
  <2>1. sem' = sem
    BY <1>3 DEF Do, CancelDo, Step, LeaveQueue, RefuseClosed, Reuse, StartDial, DialFails,
       Connect, Handshake, Clean, Broken, TimedOut, Keep, Reject, DiscardConn, poolVars
  <2>2. Holders' = Holders
    BY <1>3 DEF Holders, HasToken, PoolPlaces, PoolTypeOK, Move, Do, CancelDo, Step, LeaveQueue,
       RefuseClosed, Reuse, StartDial, DialFails, Connect, Handshake, Clean, Broken,
       TimedOut, Keep, Reject, DiscardConn, LeaveDo
  <2> QED BY <2>1, <2>2 DEF TokensExact
<1> QED BY <1>1, <1>2, <1>3

\* The heart of the cap: with the idle list empty and the client not closed,
\* every open socket and every dialling goroutine stands for a token holder
\* other than the one that is about to dial.
LEMMA RoomToDial ==
  ASSUME PoolInv, NEW p \in Procs, StartDial(p)
  PROVE  Cardinality(open) + Cardinality(Dialers) < poolSize
<1> DEFINE Others == Holders \ {p}
           f == [q \in Users |-> held[q]]
<1>1. open = Out
  BY DEF PoolInv, OneOwner, StolenOnce, StartDial
<1>2. Users \in SUBSET Procs /\ Dialers \in SUBSET Procs /\ Holders \in SUBSET Procs
  BY DEF Users, Dialers, Holders
<1>3. f \in Surjection(Users, Out)
  BY DEF Surjection, Users, Out
<1>4. Cardinality(open) <= Cardinality(Users)
  BY <1>1, <1>2, <1>3, ProcSets, FS_Surjection
<1>5. Users \cap Dialers = {} /\ Users \cup Dialers \in SUBSET Others
  BY DEF Users, Dialers, Holders, HasConn, HasToken, PoolPlaces, StartDial
<1>6. Cardinality(Users \cup Dialers) = Cardinality(Users) + Cardinality(Dialers)
  <2>1. IsFiniteSet(Users) /\ IsFiniteSet(Dialers)
    BY <1>2, ProcSets
  <2>2. Cardinality(Users) \in Nat /\ Cardinality(Dialers) \in Nat
    BY <1>2, ProcSets
  <2>3. Cardinality(Users \cap Dialers) = 0
    BY <1>5, FS_EmptySet
  <2>4. Cardinality(Users \cup Dialers)
          = Cardinality(Users) + Cardinality(Dialers) - Cardinality(Users \cap Dialers)
    BY <2>1, FS_Union
  <2> QED BY <2>2, <2>3, <2>4
<1>7. Cardinality(Users \cup Dialers) <= Cardinality(Others)
  BY <1>2, <1>5, ProcSets, FS_Subset
<1>8. p \in Holders
  BY DEF Holders, HasToken, PoolPlaces, StartDial
<1>9. Cardinality(Others) = sem - 1
  BY <1>2, <1>8, ProcLeaves DEF PoolInv, TokensExact
<1>10. /\ Cardinality(Users) \in Nat /\ Cardinality(Dialers) \in Nat
       /\ Cardinality(open) \in Nat
  BY <1>2, ProcSets, FS_CardinalityType DEF PoolInv, Capped
<1> QED
  BY <1>4, <1>6, <1>7, <1>9, <1>10, PoolAssumption DEF PoolInv, PoolTypeOK

\* The cap survives the steps of a goroutine.
LEMMA GoroutineCap ==
  ASSUME PoolInv, PoolTypeOK', NEW p \in Procs, Do(p) \/ CancelDo(p) \/ Acquire(p) \/ Step(p)
  PROVE  Capped'
<1> DEFINE d == Cardinality(Dialers)
           o == Cardinality(open)
<1>1. /\ IsFiniteSet(open) /\ o \in Nat /\ d \in Nat /\ o + d <= poolSize
      /\ Dialers \in SUBSET Procs /\ poolSize \in Nat /\ poolSize' = poolSize
  <2>1. poolSize' = poolSize
    BY DEF Do, CancelDo, Acquire, Step, LeaveQueue, RefuseClosed, Reuse, StartDial, DialFails,
       Connect, Handshake, Clean, Broken, TimedOut, Keep, Reject, DiscardConn, Release, poolVars
  <2> QED
    BY <2>1, ProcSets, FS_CardinalityType, PoolAssumption
    DEF PoolInv, PoolTypeOK, Capped, Dialers
<1>2. CASE StartDial(p)
  <2>1. Dialers' = Dialers \cup {p} /\ p \notin Dialers /\ open' = open
    BY <1>2 DEF Dialers, StartDial, Move, PoolInv, PoolTypeOK, sockVars
  <2>2. Cardinality(Dialers') = d + 1 BY <1>1, <2>1, ProcJoins
  <2> QED BY <1>1, <1>2, <2>1, <2>2, RoomToDial DEF Capped
<1>3. CASE Connect(p)
  <2>1. PICK c \in Conns \ open : open' = open \cup {c}
    BY <1>3 DEF Connect
  <2>2. Dialers' = Dialers \ {p} /\ p \in Dialers
    BY <1>3 DEF Dialers, Connect, Move, PoolInv, PoolTypeOK
  <2>3. Cardinality(Dialers') = d - 1 BY <1>1, <2>2, ProcLeaves
  <2>4. IsFiniteSet(open') /\ Cardinality(open') = o + 1
    BY <1>1, <2>1, FS_AddElement
  <2> QED BY <1>1, <2>3, <2>4 DEF Capped
<1>4. CASE DialFails(p)
  <2>1. Dialers' = Dialers \ {p} /\ p \in Dialers /\ open' = open
    BY <1>4 DEF Dialers, DialFails, Move, PoolInv, PoolTypeOK, sockVars
  <2>2. Cardinality(Dialers') = d - 1 BY <1>1, <2>1, ProcLeaves
  <2> QED BY <1>1, <2>1, <2>2 DEF Capped
<1>5. CASE DiscardConn(p)
  <2>1. Dialers' = Dialers /\ open' = open \ {held[p]}
    BY <1>5 DEF Dialers, DiscardConn, Shut, Move, PoolInv, PoolTypeOK
  <2>2. IsFiniteSet(open') /\ Cardinality(open') <= o /\ Cardinality(open') \in Nat
    BY <1>1, <2>1, SocketLess
  <2> QED BY <1>1, <2>1, <2>2 DEF Capped
<1>6. CASE \/ Do(p) \/ CancelDo(p) \/ Acquire(p) \/ LeaveQueue(p) \/ RefuseClosed(p) \/ Reuse(p)
           \/ Handshake(p) \/ Clean(p) \/ Broken(p) \/ TimedOut(p) \/ Keep(p) \/ Reject(p)
           \/ Release(p)
  <2>0. at \in [Procs -> PoolPlaces] BY DEF PoolInv, PoolTypeOK
  <2>1. Dialers' = Dialers
    <3>1. ASSUME NEW x \in PoolPlaces \ {"dial"}, at[p] # "dial", Move(p, x)
          PROVE  Dialers' = Dialers
      BY <2>0, <3>1 DEF Dialers, Move
    <3>2. CASE CancelDo(p)
      BY <3>2 DEF CancelDo, Dialers
    <3>3. CASE Do(p) \/ Acquire(p) \/ LeaveQueue(p) \/ RefuseClosed(p) \/ Reuse(p)
      BY <3>1, <3>3 DEF PoolPlaces, Do, Acquire, LeaveQueue, LeaveDo, RefuseClosed, Reuse
    <3>4. CASE Handshake(p) \/ Clean(p) \/ Broken(p) \/ TimedOut(p)
      BY <3>1, <3>4 DEF PoolPlaces, Handshake, Clean, Broken, TimedOut
    <3>5. CASE Keep(p) \/ Reject(p) \/ Release(p)
      BY <3>1, <3>5 DEF PoolPlaces, Keep, Reject, Release, LeaveDo
    <3> QED BY <1>6, <3>2, <3>3, <3>4, <3>5
  <2>2. open' = open
    BY <1>6 DEF sockVars, Do, CancelDo, Acquire, LeaveQueue, RefuseClosed, Reuse, Handshake,
       Clean, Broken, TimedOut, Keep, Reject, Release
  <2> QED BY <1>1, <2>1, <2>2 DEF Capped
<1> QED BY <1>2, <1>3, <1>4, <1>5, <1>6 DEF Step

\* Nothing tainted is parked, and nothing at all once closed.
LEMMA GoroutineParks ==
  ASSUME PoolInv, NEW p \in Procs, Do(p) \/ CancelDo(p) \/ Acquire(p) \/ Step(p)
  PROVE  ParkedClean'
<1>0. ParkedClean /\ (at[p] \in HasConn => held[p] \notin idle)
  BY DEF PoolInv, OneOwner, Out
<1>1. CASE Reuse(p)
  BY <1>0, <1>1 DEF ParkedClean, Reuse, sockVars
<1>2. CASE Keep(p)
  BY <1>0, <1>2 DEF ParkedClean, Keep, sockVars
<1>3. CASE Handshake(p) \/ Clean(p) \/ Broken(p) \/ TimedOut(p)
  BY <1>0, <1>3 DEF ParkedClean, Handshake, Clean, Broken, TimedOut, Mark, HasConn, poolVars
<1>4. CASE DiscardConn(p)
  BY <1>0, <1>4 DEF ParkedClean, DiscardConn, Shut, poolVars
<1>5. CASE \/ Do(p) \/ CancelDo(p) \/ Acquire(p) \/ LeaveQueue(p) \/ RefuseClosed(p) \/ StartDial(p)
           \/ DialFails(p) \/ Connect(p) \/ Reject(p) \/ Release(p)
  BY <1>0, <1>5 DEF ParkedClean, Do, CancelDo, Acquire, LeaveQueue, RefuseClosed, StartDial,
     DialFails, Connect, Reject, Release, poolVars, sockVars
<1> QED BY <1>1, <1>2, <1>3, <1>4, <1>5 DEF Step

\* Close and the peer.
LEMMA OthersPoolInv ==
  ASSUME PoolInv, ClosePool \/ CloseIdle \/ PeerDrops
  PROVE  PoolInv'
<1>0. UNCHANGED <<at, held, poolSize, sem>>
  BY DEF ClosePool, CloseIdle, PeerDrops, procVars, poolVars
<1>1. Holders' = Holders /\ Dialers' = Dialers /\ Out' = Out
  BY <1>0 DEF Holders, Dialers, Out
<1>2. TokensExact'
  BY <1>0, <1>1 DEF PoolInv, TokensExact
<1>3. CASE ClosePool
  <2>1. PoolTypeOK' BY <1>3 DEF PoolInv, PoolTypeOK, ClosePool, procVars, sockVars
  <2>2. OneOwner' /\ ParkedClean' /\ StolenOnce'
    BY <1>1, <1>3 DEF PoolInv, OneOwner, ParkedClean, StolenOnce, ClosePool, procVars, sockVars
  <2>3. Capped' BY <1>0, <1>1, <1>3 DEF PoolInv, Capped, ClosePool, sockVars
  <2> QED BY <1>2, <2>1, <2>2, <2>3 DEF PoolInv
<1>4. CASE CloseIdle
  <2>0. PICK c \in stolen : Shut({c}) /\ stolen' = stolen \ {c}
    BY <1>4 DEF CloseIdle
  <2>1. PoolTypeOK' BY <1>4, <2>0 DEF PoolInv, PoolTypeOK, CloseIdle, Shut, procVars
  <2>2. OneOwner' /\ ParkedClean' /\ StolenOnce'
    BY <1>1, <1>4, <2>0 DEF PoolInv, OneOwner, ParkedClean, StolenOnce, CloseIdle, Shut, procVars
  <2>3. IsFiniteSet(open') /\ Cardinality(open') <= Cardinality(open)
        /\ Cardinality(open') \in Nat /\ Cardinality(open) \in Nat
    BY <2>0, SocketLess DEF Shut, PoolInv, Capped
  <2>4. Cardinality(Dialers) \in Nat
    BY ProcSets DEF Dialers
  <2>5. Capped'
    BY <1>0, <1>1, <2>3, <2>4, PoolAssumption DEF PoolInv, PoolTypeOK, Capped
  <2> QED BY <1>2, <2>1, <2>2, <2>5 DEF PoolInv
<1>5. CASE PeerDrops
  <2>1. PoolTypeOK' BY <1>5 DEF PoolInv, PoolTypeOK, PeerDrops, procVars, poolVars
  <2>2. OneOwner' /\ ParkedClean' /\ StolenOnce'
    BY <1>1, <1>5 DEF PoolInv, OneOwner, ParkedClean, StolenOnce, PeerDrops, procVars, poolVars
  <2>3. Capped' BY <1>0, <1>1, <1>5 DEF PoolInv, Capped, PeerDrops
  <2> QED BY <1>2, <2>1, <2>2, <2>3 DEF PoolInv
<1> QED BY <1>3, <1>4, <1>5

\* A goroutine's step preserves the whole invariant.
LEMMA GoroutinePoolInv ==
  ASSUME PoolInv, NEW p \in Procs, Do(p) \/ CancelDo(p) \/ Acquire(p) \/ Step(p)
  PROVE  PoolInv'
<1>1. p \in Holders => sem > 0
  <2>1. Holders \in SUBSET Procs BY DEF Holders
  <2>2. IsFiniteSet(Holders) /\ Cardinality(Holders) \in Nat BY <2>1, ProcSets
  <2> QED BY <2>2, FS_EmptySet DEF PoolInv, TokensExact
<1>2. at[p] \in HasConn => held[p] \in Conns
  BY DEF PoolInv, OneOwner, PoolTypeOK
<1>3. PoolTypeOK'
  BY <1>1, <1>2, GoroutineTypes DEF PoolInv
<1>4. OneOwner' /\ StolenOnce'
  BY <1>3, GoroutineOwner DEF PoolInv
<1>5. TokensExact'
  BY <1>3, GoroutineTokens DEF PoolInv
<1>6. Capped' BY <1>3, GoroutineCap
<1>7. ParkedClean' BY GoroutineParks
<1> QED BY <1>3, <1>4, <1>5, <1>6, <1>7 DEF PoolInv

\* The inductive invariant holds in every reachable state.
THEOREM PoolInvariance == PoolSpec => []PoolInv
<1>1. PoolInv /\ [PoolNext]_respVars => PoolInv'
  <2>1. ASSUME PoolInv, UNCHANGED respVars PROVE PoolInv'
    BY <2>1 DEF PoolInv, PoolTypeOK, TokensExact, OneOwner, ParkedClean, StolenOnce, Capped,
       Holders, Dialers, Out, respVars, procVars, poolVars, sockVars
  <2> QED
    BY <2>1, NextCases, GoroutinePoolInv, OthersPoolInv
<1> QED BY <1>1, InitPoolInv, PTL DEF PoolSpec

\* Tokens never leak, whatever way getConn, the command and Close interleave.
THEOREM TokensNeverLeak == PoolSpec => []TokensExact
<1>1. PoolInv => TokensExact BY DEF PoolInv
<1> QED BY <1>1, PoolInvariance, PTL

\* No socket is shared by two commands, and none is lost while open.
THEOREM ExclusiveOwner == PoolSpec => []OneOwner
<1>1. PoolInv => OneOwner BY DEF PoolInv
<1> QED BY <1>1, PoolInvariance, PTL

\* At most Options.PoolSize sockets are open, for every pool size and load.
THEOREM SocketsCapped == PoolSpec => []LiveCapped
<1>1. PoolInv => LiveCapped
  <2> SUFFICES ASSUME PoolInv PROVE LiveCapped OBVIOUS
  <2>1. Cardinality(open) \in Nat /\ Cardinality(Dialers) \in Nat
    BY ProcSets, FS_CardinalityType DEF PoolInv, Capped, Dialers
  <2> QED BY <2>1, PoolAssumption DEF PoolInv, PoolTypeOK, Capped, LiveCapped
<1> QED BY <1>1, PoolInvariance, PTL

\* A connection in the idle list carries no pending cancel hook.
THEOREM NothingTaintedParked == PoolSpec => []ParkedClean
<1>1. PoolInv => ParkedClean BY DEF PoolInv
<1> QED BY <1>1, PoolInvariance, PTL

-----------------------------------------------------------------------------
\* The key set.

\* Why at most one fetch is under way: a fetch is exactly as old as the last
\* claim of the gap, and it ends before the gap does.
ClaimHolds == \A p \in Callers : pc[p] = "fetch" => attemptAge = wait[p]

\* What a caller carries across the unlocked fetch is still true: the answer it
\* knew before, and an issuer's set no older than the one installed.
CarriedTrue ==
  /\ installed <= current
  /\ \A p \in Callers : pc[p] = "fetch" =>
       /\ had[p] <=> Lookup(installed, wanted[p])
       /\ got[p] # -1 => installed <= got[p] /\ got[p] <= current

KeySetInv == KeySetTypeOK /\ OneFetch /\ ClaimHolds /\ CarriedTrue

\* A new key set has one fetched set and nobody fetching.
LEMMA InitKeySetInv == KeySetInit => KeySetInv
<1> SUFFICES ASSUME KeySetInit PROVE KeySetInv OBVIOUS
<1> USE KeySetAssumption
<1>1. attemptAge \in 0..MinRefreshGap /\ fetchedAge \in 0..RefreshInterval
  BY DEF KeySetInit
<1>2. 0 \in Versions /\ 0 \in 0..FetchTimeout
  BY DEF Versions
<1>3. published \in [Versions -> SUBSET Kids]
  BY DEF KeySetInit, Sets
<1>4. had \in [Callers -> BOOLEAN] /\ reply \in [Callers -> BOOLEAN]
  BY Zenon DEF KeySetInit
<1>5. KeySetTypeOK
  BY <1>1, <1>2, <1>3, <1>4 DEF KeySetInit, KeySetTypeOK, Asked
<1>6. OneFetch /\ ClaimHolds /\ CarriedTrue
  BY DEF KeySetInit, OneFetch, ClaimHolds, CarriedTrue
<1> QED BY <1>5, <1>6 DEF KeySetInv

\* The answer of a lookup is a truth value.
LEMMA LookupBool == \A v \in Versions, kid \in Asked : Lookup(v, kid) \in BOOLEAN
<1> TAKE v \in Versions, kid \in Asked
<1>1. CASE kid = NoKid
  <2>1. Lookup(v, kid) = (Cardinality(published[v]) = 1)
    BY <1>1, Zenon DEF Lookup
  <2>2. (Cardinality(published[v]) = 1) \in BOOLEAN
    OBVIOUS
  <2> QED BY <2>1, <2>2, Zenon
<1>2. CASE kid # NoKid
  <2>1. Lookup(v, kid) = (kid \in published[v])
    BY <1>2, Zenon DEF Lookup
  <2>2. (kid \in published[v]) \in BOOLEAN
    OBVIOUS
  <2> QED BY <2>1, <2>2, Zenon
<1> QED BY <1>1, <1>2

\* An answer from the installed set.
LEMMA ServeKeySetInv ==
  ASSUME KeySetInv, NEW p \in Callers, NEW kid \in Asked, Serve(p, kid)
  PROVE  KeySetInv'
<1>1. KeySetTypeOK'
  BY KeySetAssumption, LookupBool DEF KeySetInv, KeySetTypeOK, Serve, Answer, issuerVars
<1>2. pc'[p] = "answered" /\ \A q \in Callers \ {p} : pc'[q] = pc[q] /\ wait'[q] = wait[q]
        /\ had'[q] = had[q] /\ got'[q] = got[q] /\ wanted'[q] = wanted[q]
  BY DEF KeySetInv, KeySetTypeOK, Serve, Answer
<1> QED
  BY <1>1, <1>2 DEF KeySetInv, OneFetch, ClaimHolds, CarriedTrue, Serve, Lookup, issuerVars

\* The claim is what excludes a second fetch.
LEMMA StartFetchKeySetInv ==
  ASSUME KeySetInv, NEW p \in Callers, NEW kid \in Asked, StartFetch(p, kid)
  PROVE  KeySetInv'
<1>1. KeySetTypeOK'
  BY KeySetAssumption, LookupBool DEF KeySetInv, KeySetTypeOK, StartFetch, issuerVars
<1>2. \A q \in Callers : pc[q] # "fetch"
  BY KeySetAssumption DEF KeySetInv, KeySetTypeOK, ClaimHolds, StartFetch
<1>3. pc'[p] = "fetch" /\ \A q \in Callers \ {p} : pc'[q] # "fetch"
  BY <1>2 DEF KeySetInv, KeySetTypeOK, StartFetch
<1>4. attemptAge' = 0 /\ wait'[p] = 0 /\ got'[p] = -1 /\ wanted'[p] = kid
      /\ installed' = installed /\ published' = published /\ current' = current
  BY DEF KeySetInv, KeySetTypeOK, StartFetch, issuerVars
<1>5. had'[p] = Lookup(installed, kid)
  BY DEF KeySetInv, KeySetTypeOK, StartFetch
<1>6. Lookup(installed, kid)' = Lookup(installed, kid)
  BY <1>4 DEF Lookup
<1>7. OneFetch' /\ ClaimHolds'
  BY <1>3, <1>4 DEF OneFetch, ClaimHolds
<1>8. CarriedTrue'
  BY <1>3, <1>4, <1>5, <1>6 DEF KeySetInv, CarriedTrue, Lookup
<1> QED BY <1>1, <1>7, <1>8 DEF KeySetInv

\* The issuer's answer, the swap, a failed fetch and the return.
LEMMA FetchStepsKeySetInv ==
  ASSUME KeySetInv, NEW p \in Callers,
         IssuerAnswers(p) \/ Swap(p) \/ Reread(p) \/ FetchFails(p) \/ Return(p)
  PROVE  KeySetInv'
<1> USE KeySetAssumption
<1>1. CASE IssuerAnswers(p)
  <2>1. KeySetTypeOK' BY <1>1 DEF KeySetInv, KeySetTypeOK, IssuerAnswers, issuerVars
  <2>2. OneFetch' /\ ClaimHolds'
    BY <1>1 DEF KeySetInv, OneFetch, ClaimHolds, IssuerAnswers
  <2>3. CarriedTrue'
    BY <1>1 DEF KeySetInv, KeySetTypeOK, Versions, CarriedTrue, Lookup, IssuerAnswers, issuerVars
  <2> QED BY <2>1, <2>2, <2>3 DEF KeySetInv
<1>2. CASE Swap(p)
  <2>1. KeySetTypeOK' BY <1>2 DEF KeySetInv, KeySetTypeOK, Swap, issuerVars
  <2>2. \A q \in Callers : pc'[q] # "fetch"
    BY <1>2 DEF KeySetInv, KeySetTypeOK, OneFetch, Swap
  <2>3. installed' <= current'
    BY <1>2 DEF KeySetInv, CarriedTrue, Swap, issuerVars
  <2> QED BY <2>1, <2>2, <2>3 DEF KeySetInv, OneFetch, ClaimHolds, CarriedTrue
<1>3. CASE Reread(p) \/ FetchFails(p) \/ Return(p)
  <2>0. installed \in Versions /\ wanted[p] \in Asked /\ had[p] \in BOOLEAN
    BY DEF KeySetInv, KeySetTypeOK
  <2>1. KeySetTypeOK'
    <3>1. CASE Reread(p)
      BY <2>0, <3>1, LookupBool DEF KeySetInv, KeySetTypeOK, Reread, Answer, issuerVars
    <3>2. CASE FetchFails(p)
      BY <2>0, <3>2 DEF KeySetInv, KeySetTypeOK, FetchFails, Answer, issuerVars
    <3>3. CASE Return(p)
      BY <3>3 DEF KeySetInv, KeySetTypeOK, Return, issuerVars, Asked
    <3> QED BY <1>3, <3>1, <3>2, <3>3
  <2>2. pc'[p] # "fetch" /\ \A q \in Callers \ {p} : pc'[q] = pc[q] /\ wait'[q] = wait[q]
        /\ had'[q] = had[q] /\ got'[q] = got[q] /\ wanted'[q] = wanted[q]
    BY <1>3 DEF KeySetInv, KeySetTypeOK, Reread, FetchFails, Return, Answer
  <2>3. UNCHANGED <<published, current, installed, attemptAge>>
    BY <1>3 DEF Reread, FetchFails, Return, issuerVars
  <2> QED
    BY <2>1, <2>2, <2>3 DEF KeySetInv, OneFetch, ClaimHolds, CarriedTrue, Lookup
<1> QED BY <1>1, <1>2, <1>3

\* The issuer publishes another set.
LEMMA RotateKeySetInv ==
  ASSUME KeySetInv, Rotate
  PROVE  KeySetInv'
<1> USE KeySetAssumption
<1>1. KeySetTypeOK'
  BY DEF KeySetInv, KeySetTypeOK, Rotate, Sets, Versions
<1>2. current' = current + 1 /\ installed' = installed /\ installed <= current
      /\ current \in Nat /\ installed \in Nat
  BY DEF KeySetInv, KeySetTypeOK, CarriedTrue, Rotate, Versions
<1>3. published'[installed] = published[installed]
  BY <1>2 DEF KeySetInv, KeySetTypeOK, Rotate, Versions
<1>4. CarriedTrue'
  BY <1>2, <1>3 DEF KeySetInv, KeySetTypeOK, CarriedTrue, Lookup, Rotate, Versions
<1> QED BY <1>1, <1>4 DEF KeySetInv, OneFetch, ClaimHolds, Rotate

\* Time passes, no fetch outliving its timeout.
LEMMA TickKeySetInv ==
  ASSUME KeySetInv, KeySetTick
  PROVE  KeySetInv'
<1> USE KeySetAssumption
<1>1. KeySetTypeOK'
  BY DEF KeySetInv, KeySetTypeOK, KeySetTick, Older, issuerVars
<1>2. ClaimHolds'
  BY DEF KeySetInv, KeySetTypeOK, ClaimHolds, KeySetTick, Older
<1> QED
  BY <1>1, <1>2 DEF KeySetInv, OneFetch, CarriedTrue, Lookup, KeySetTick, issuerVars

\* The inductive invariant holds in every reachable state.
THEOREM KeySetInvariance == KeySetSpec => []KeySetInv
<1>1. KeySetInv /\ [KeySetNext]_keySetVars => KeySetInv'
  <2>1. ASSUME KeySetInv, UNCHANGED keySetVars PROVE KeySetInv'
    BY <2>1 DEF KeySetInv, KeySetTypeOK, OneFetch, ClaimHolds, CarriedTrue, Lookup, keySetVars
  <2> QED
    BY <2>1, ServeKeySetInv, StartFetchKeySetInv, FetchStepsKeySetInv, RotateKeySetInv, TickKeySetInv DEF KeySetNext
<1> QED BY <1>1, InitKeySetInv, PTL DEF KeySetSpec

\* A burst of lookups costs one fetch at a time, for any number of callers.
THEOREM SingleFetch == KeySetSpec => []OneFetch
<1>1. KeySetInv => OneFetch BY DEF KeySetInv
<1> QED BY <1>1, KeySetInvariance, PTL

\* A late answer never brings back a set older than the one in use.
THEOREM SetsOnlyAdvance == KeySetSpec => NeverOlder
<1>1. KeySetInv /\ [KeySetNext]_keySetVars => [installed' >= installed]_keySetVars
  <2> SUFFICES ASSUME KeySetInv, KeySetNext PROVE installed' >= installed
    BY DEF keySetVars
  <2>0. installed \in Int BY KeySetAssumption DEF KeySetInv, KeySetTypeOK, Versions
  <2>1. CASE \E p \in Callers : Swap(p)
    BY <2>0, <2>1 DEF KeySetInv, KeySetTypeOK, CarriedTrue, Swap, Versions
  <2>2. CASE ~\E p \in Callers : Swap(p)
    <3>1. installed' = installed
      BY <2>2 DEF KeySetNext, Serve, StartFetch, IssuerAnswers, Reread, FetchFails, Return, Rotate, KeySetTick
    <3> QED BY <2>0, <3>1
  <2> QED BY <2>1, <2>2
<1> QED BY <1>1, KeySetInvariance, PTL DEF KeySetSpec, NeverOlder

\* Every answer of key() agrees with the set in use when it is given.
THEOREM AnswersAreCurrent == KeySetSpec => AnswerCurrent
<1> DEFINE A == \A p \in Callers :
                  pc[p] # "answered" /\ pc'[p] = "answered" =>
                    (reply'[p] <=> Lookup(installed, wanted'[p]))
<1>1. KeySetInv /\ [KeySetNext]_keySetVars => [A]_keySetVars
  <2> SUFFICES ASSUME KeySetInv, KeySetNext PROVE A
    OBVIOUS
  <2> SUFFICES ASSUME NEW p \in Callers, pc[p] # "answered", pc'[p] = "answered"
               PROVE  reply'[p] <=> Lookup(installed, wanted'[p])
    OBVIOUS
  <2>1. \/ \E kid \in Asked : Serve(p, kid)
        \/ Reread(p) \/ FetchFails(p)
    BY DEF KeySetInv, KeySetTypeOK, KeySetNext, Serve, StartFetch, IssuerAnswers, Swap, Reread, FetchFails,
           Return, Rotate, KeySetTick, Answer
  <2>2. CASE \E kid \in Asked : Serve(p, kid)
    BY <2>2 DEF KeySetInv, KeySetTypeOK, Serve, Answer
  <2>3. CASE Reread(p)
    BY <2>3 DEF KeySetInv, KeySetTypeOK, Reread, Answer
  <2>4. CASE FetchFails(p)
    BY <2>4 DEF KeySetInv, KeySetTypeOK, CarriedTrue, FetchFails, Answer
  <2> QED BY <2>1, <2>2, <2>3, <2>4
<1> QED BY <1>1, KeySetInvariance, PTL DEF KeySetSpec, AnswerCurrent
=============================================================================
