--------------------------- MODULE MessagingProofs ---------------------------
(***************************************************************************)
(* Proofs about the two message-queue clients: the life of one, for any    *)
(* subscriptions and closers, and the subjects and deliveries of the       *)
(* JetStream one, for any goroutines, subjects and messages.               *)
(***************************************************************************)
EXTENDS MQClient, JetStream, FiniteSetTheorems, TLAPS

\* A leaf that names no prover is tried with Zenon, then with SMT.
USE ZenonT(3), SMTT(30), ZenonT(20)

\* The life of a client.

\* The wait groups count what they are meant to count ...
CountsExact ==
  /\ wg = Cardinality(Watchers)
  /\ hwg = Cardinality(Running)

\* ... and the teardown belongs to a closed client, the connection closing last.
Phases ==
  /\ shutDown <=> teardown # "none"
  /\ natsConn = "closed" <=> teardown = "done"

\* A Subscribe under way has no watcher yet.
WatcherAfter == \A s \in Subs : subscribing[s] # "out" => watcher[s] = "none"

MQInv == MQTypeOK /\ WatcherAfter /\ CountsExact /\ Phases /\ ConnectionLast

\* Counting a set of subscriptions.
LEMMA SubSets ==
  ASSUME NEW S \in SUBSET Subs
  PROVE  /\ IsFiniteSet(S) /\ Cardinality(S) \in Nat
         /\ Cardinality(S) = 0 <=> S = {}
BY SubsAssumption, FS_Subset, FS_CardinalityType, FS_EmptySet

\* Adding a subscription to a set.
LEMMA SubJoins ==
  ASSUME NEW S \in SUBSET Subs, NEW s \in Subs, s \notin S
  PROVE  Cardinality(S \cup {s}) = Cardinality(S) + 1
BY SubSets, FS_AddElement

\* Taking a subscription out of a set.
LEMMA SubLeaves ==
  ASSUME NEW S \in SUBSET Subs, NEW s \in S
  PROVE  Cardinality(S \ {s}) = Cardinality(S) - 1
BY SubSets, FS_RemoveElement

\* A new client has no subscription and an open connection.
LEMMA InitMQInv == MQInit => MQInv
<1> SUFFICES ASSUME MQInit PROVE MQInv OBVIOUS
<1>1. reading \in [Subs -> BOOLEAN] /\ cancelled \in [Subs -> BOOLEAN]
  BY Zenon DEF MQInit
<1>2. MQTypeOK BY <1>1 DEF MQInit, MQTypeOK
<1>3. Watchers = {} /\ Running = {} BY DEF MQInit, Watchers, Running
<1> QED
  BY <1>2, <1>3, FS_EmptySet DEF MQInv, WatcherAfter, CountsExact, Phases, ConnectionLast, MQInit

\* Steps that neither start nor end a watcher or a handler.
LEMMA QuietMQInv ==
  ASSUME MQInv, MQTypeOK', WatcherAfter', UNCHANGED <<wg, hwg, shutDown, teardown, natsConn>>,
         Watchers' = Watchers, Running' = Running
  PROVE  MQInv'
BY DEF MQInv, CountsExact, Phases, ConnectionLast

\* Subscribe, its watcher and the callbacks.
LEMMA SubscriptionMQInv ==
  ASSUME MQInv, NEW s \in Subs,
         Subscribe(s) \/ Cancel(s) \/ Proceed(s) \/ Arrive(s) \/ RunHandler(s)
  PROVE  MQInv'
<1>0. /\ MQTypeOK /\ Watchers \in SUBSET Subs /\ Running \in SUBSET Subs
      /\ wg = Cardinality(Watchers) /\ hwg = Cardinality(Running)
      /\ wg \in Nat /\ hwg \in Nat
  BY DEF MQInv, MQTypeOK, CountsExact, Watchers, Running
<1>7. WatcherAfter'
  BY <1>0 DEF MQInv, WatcherAfter, MQTypeOK, Subscribe, Cancel, Proceed, Arrive, RunHandler, FlushFails,
     RegisterSub, LoseToClose, UnsubscribeLost, Wake, Unsubscribe, Forget, Invoke, Handled
<1>1. CASE \/ Subscribe(s) \/ FlushFails(s) \/ LoseToClose(s) \/ UnsubscribeLost(s) \/ Cancel(s)
           \/ Wake(s) \/ Unsubscribe(s) \/ Arrive(s) \/ (Invoke(s) /\ shutDown)
  <2>1. MQTypeOK'
    BY <1>0, <1>1, ZenonT(20) DEF MQTypeOK, Subscribe, FlushFails, LoseToClose, UnsubscribeLost, Cancel, Wake,
       Unsubscribe, Arrive, Invoke, closeVars
  <2>2. UNCHANGED <<wg, hwg, shutDown, teardown, natsConn>>
    BY <1>1 DEF Subscribe, FlushFails, LoseToClose, UnsubscribeLost, Cancel, Wake, Unsubscribe,
       Arrive, Invoke, closeVars
  <2>3. Watchers' = Watchers
    BY <1>0, <1>1 DEF MQTypeOK, Watchers, Subscribe, FlushFails, LoseToClose, UnsubscribeLost,
       Cancel, Wake, Unsubscribe, Arrive, Invoke
  <2>4. Running' = Running
    BY <1>0, <1>1 DEF MQTypeOK, Running, Subscribe, FlushFails, LoseToClose, UnsubscribeLost,
       Cancel, Wake, Unsubscribe, Arrive, Invoke
  <2> QED BY <1>7, <2>1, <2>2, <2>3, <2>4, QuietMQInv
<1>2. CASE RegisterSub(s)
  <2>1. MQTypeOK' BY <1>0, <1>2 DEF MQTypeOK, RegisterSub, closeVars
  <2>2. Watchers' = Watchers \cup {s} /\ s \notin Watchers
    BY <1>0, <1>2 DEF MQInv, WatcherAfter, MQTypeOK, Watchers, RegisterSub
  <2>3. Running' = Running BY <1>2 DEF Running, RegisterSub
  <2>4. CountsExact' BY <1>0, <1>2, <2>2, <2>3, SubJoins DEF CountsExact, RegisterSub
  <2>5. Phases' /\ ConnectionLast'
    BY <1>2, <2>3 DEF MQInv, Phases, ConnectionLast, RegisterSub, closeVars
  <2> QED BY <1>7, <2>1, <2>4, <2>5 DEF MQInv
<1>3. CASE Forget(s)
  <2>2. Watchers' = Watchers \ {s} /\ s \in Watchers
    BY <1>0, <1>3 DEF MQTypeOK, Watchers, Forget
  <2>3. Running' = Running BY <1>3 DEF Running, Forget
  <2>4. CountsExact' BY <1>0, <1>3, <2>2, <2>3, SubLeaves DEF CountsExact, Forget
  <2>5. wg' \in Nat BY <1>0, <2>2, <2>4, SubSets DEF CountsExact
  <2>1. MQTypeOK' BY <1>0, <1>3, <2>5 DEF MQTypeOK, Forget, closeVars
  <2>6. Phases' /\ ConnectionLast'
    BY <1>3, <2>2, <2>3 DEF MQInv, Phases, ConnectionLast, Forget, closeVars
  <2> QED BY <1>7, <2>1, <2>4, <2>6 DEF MQInv
<1>4. CASE Invoke(s) /\ ~shutDown
  <2>1. MQTypeOK' BY <1>0, <1>4 DEF MQTypeOK, Invoke, closeVars
  <2>2. Running' = Running \cup {s} /\ s \notin Running
    BY <1>0, <1>4 DEF MQTypeOK, Running, Invoke
  <2>3. Watchers' = Watchers BY <1>4 DEF Watchers, Invoke
  <2>4. CountsExact' BY <1>0, <1>4, <2>2, <2>3, SubJoins DEF CountsExact, Invoke
  <2>5. Phases' /\ ConnectionLast'
    BY <1>4, <2>3 DEF MQInv, Phases, ConnectionLast, Invoke, closeVars
  <2> QED BY <1>7, <2>1, <2>4, <2>5 DEF MQInv
<1>5. CASE Handled(s)
  <2>2. Running' = Running \ {s} /\ s \in Running
    BY <1>0, <1>5 DEF MQTypeOK, Running, Handled
  <2>3. Watchers' = Watchers BY <1>5 DEF Watchers, Handled
  <2>4. CountsExact' BY <1>0, <1>5, <2>2, <2>3, SubLeaves DEF CountsExact, Handled
  <2>5. hwg' \in Nat BY <1>0, <2>2, <2>4, SubSets DEF CountsExact
  <2>1. MQTypeOK' BY <1>0, <1>5, <2>5 DEF MQTypeOK, Handled, closeVars
  <2>6. Phases' /\ ConnectionLast'
    BY <1>5, <2>2, <2>3 DEF MQInv, Phases, ConnectionLast, Handled, closeVars
  <2> QED BY <1>7, <2>1, <2>4, <2>6 DEF MQInv
<1> QED BY <1>1, <1>2, <1>3, <1>4, <1>5 DEF Proceed, RunHandler

\* Close and its teardown: the two waits.
LEMMA CloseMQInv ==
  ASSUME MQInv, (\E k \in Closers : CloseClient(k) \/ CloseAgain(k) \/ CloseReturns(k)) \/ Teardown
  PROVE  MQInv'
<1>0. /\ UNCHANGED <<subscribing, watcher, cb, wg, hwg>>
      /\ Watchers' = Watchers /\ Running' = Running
  BY DEF CloseClient, CloseAgain, CloseReturns, Teardown, subVars, Watchers, Running
<1>1. WatcherAfter' /\ CountsExact'
  BY <1>0 DEF MQInv, WatcherAfter, CountsExact
<1>2. CASE \E k \in Closers : CloseAgain(k) \/ CloseReturns(k)
  <2>1. MQTypeOK' BY <1>2 DEF MQInv, MQTypeOK, CloseAgain, CloseReturns, subVars
  <2>2. UNCHANGED <<shutDown, teardown, natsConn>> BY <1>2 DEF CloseAgain, CloseReturns
  <2> QED BY <1>0, <1>1, <2>1, <2>2 DEF MQInv, Phases, ConnectionLast
<1>3. CASE \E k \in Closers : CloseClient(k)
  <2>1. PICK k \in Closers : CloseClient(k) BY <1>3
  <2>2. reading' \in [Subs -> BOOLEAN] BY <2>1 DEF MQInv, MQTypeOK, CloseClient
  <2>3. MQTypeOK' BY <2>1, <2>2 DEF MQInv, MQTypeOK, CloseClient
  <2>4. Phases' /\ ConnectionLast'
    BY <1>0, <2>1 DEF MQInv, MQTypeOK, Phases, ConnectionLast, CloseClient
  <2> QED BY <1>1, <2>3, <2>4 DEF MQInv
<1>4. CASE Teardown
  <2>1. MQTypeOK' BY <1>4 DEF MQInv, MQTypeOK, Teardown, subVars
  <2>2. (wg = 0 => Watchers = {}) /\ (hwg = 0 => Running = {})
    BY SubSets DEF MQInv, CountsExact, Watchers, Running
  <2>3. Phases' /\ ConnectionLast'
    BY <1>0, <1>4, <2>2 DEF MQInv, MQTypeOK, Phases, ConnectionLast, Teardown
  <2> QED BY <1>1, <2>1, <2>3 DEF MQInv
<1> QED BY <1>2, <1>3, <1>4

\* The inductive invariant holds in every reachable state.
THEOREM MQInvariance == MQSpec => []MQInv
<1>1. MQInv /\ [MQNext]_mqVars => MQInv'
  <2>1. ASSUME MQInv, UNCHANGED mqVars PROVE MQInv'
    BY <2>1 DEF MQInv, MQTypeOK, WatcherAfter, CountsExact, Phases, ConnectionLast, Watchers, Running,
       mqVars, subVars, closeVars
  <2> QED BY <2>1, SubscriptionMQInv, CloseMQInv DEF MQNext
<1> QED BY <1>1, InitMQInv, PTL DEF MQSpec

\* Whatever Subscribe, deliveries and Close do at the same time, the connection
\* is closed only after the last watcher and the last handler are gone, and no
\* handler starts after the wait for them.
THEOREM HandlersKeepConnection == MQSpec => []ConnectionLast
<1>1. MQInv => ConnectionLast BY DEF MQInv
<1> QED BY <1>1, MQInvariance, PTL

\* A step of a subscription touches no other reader, and hands its own over or stops
\* it: a watcher that is about to forget its reader has stopped it, for no Subscribe
\* of that subscription is under way.
LEMMA OwnershipKept ==
  ASSUME MQInv, ReadersOwned, [MQNext]_mqVars
  PROVE  ReadersOwned'
<1>0. MQTypeOK /\ WatcherAfter
  BY DEF MQInv
<1>1. ASSUME NEW s \in Subs,
             Subscribe(s) \/ Cancel(s) \/ Proceed(s) \/ Arrive(s) \/ RunHandler(s)
      PROVE  ReadersOwned'
  <2>1. ASSUME NEW r \in Subs \ {s}
        PROVE  reading'[r] = reading[r] /\ subscribing'[r] = subscribing[r] /\ watcher'[r] = watcher[r]
    BY <1>0, <1>1 DEF MQTypeOK, Subscribe, Cancel, Proceed, Arrive, RunHandler, FlushFails, RegisterSub,
       LoseToClose, UnsubscribeLost, Wake, Unsubscribe, Forget, Invoke, Handled
  <2>2. reading'[s] => subscribing'[s] # "out" \/ watcher'[s] \in {"waiting", "woken"}
    <3>1. reading[s] => subscribing[s] # "out" \/ watcher[s] \in {"waiting", "woken"}
      BY DEF ReadersOwned
    <3>2. CASE Subscribe(s) \/ Cancel(s) \/ FlushFails(s) \/ UnsubscribeLost(s)
      BY <1>0, <3>1, <3>2 DEF MQTypeOK, Subscribe, Cancel, FlushFails, UnsubscribeLost
    <3>3. CASE RegisterSub(s) \/ LoseToClose(s) \/ Wake(s)
      BY <1>0, <3>1, <3>3 DEF MQTypeOK, RegisterSub, LoseToClose, Wake
    <3>4. CASE Unsubscribe(s) \/ Arrive(s) \/ RunHandler(s)
      BY <1>0, <3>1, <3>4 DEF MQTypeOK, Unsubscribe, Arrive, RunHandler, Invoke, Handled
    <3>5. CASE Forget(s)
      <4>1. subscribing[s] = "out" /\ watcher[s] = "stopped" /\ reading' = reading
        BY <1>0, <3>5 DEF WatcherAfter, Forget
      <4> QED BY <3>1, <4>1
    <3> QED BY <1>1, <3>2, <3>3, <3>4, <3>5 DEF Proceed
  <2> QED BY <2>1, <2>2 DEF ReadersOwned
<1>2. ASSUME \/ \E k \in Closers : CloseClient(k) \/ CloseAgain(k) \/ CloseReturns(k)
             \/ Teardown
             \/ UNCHANGED mqVars
      PROVE  ReadersOwned'
  <2>1. /\ UNCHANGED <<subscribing, watcher>>
        /\ \A s \in Subs : reading'[s] => reading[s]
    BY <1>0, <1>2 DEF CloseClient, CloseAgain, CloseReturns, Teardown, mqVars, subVars
  <2> QED BY <2>1 DEF ReadersOwned
<1> QED BY <1>1, <1>2 DEF MQNext

\* No reader is left without somebody who will stop it, however Subscribe, its watcher
\* and Close interleave.
THEOREM NoReaderLeaks == MQSpec => []ReadersOwned
<1>1. MQInit => ReadersOwned
  BY DEF MQInit, ReadersOwned
<1> QED BY <1>1, OwnershipKept, MQInvariance, PTL DEF MQSpec

-----------------------------------------------------------------------------
\* Subjects and deliveries of JetStream.

\* Only a closed client has a closed connection: so a callback that finds one drops
\* its message, and a Subscribe that finds one does not register.
ClosedFirst == Clients \ conn \subseteq closed

\* A message that can be delivered has a delivery left.
DeliveriesLeft == \A m \in Messages : msg[m] \in {"unsent", "stored"} => count[m] < MaxDeliver

IInv == TypeOK /\ ClosedFirst /\ DeliveriesLeft /\ CloseReleases

USE ClientAssumption, DeliverAssumption, MembersAssumption

\* Nobody has subscribed and nothing is stored.
LEMMA InitIInv == Init => IInv
<1> SUFFICES ASSUME Init PROVE IInv OBVIOUS
<1>1. StreamTypeOK BY DEF Init, StreamInit, StreamTypeOK
<1>2. durable \in BOOLEAN BY DEF Init, DeliveryInit
<1>3. DeliveryTypeOK BY <1>2 DEF Init, DeliveryInit, DeliveryTypeOK
<1>4. TypeOK BY <1>1, <1>3 DEF TypeOK, Init
<1>5. CloseReleases BY DEF CloseReleases, Init, DeliveryInit, InFlight
<1> QED BY <1>4, <1>5 DEF IInv, ClosedFirst, DeliveriesLeft, Init, DeliveryInit

\* Publish and Subscribe on their way through ensureStream change no delivery.
LEMMA EnsureIInv ==
  ASSUME IInv, NEW p \in Procs,
         Call(p) \/ (EnsureStep(p) /\ UNCHANGED <<deliveryVars, troubles>>) \/ Disconnected(p)
  PROVE  IInv'
<1>1. /\ UNCHANGED <<deliveryVars, troubles>>
      /\ pc[p] \notin {"register", "stop"}
      /\ \A q \in Procs \ {p} : pc'[q] = pc[q]
  BY DEF IInv, TypeOK, StreamTypeOK, Call, EnsureStep, Disconnected, Begin, Lookup, Create,
         Relookup, MarkEnsured, ForgetStream, Errs, GoTo, RoundTrips
<1>2. Owner(p) \in Clients BY DEF Owner, Procs
<1>3. StreamTypeOK'
  BY <1>2 DEF IInv, TypeOK, StreamTypeOK, Call, EnsureStep, Disconnected, Begin, Lookup, Create,
              Relookup, MarkEnsured, ForgetStream, Errs, GoTo, Ensured
<1>4. TypeOK'
  BY <1>1, <1>3 DEF IInv, TypeOK, DeliveryTypeOK, deliveryVars, serverVars, clientVars
<1>5. CloseReleases'
  BY <1>1 DEF IInv, CloseReleases, InFlight, Procs, deliveryVars, serverVars, clientVars
<1> QED
  BY <1>1, <1>4, <1>5 DEF IInv, ClosedFirst, DeliveriesLeft, deliveryVars, serverVars, clientVars

\* The server stores a message, and gives it its first delivery.
LEMMA StoreKeeps ==
  ASSUME IInv, Store
  PROVE  /\ msg' \in [Messages -> {"unsent", "stored", "pending", "acked", "termed", "exhausted", "lost"}]
         /\ UNCHANGED <<durable, count>>
         /\ DeliveriesLeft'
BY DEF IInv, TypeOK, DeliveryTypeOK, DeliveriesLeft, Store

\* PublishMsg, and the round trips that fail.
LEMMA RoundTripIInv ==
  ASSUME IInv, NEW p \in Procs, Send(p) \/ Fault(p)
  PROVE  IInv'
<1>1. /\ UNCHANGED clientVars
      /\ pc[p] \notin {"register", "stop"}
      /\ \A q \in Procs \ {p} : pc'[q] = pc[q]
  BY DEF IInv, TypeOK, StreamTypeOK, Send, Fault, Errs, GoTo, RoundTrips
<1>2. StreamTypeOK'
  BY DEF IInv, TypeOK, StreamTypeOK, Send, Fault, Errs, GoTo
<1>3. /\ count' = count /\ DeliveriesLeft'
      /\ msg' \in [Messages -> {"unsent", "stored", "pending", "acked", "termed", "exhausted", "lost"}]
  BY StoreKeeps DEF IInv, TypeOK, DeliveryTypeOK, DeliveriesLeft, Send, Fault, serverVars
<1>4. durable' = durable \/ durable' = TRUE
  BY StoreKeeps DEF Send, Fault, serverVars
<1>5. durable' \in BOOLEAN BY <1>4, Zenon DEF IInv, TypeOK, DeliveryTypeOK
<1>6. troubles' \in 0..MaxTroubles BY DEF IInv, TypeOK, Send, Fault
<1>7. TypeOK'
  BY <1>1, <1>2, <1>3, <1>5, <1>6 DEF IInv, TypeOK, DeliveryTypeOK, clientVars
<1>8. CloseReleases'
  BY <1>1 DEF IInv, CloseReleases, InFlight, Procs, clientVars
<1> QED BY <1>1, <1>3, <1>7, <1>8 DEF IInv, ClosedFirst, clientVars

\* The rest of Subscribe: a ConsumeContext is started only on the way to its registration.
LEMMA SubscribeIInv ==
  ASSUME IInv, NEW c \in Clients, CreateConsumer(c) \/ Consume(c) \/ Register(c) \/ StopLate(c)
  PROVE  IInv'
<1>1. /\ UNCHANGED <<stream, ensured, msg, count, call, closed, conn, troubles>>
      /\ c \in Procs /\ c \in Members
  BY DEF CreateConsumer, Consume, Register, StopLate, serverVars, clientVars, Procs
<1>2. StreamTypeOK'
  BY <1>1 DEF IInv, TypeOK, StreamTypeOK, CreateConsumer, Consume, Register, StopLate, GoTo
<1>3. durable' = durable \/ durable' = TRUE
  BY DEF CreateConsumer, Consume, Register, StopLate, serverVars, IInv, TypeOK, StreamTypeOK
<1>4. durable' \in BOOLEAN BY <1>3, Zenon DEF IInv, TypeOK, DeliveryTypeOK
<1>5. TypeOK'
  <2>1. /\ consume' \in [Members -> {"none", "live", "dead"}]
        /\ watch' \subseteq Members
    BY <1>1
       DEF IInv, TypeOK, DeliveryTypeOK, CreateConsumer, Consume, Register, StopLate, Context,
           clientVars
  <2> QED BY <1>1, <1>2, <1>4, <2>1 DEF IInv, TypeOK, DeliveryTypeOK
<1>6. \A q \in Procs \ {c} : pc'[q] = pc[q]
  BY <1>1 DEF IInv, TypeOK, StreamTypeOK, CreateConsumer, Consume, Register, StopLate, GoTo
<1>7. \A d \in Clients \ {c} : consume'[d] = consume[d] /\ (d \in watch' <=> d \in watch)
  BY <1>1 DEF IInv, TypeOK, DeliveryTypeOK, CreateConsumer, Consume, Register, StopLate, Context, clientVars
<1>8. c \notin conn => InFlight(c)' = {} /\ c \notin watch'
  BY <1>1 DEF IInv, CloseReleases, ClosedFirst, InFlight, CreateConsumer, Consume, Register, StopLate, clientVars
<1>9. consume'[c] # "none" => pc'[c] \in {"register", "stop"} \/ c \in watch'
  BY <1>1 DEF IInv, TypeOK, StreamTypeOK, DeliveryTypeOK, CloseReleases, CreateConsumer, Consume,
              Register, StopLate, Context, GoTo, clientVars
<1>10. CloseReleases'
  BY <1>1, <1>6, <1>7, <1>8, <1>9 DEF IInv, CloseReleases, InFlight, Procs
<1> QED BY <1>1, <1>5, <1>10 DEF IInv, ClosedFirst, DeliveriesLeft

\* A delivery, from the server to its settlement.
LEMMA WorkIInv ==
  ASSUME IInv, NEW c \in Clients, NEW m \in Messages, Work(c, m),
         UNCHANGED <<streamVars, troubles>>
  PROVE  IInv'
<1>1. UNCHANGED <<durable, consume, watch, closed, conn, stream, ensured, pc, troubles>>
  BY DEF Work, Deliver, Callback, HandlerReturns, Settle, serverVars, streamVars
<1>2. c \in Members BY DEF IInv
<1>3. /\ call' \in [Members -> [Messages -> {"none", "queued", "running", "ok", "error", "invalid"}]]
      /\ \A d \in Members, k \in Messages : d # c \/ k # m => call'[d][k] = call[d][k]
  <2>1. PICK label \in {"none", "queued", "running", "ok", "error", "invalid"} :
          call' = [call EXCEPT ![c][m] = label]
    BY DEF Work, Deliver, Callback, HandlerReturns, Settle, Become
  <2> QED BY <1>2, <2>1 DEF IInv, TypeOK, DeliveryTypeOK
<1>4. Verdict(c, m) \in {"acked", "termed", "stored", "exhausted"} \/ call[c][m] \notin {"ok", "error", "invalid"}
  BY DEF Verdict, Requeue
<1>5. /\ msg' \in [Messages -> {"unsent", "stored", "pending", "acked", "termed", "exhausted", "lost"}]
      /\ count' \in [Messages -> 0..MaxDeliver]
  BY <1>4 DEF IInv, TypeOK, DeliveryTypeOK, DeliveriesLeft, Work, Deliver, Callback, HandlerReturns,
              Settle, serverVars
<1>6. TypeOK'
  BY <1>1, <1>3, <1>5 DEF IInv, TypeOK, StreamTypeOK, DeliveryTypeOK
<1>7. DeliveriesLeft'
  BY DEF IInv, TypeOK, DeliveryTypeOK, DeliveriesLeft, Work, Deliver, Callback, HandlerReturns,
         Settle, Verdict, Requeue, serverVars
<1>8. c \notin conn => call'[c][m] \notin {"running", "ok", "error", "invalid"}
  BY <1>2 DEF IInv, TypeOK, DeliveryTypeOK, CloseReleases, ClosedFirst, InFlight,
              Work, Deliver, Callback, HandlerReturns, Settle, Become
<1>9. CloseReleases'
  BY <1>1, <1>3, <1>8 DEF IInv, CloseReleases, InFlight
<1> QED BY <1>1, <1>6, <1>7, <1>9 DEF IInv, ClosedFirst

\* The watcher, Close and its teardown.
LEMMA CloseIInv ==
  ASSUME IInv, NEW c \in Clients, Watcher(c) \/ Close(c) \/ CloseConn(c),
         UNCHANGED <<streamVars, troubles>>
  PROVE  IInv'
<1>1. UNCHANGED <<serverVars, call, streamVars, troubles>> /\ c \in Members
  BY DEF Watcher, Close, CloseConn
<1>2. TypeOK'
  BY <1>1 DEF IInv, TypeOK, StreamTypeOK, DeliveryTypeOK, Watcher, Close, CloseConn, Context,
              serverVars, streamVars
<1>3. ClosedFirst' BY DEF IInv, ClosedFirst, Watcher, Close, CloseConn
<1>4. \A d \in Clients \ {c} :
        /\ consume'[d] = consume[d] /\ (d \in watch' <=> d \in watch) /\ (d \in conn' <=> d \in conn)
  BY DEF IInv, TypeOK, DeliveryTypeOK, Watcher, Close, CloseConn, Context
<1>5. c \notin conn' => InFlight(c)' = {} /\ c \notin watch'
  BY <1>1 DEF IInv, CloseReleases, InFlight, Watcher, Close, CloseConn
<1>6. consume'[c] # "none" => pc'[c] \in {"register", "stop"} \/ c \in watch'
  BY <1>1 DEF IInv, TypeOK, DeliveryTypeOK, CloseReleases, Watcher, Close, CloseConn, Context, streamVars
<1>7. CloseReleases'
  BY <1>1, <1>4, <1>5, <1>6 DEF IInv, CloseReleases, InFlight, streamVars
<1> QED BY <1>1, <1>2, <1>3, <1>7 DEF IInv, DeliveriesLeft, serverVars

\* What the broker does by itself.
LEMMA BrokerIInv ==
  ASSUME IInv,
         \/ \E m \in Messages : Expire(m)
         \/ Provide /\ UNCHANGED <<deliveryVars, troubles>>
         \/ Remove
  PROVE  IInv'
<1>1. UNCHANGED <<ensured, pc, count, watch, call, closed, conn>>
  BY DEF Expire, AckWait, Provide, Remove, streamVars, deliveryVars, serverVars, clientVars
<1>2. /\ msg' \in [Messages -> {"unsent", "stored", "pending", "acked", "termed", "exhausted", "lost"}]
      /\ \A m \in Messages : msg'[m] = msg[m] \/ msg'[m] \in {"lost", "exhausted"}
                                                \/ (msg'[m] = "stored" /\ count[m] < MaxDeliver)
  BY DEF IInv, TypeOK, DeliveryTypeOK, Expire, AckWait, Requeue, Provide, Remove, deliveryVars, serverVars
<1>3. durable' = durable \/ durable' = FALSE
  BY DEF Expire, AckWait, Provide, Remove, deliveryVars, serverVars
<1>4. durable' \in BOOLEAN BY <1>3, Zenon DEF IInv, TypeOK, DeliveryTypeOK
<1>5. /\ consume' \in [Members -> {"none", "live", "dead"}]
      /\ \A c \in Members : consume'[c] # "none" => consume[c] # "none"
  BY DEF IInv, TypeOK, DeliveryTypeOK, Expire, AckWait, Provide, Remove, deliveryVars, clientVars
<1>6. stream' \in {"absent", "covers", "foreign"} /\ troubles' \in 0..MaxTroubles
  BY DEF IInv, TypeOK, StreamTypeOK, Expire, Provide, Remove, streamVars
<1>7. TypeOK'
  BY <1>1, <1>2, <1>4, <1>5, <1>6 DEF IInv, TypeOK, StreamTypeOK, DeliveryTypeOK
<1>8. DeliveriesLeft' BY <1>1, <1>2 DEF IInv, DeliveriesLeft
<1>9. CloseReleases' BY <1>1, <1>5 DEF IInv, CloseReleases, InFlight
<1> QED BY <1>1, <1>7, <1>8, <1>9 DEF IInv, ClosedFirst

\* Every step keeps IInv.
LEMMA NextIInv == IInv /\ [Next]_vars => IInv'
<1> SUFFICES ASSUME IInv, [Next]_vars PROVE IInv' OBVIOUS
<1>1. ASSUME NEW p \in Procs, Call(p) \/ Step(p) \/ Fault(p) PROVE IInv'
  BY <1>1, EnsureIInv, RoundTripIInv, SubscribeIInv DEF Step
<1>2. ASSUME NEW c \in Clients, Served(c) PROVE IInv'
  BY <1>2, WorkIInv, CloseIInv DEF Served
<1>3. ASSUME NEW c \in Clients \ Stays, Close(c), UNCHANGED <<streamVars, troubles>> PROVE IInv'
  BY <1>3, CloseIInv
<1>4. CASE UNCHANGED vars
  BY <1>4 DEF IInv, TypeOK, StreamTypeOK, DeliveryTypeOK, ClosedFirst, DeliveriesLeft, CloseReleases,
              InFlight, vars, streamVars, deliveryVars, serverVars, clientVars
<1> QED BY <1>1, <1>2, <1>3, <1>4, BrokerIInv DEF Next

\* The inductive invariant holds throughout.
LEMMA Inductive == Spec => []IInv
BY InitIInv, NextIInv, PTL DEF Spec

\* Close of jetstream.go: the connection closes after the last handler and the last
\* watcher, and a Subscribe that races it leaves no ConsumeContext behind, for any
\* number of clients and messages and however often the stream is lost.
THEOREM CloseReleasesAll == Spec => []CloseReleases
<1>1. IInv => CloseReleases BY DEF IInv
<1> QED BY <1>1, Inductive, PTL

\* What one step does to a message.
Caused ==
  \A m \in Messages :
    /\ msg[m] \in {"acked", "termed"} => msg'[m] = msg[m]
    /\ msg'[m] # msg[m] =>
         /\ msg'[m] = "acked" => \E c \in Clients : call[c][m] = "ok"
         /\ msg'[m] = "termed" => \E c \in Clients : call[c][m] = "invalid"
         /\ msg'[m] = "exhausted" => count[m] = MaxDeliver

\* The server gives a message up after exactly MaxDeliver deliveries.
LEMMA GivenUp ==
  ASSUME IInv, NEW m \in Messages
  PROVE  Requeue(m) = "stored" \/ (Requeue(m) = "exhausted" /\ count[m] = MaxDeliver)
<1>1. count[m] \in 0..MaxDeliver BY DEF IInv, TypeOK, DeliveryTypeOK
<1>2. count[m] < MaxDeliver \/ count[m] = MaxDeliver BY <1>1
<1> QED BY <1>2 DEF Requeue

\* A step of a delivery settles only its own message, as its handler said.
LEMMA WorkCaused ==
  ASSUME IInv, NEW c \in Clients, NEW k \in Messages, Work(c, k)
  PROVE  Caused
<1>1. CASE Settle(c, k)
  <2>1. Verdict(c, k) = "acked" => call[c][k] = "ok"
    BY <1>1, GivenUp DEF Settle, Verdict
  <2>2. Verdict(c, k) = "termed" => call[c][k] = "invalid"
    BY <1>1, GivenUp DEF Settle, Verdict
  <2>3. Verdict(c, k) = "exhausted" => count[k] = MaxDeliver
    BY <1>1, GivenUp DEF Settle, Verdict
  <2>4. \/ msg' = msg
        \/ msg[k] \notin {"acked", "termed"} /\ msg' = [msg EXCEPT ![k] = Verdict(c, k)]
    BY <1>1 DEF Settle
  <2> QED BY <2>1, <2>2, <2>3, <2>4 DEF IInv, TypeOK, DeliveryTypeOK, Caused
<1>2. CASE Deliver(c, k)
  BY <1>2 DEF IInv, TypeOK, DeliveryTypeOK, Caused, Deliver
<1>3. CASE Callback(c, k) \/ HandlerReturns(c, k)
  BY <1>3 DEF Caused, Callback, HandlerReturns, serverVars
<1> QED BY <1>1, <1>2, <1>3 DEF Work

\* deliver and jsSettleFailed: a message leaves the group's consumer only because a
\* handler succeeded, because one called it invalid, or after MaxDeliver deliveries.
THEOREM SettlesForCause == Spec => SettledForCause
<1>1. IInv /\ [Next]_vars => [Caused]_vars
  <2> SUFFICES ASSUME IInv, Next PROVE Caused OBVIOUS
  <2>1. ASSUME Store PROVE Caused
    BY <2>1 DEF Caused, Store, IInv, TypeOK, DeliveryTypeOK
  <2>2. ASSUME NEW p \in Procs, Call(p) \/ Step(p) \/ Fault(p) PROVE Caused
    <3>1. Store \/ UNCHANGED msg
      BY <2>2 DEF Call, Step, Disconnected, CreateConsumer, Consume, Register, StopLate, Send,
                  Fault, deliveryVars, serverVars
    <3> QED BY <2>1, <3>1 DEF Caused
  <2>3. ASSUME NEW c \in Clients, Served(c) \/ Close(c) PROVE Caused
    <3>1. (\E m \in Messages : Work(c, m)) \/ UNCHANGED msg
      BY <2>3 DEF Served, Watcher, Close, CloseConn, serverVars
    <3> QED BY <3>1, WorkCaused DEF Caused
  <2>4. ASSUME NEW m \in Messages, Expire(m) PROVE Caused
    BY <2>4, GivenUp DEF Expire, AckWait, Caused, IInv, TypeOK, DeliveryTypeOK
  <2>5. CASE Provide /\ UNCHANGED <<deliveryVars, troubles>>
    BY <2>5 DEF Caused, deliveryVars, serverVars
  <2>6. CASE Remove
    BY <2>6 DEF Caused, Remove, IInv, TypeOK, DeliveryTypeOK
  <2> QED BY <2>2, <2>3, <2>4, <2>5, <2>6 DEF Next
<1> QED BY <1>1, Inductive, PTL DEF Spec, SettledForCause, Caused
=============================================================================
