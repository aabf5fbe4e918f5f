----------------------------- MODULE JetStream -----------------------------
(***************************************************************************)
(* mq/jetstream.go: Publish and Subscribe on top of ensureStream           *)
(* (JSStream), the deliveries their messages and ConsumeContexts lead to   *)
(* (JSDelivery), Close racing all of them, and a broker that loses the     *)
(* stream with its consumer, fails a round trip, or loses its answer.      *)
(***************************************************************************)
EXTENDS JSStream, JSDelivery

CONSTANTS
  Stays,            \* the clients that are never closed, with subscriptions never cancelled
  MaxTroubles       \* bound on removals of the stream and failed round trips

ASSUME MembersAssumption ==
  Members = Clients /\ Stays \subseteq Clients /\ MaxTroubles \in Nat

VARIABLE troubles

vars == <<streamVars, deliveryVars, troubles>>

Init == StreamInit /\ DeliveryInit /\ troubles = 0

\* A publisher publishes again and again.  A client has one subscription at a time:
\* the caller subscribes (again) when its ConsumeContext is stopped.
Call(p) ==
  /\ p \in Clients => consume[p] = "none" /\ p \notin watch
  /\ Begin(p)
  /\ UNCHANGED <<deliveryVars, troubles>>

EnsureStep(p) ==
  \/ MarkEnsured(p) \/ ForgetStream(p)
  \/ Owner(p) \in conn /\ (Lookup(p) \/ Create(p) \/ Relookup(p))

\* The server stores a message: one that is followed, or some other.  The consumer
\* starts at the tail of the stream (DeliverNewPolicy).
Store ==
  /\ \/ UNCHANGED msg
     \/ \E m \in Messages :
          msg[m] = "unsent" /\ msg' = [msg EXCEPT ![m] = IF durable THEN "stored" ELSE "lost"]
  /\ UNCHANGED <<durable, count>>

\* js.PublishMsg: the PubAck, or no stream answers for the subject.
Send(p) ==
  /\ pc[p] = "send" /\ Owner(p) \in conn
  /\ IF stream = "covers" THEN Store /\ GoTo(p, "stored") ELSE GoTo(p, "forget") /\ UNCHANGED serverVars
  /\ UNCHANGED <<stream, ensured, clientVars, troubles>>

\* js.CreateOrUpdateConsumer: the group's consumer exists from now on; or the stream
\* is gone; or it refuses a consumer for a subject that it does not have.
CreateConsumer(c) ==
  /\ pc[c] = "consumer" /\ c \in conn
  /\ CASE stream = "covers" -> durable' = TRUE /\ GoTo(c, "consume")
       [] stream = "absent" -> GoTo(c, "forget") /\ UNCHANGED durable
       [] stream = "foreign" -> GoTo(c, "idle") /\ UNCHANGED durable
  /\ UNCHANGED <<stream, ensured, msg, count, clientVars, troubles>>

\* cons.Consume asks for messages; the server may have ended the consumer by now.
Consume(c) ==
  /\ pc[c] = "consume" /\ c \in conn
  /\ \/ Context(c, "live")
     \/ ~durable /\ Context(c, "dead")
  /\ GoTo(c, "register")
  /\ UNCHANGED <<stream, ensured, serverVars, watch, call, closed, conn, troubles>>

\* Faulty variant: a Subscribe that loses against Close reports it, no more.
Register_Leaks(c) ==
  /\ pc[c] = "register"
  /\ IF c \in closed
     THEN GoTo(c, "idle") /\ UNCHANGED watch
     ELSE watch' = watch \cup {c} /\ GoTo(c, "idle")
  /\ UNCHANGED <<stream, ensured, serverVars, consume, call, closed, conn, troubles>>

\* Subscribe's end under mu, ...
Register(c) ==
  /\ pc[c] = "register"
  /\ IF c \in closed
     THEN GoTo(c, "stop") /\ UNCHANGED watch
     ELSE watch' = watch \cup {c} /\ GoTo(c, "idle")
  /\ UNCHANGED <<stream, ensured, serverVars, consume, call, closed, conn, troubles>>

\* ... and, of the loser against Close, after it: it stops what it started.
StopLate(c) ==
  /\ pc[c] = "stop"
  /\ Context(c, "none") /\ GoTo(c, "idle")
  /\ UNCHANGED <<stream, ensured, serverVars, watch, call, closed, conn, troubles>>

RoundTrips == {"lookup", "create", "relookup", "send", "consumer"}

\* A round trip on a connection that Close has closed.
Disconnected(p) ==
  /\ pc[p] \in RoundTrips \cup {"consume"} /\ Owner(p) \notin conn
  /\ Errs(p)
  /\ UNCHANGED <<deliveryVars, troubles>>

\* A round trip fails on its way to the server, or on its way back.
Fault(p) ==
  /\ pc[p] \in RoundTrips /\ Owner(p) \in conn /\ troubles < MaxTroubles
  /\ troubles' = troubles + 1
  /\ \/ Errs(p) /\ UNCHANGED serverVars
     \/ /\ pc[p] = "create" /\ stream = "absent" /\ stream' = "covers"
        /\ GoTo(p, "idle") /\ UNCHANGED <<ensured, serverVars>>
     \/ pc[p] = "send" /\ stream = "covers" /\ Store /\ Errs(p)
     \/ pc[p] = "consumer" /\ stream = "covers" /\ durable' = TRUE /\ Errs(p) /\ UNCHANGED <<msg, count>>
  /\ UNCHANGED clientVars

\* The broker loses the stream or an operator removes it: its messages and its consumer
\* go with it, and the ConsumeContexts are told, or (a restart) are not.
Remove ==
  /\ stream # "absent" /\ troubles < MaxTroubles
  /\ troubles' = troubles + 1
  /\ stream' = "absent" /\ durable' = FALSE
  /\ msg' = [m \in Messages |-> IF msg[m] \in {"stored", "pending"} THEN "lost" ELSE msg[m]]
  /\ \/ consume' = [c \in Members |-> IF consume[c] = "live" THEN "dead" ELSE consume[c]]
     \/ UNCHANGED consume
  /\ UNCHANGED <<ensured, pc, count, watch, call, closed, conn>>

\* What a goroutine that is inside Publish or Subscribe does next.
Step(p) ==
  \/ EnsureStep(p) /\ UNCHANGED <<deliveryVars, troubles>>
  \/ Disconnected(p)
  \/ IF p \in Clients THEN CreateConsumer(p) \/ Consume(p) \/ Register(p) \/ StopLate(p)
     ELSE Send(p)

Served(c) ==
  /\ (c \notin Stays /\ Watcher(c)) \/ CloseConn(c) \/ \E m \in Messages : Work(c, m)
  /\ UNCHANGED <<streamVars, troubles>>

Expire(m) == AckWait(m) /\ UNCHANGED <<streamVars, troubles>>

Next ==
  \/ \E p \in Procs : Call(p) \/ Step(p) \/ Fault(p)
  \/ \E c \in Clients : Served(c)
  \/ \E c \in Clients \ Stays : Close(c) /\ UNCHANGED <<streamVars, troubles>>
  \/ \E m \in Messages : Expire(m)
  \/ Provide /\ UNCHANGED <<deliveryVars, troubles>>
  \/ Remove

Spec == Init /\ [][Next]_vars

\* Publishers keep publishing and their round trips end; the server delivers to the
\* members that stay, their handlers return, and its timers fire.  Nobody has to
\* subscribe, cancel or close, and the other members need not make progress.
FairSpec ==
  /\ Spec
  /\ \A p \in Publishers : WF_vars(Call(p) \/ Step(p))
  /\ \A c \in Stays : WF_vars(Served(c))
  /\ \A m \in Messages : WF_vars(Expire(m))

-----------------------------------------------------------------------------
TypeOK ==
  /\ StreamTypeOK /\ DeliveryTypeOK
  /\ troubles \in 0..MaxTroubles

\* A removed stream is not a permanent outage (forgetStream): a publisher that keeps
\* trying is either told of a foreign stream or stores its messages again.
Heals ==
  \A p \in Publishers :
    ClientOf[p] \in Stays => []<>(pc[p] = "stored") \/ []<>(stream = "foreign")

\* A message is taken off the group's consumer only for a reason: acked while a member
\* has a handler that succeeded, terminated while one has called it invalid, given up
\* after MaxDeliver deliveries (deliver, jsSettleFailed); and it is never taken back.
SettledForCause ==
  [][\A m \in Messages :
       /\ msg[m] \in {"acked", "termed"} => msg'[m] = msg[m]
       /\ msg'[m] # msg[m] =>
            /\ msg'[m] = "acked" => \E c \in Clients : call[c][m] = "ok"
            /\ msg'[m] = "termed" => \E c \in Clients : call[c][m] = "invalid"
            /\ msg'[m] = "exhausted" => count[m] = MaxDeliver]_vars

\* "The connection closes last so a finishing handler's Ack can still reach the
\* server": on a closed connection no handler of the client runs or settles and no
\* watcher goroutine is left.  And Subscribe racing Close leaks no ConsumeContext: one
\* that is not stopped has a Subscribe that is yet to register or stop it, or a watcher.
CloseReleases ==
  \A c \in Clients :
    /\ c \notin conn => InFlight(c) = {} /\ c \notin watch
    /\ consume[c] # "none" => pc[c] \in {"register", "stop"} \/ c \in watch

\* At-least-once delivery: a message stored for the group is settled in the end, also
\* one that a closing member dropped or a handler keeps failing, unless the stream
\* loses it or no member that stays is subscribed.
AllSettled ==
  \A m \in Messages :
    msg[m] \in {"stored", "pending"} ~>
      \/ msg[m] \in {"acked", "termed", "exhausted", "lost"}
      \/ \A c \in Stays : consume[c] # "live"
=============================================================================
