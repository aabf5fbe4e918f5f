----------------------------- MODULE JSDelivery -----------------------------
(***************************************************************************)
(* Deliveries of mq/jetstream.go: the clients of one group share a durable *)
(* consumer; a client's ConsumeContext hands messages to deliver, which    *)
(* runs the handler and settles the message, unless the client is closed.  *)
(* The server's side (at most MaxDeliver deliveries, redelivery after      *)
(* AckWait or a Nak) is modelled from the consumer configuration that      *)
(* Subscribe passes.                                                       *)
(***************************************************************************)
EXTENDS Integers, FiniteSets

CONSTANTS
  Members,         \* the clients, all of one group
  Messages,        \* the messages that are followed
  MaxDeliver       \* jsMaxDeliver

ASSUME DeliverAssumption == MaxDeliver \in Nat \ {0}

VARIABLES
  durable,  \* server: whether the group's consumer exists
  msg,      \* server: "unsent", "stored", "pending" (delivered), "acked", "termed",
            \* "exhausted", "lost" (with the stream, or older than the consumer)
  count,    \* server: deliveries of each message
  consume,  \* each client's ConsumeContext: "none" or stopped, "live", or "dead" after
            \* the server has ended it
  watch,    \* clients whose subscription is registered: its watcher goroutine runs
  call,     \* each client's callback per message: "none", "queued", "running",
            \* or the handler's outcome "ok", "error", "invalid"
  closed, conn

serverVars == <<durable, msg, count>>
clientVars == <<consume, watch, call, closed, conn>>
deliveryVars == <<serverVars, clientVars>>

InFlight(c) == {m \in Messages : call[c][m] \in {"running", "ok", "error", "invalid"}}

DeliveryInit ==
  /\ durable = FALSE /\ msg = [m \in Messages |-> "unsent"] /\ count = [m \in Messages |-> 0]
  /\ consume = [c \in Members |-> "none"] /\ watch = {}
  /\ call = [c \in Members |-> [m \in Messages |-> "none"]]
  /\ closed = {} /\ conn = Members

Become(c, m, label) == call' = [call EXCEPT ![c][m] = label]
Context(c, label) == consume' = [consume EXCEPT ![c] = label]

\* Faulty variant: a consumer configured without MaxDeliver, which counts for nothing.
Deliver_Uncounted(c, m) ==
  /\ durable /\ c \in conn /\ consume[c] = "live"
  /\ msg[m] = "stored" /\ call[c][m] = "none"
  /\ msg' = [msg EXCEPT ![m] = "pending"]
  /\ Become(c, m, "queued")
  /\ UNCHANGED <<durable, count, consume, watch, closed, conn>>

\* The server delivers to a live ConsumeContext, one that Close has yet to meet included.
Deliver(c, m) ==
  /\ durable /\ c \in conn /\ consume[c] = "live"
  /\ msg[m] = "stored" /\ call[c][m] = "none"
  /\ msg' = [msg EXCEPT ![m] = "pending"]
  /\ count' = [count EXCEPT ![m] = @ + 1]
  /\ Become(c, m, "queued")
  /\ UNCHANGED <<durable, consume, watch, closed, conn>>

\* deliver's callback: a closed client drops the message un-acked, and so may a
\* stopped ConsumeContext before it calls back.
Callback(c, m) ==
  /\ call[c][m] = "queued"
  /\ \/ c \notin closed /\ Become(c, m, "running")
     \/ (c \in closed \/ consume[c] # "live") /\ Become(c, m, "none")
  /\ UNCHANGED <<serverVars, consume, watch, closed, conn>>

\* safeInvoke: the handler returns, a panic counting as an error.
HandlerReturns(c, m) ==
  /\ call[c][m] = "running"
  /\ \E outcome \in {"ok", "error", "invalid"} : Become(c, m, outcome)
  /\ UNCHANGED <<serverVars, consume, watch, closed, conn>>

\* What the server makes of a message that is to be delivered again.
Requeue(m) == IF count[m] < MaxDeliver THEN "stored" ELSE "exhausted"

\* Faulty variant: an error is acked like a success.
Verdict_AckAlways(c, m) == "acked"

Verdict(c, m) ==
  CASE call[c][m] = "ok" -> "acked"
    [] call[c][m] = "invalid" -> "termed"
    [] call[c][m] = "error" -> Requeue(m)

\* Ack, Term or NakWithDelay.  A Nak counts for the delivery that is pending; an
\* Ack or Term also for a message that waits to be delivered again.
Settle(c, m) ==
  /\ call[c][m] \in {"ok", "error", "invalid"}
  /\ msg' = IF /\ c \in conn
               /\ msg[m] = "pending" \/ (msg[m] \in {"stored", "exhausted"} /\ call[c][m] # "error")
            THEN [msg EXCEPT ![m] = Verdict(c, m)] ELSE msg
  /\ Become(c, m, "none")
  /\ UNCHANGED <<durable, count, consume, watch, closed, conn>>

\* The server's AckWait passes without an answer.
AckWait(m) ==
  /\ msg[m] = "pending"
  /\ msg' = [msg EXCEPT ![m] = Requeue(m)]
  /\ UNCHANGED <<durable, count, clientVars>>

\* The watcher goroutine wakes up, because the client is closed or the caller has
\* cancelled the subscription's context, stops the ConsumeContext and unregisters it.
Watcher(c) ==
  /\ c \in watch
  /\ Context(c, "none") /\ watch' = watch \ {c}
  /\ UNCHANGED <<serverVars, call, closed, conn>>

\* Close, up to its teardown: every registered ConsumeContext is stopped.
Close(c) ==
  /\ c \notin closed
  /\ closed' = closed \cup {c}
  /\ IF c \in watch THEN Context(c, "none") ELSE UNCHANGED consume
  /\ UNCHANGED <<serverVars, watch, call, conn>>

\* Close's teardown: wg.Wait, hwg.Wait, then conn.Close.
CloseConn(c) ==
  /\ c \in closed /\ c \in conn /\ c \notin watch /\ InFlight(c) = {}
  /\ conn' = conn \ {c}
  /\ UNCHANGED <<serverVars, consume, watch, call, closed>>

Work(c, m) == Deliver(c, m) \/ Callback(c, m) \/ HandlerReturns(c, m) \/ Settle(c, m)

DeliveryTypeOK ==
  /\ durable \in BOOLEAN
  /\ msg \in [Messages -> {"unsent", "stored", "pending", "acked", "termed", "exhausted", "lost"}]
  /\ count \in [Messages -> 0..MaxDeliver]
  /\ consume \in [Members -> {"none", "live", "dead"}]
  /\ call \in [Members -> [Messages -> {"none", "queued", "running", "ok", "error", "invalid"}]]
  /\ watch \subseteq Members /\ closed \subseteq Members /\ conn \subseteq Members
=============================================================================
