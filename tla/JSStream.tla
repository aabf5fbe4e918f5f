------------------------------ MODULE JSStream ------------------------------
(***************************************************************************)
(* ensureStream of mq/jetstream.go for one topic, as Publish and Subscribe *)
(* call it: goroutines of several clients look a stream up, create it when *)
(* it is absent, and remember in a per-client set that it is there.        *)
(* JetStream composes it with the deliveries of JSDelivery.                *)
(***************************************************************************)
EXTENDS Integers, FiniteSets

CONSTANTS
  Clients,
  Publishers, ClientOf  \* publishing goroutines and the client each one uses

ASSUME ClientAssumption == ClientOf \in [Publishers -> Clients]

VARIABLES
  stream,    \* "absent", "covers" (created here or by an operator) or "foreign" (created
             \* by an operator, with subjects that do not cover the topic)
  ensured,   \* jsClient.streams: clients that have the topic marked
  pc         \* where each Publish and each client's Subscribe is: "idle" outside of it, and
             \* "stored" when the last Publish returned without an error

streamVars == <<stream, ensured, pc>>

\* The goroutine that subscribes on a client goes by the client's name.
Procs == Publishers \cup Clients
Owner(p) == IF p \in Clients THEN p ELSE ClientOf[p]

StreamInit ==
  /\ stream = "absent" /\ ensured = {}
  /\ pc = [p \in Procs |-> "idle"]

GoTo(p, label) == pc' = [pc EXCEPT ![p] = label]

\* What the caller does with an ensured stream: PublishMsg or CreateOrUpdateConsumer.
Ensured(p) == IF p \in Clients THEN "consumer" ELSE "send"

\* Publish or Subscribe on a valid topic: ensureStream looks at the cache first.
Begin(p) ==
  /\ pc[p] \in {"idle", "stored"}
  /\ GoTo(p, IF Owner(p) \in ensured THEN Ensured(p) ELSE "lookup")
  /\ UNCHANGED <<stream, ensured>>

\* js.Stream: found, found with other subjects, or not found.
Lookup(p) ==
  /\ pc[p] = "lookup"
  /\ CASE stream = "covers" -> GoTo(p, "mark")
       [] stream = "foreign" -> GoTo(p, "idle")
       [] stream = "absent" -> GoTo(p, "create")
  /\ UNCHANGED <<stream, ensured>>

\* js.CreateStream: created, or the name is in use by now.
Create(p) ==
  /\ pc[p] = "create"
  /\ IF stream = "absent"
     THEN stream' = "covers" /\ GoTo(p, "mark")
     ELSE GoTo(p, "relookup") /\ UNCHANGED stream
  /\ UNCHANGED ensured

\* The second lookup of the loser of a creation race.
Relookup(p) ==
  /\ pc[p] = "relookup"
  /\ GoTo(p, IF stream = "covers" THEN "mark" ELSE "idle")
  /\ UNCHANGED <<stream, ensured>>

MarkEnsured(p) ==
  /\ pc[p] = "mark"
  /\ ensured' = ensured \cup {Owner(p)}
  /\ GoTo(p, Ensured(p))
  /\ UNCHANGED stream

\* Faulty variant: the mark stays.
ForgetStream_Keeps(p) ==
  /\ pc[p] = "forget"
  /\ GoTo(p, "idle")
  /\ UNCHANGED <<stream, ensured>>

\* PublishMsg or CreateOrUpdateConsumer said that the stream is gone.
ForgetStream(p) ==
  /\ pc[p] = "forget"
  /\ ensured' = ensured \ {Owner(p)}
  /\ GoTo(p, "idle")
  /\ UNCHANGED stream

\* A round trip ends with an error that says nothing about the stream.
Errs(p) == GoTo(p, "idle") /\ UNCHANGED <<stream, ensured>>

\* An operator provides the stream, with subjects of their own.
Provide ==
  /\ stream = "absent"
  /\ stream' \in {"covers", "foreign"}
  /\ UNCHANGED <<ensured, pc>>

StreamTypeOK ==
  /\ stream \in {"absent", "covers", "foreign"} /\ ensured \subseteq Clients
  /\ pc \in [Procs -> {"idle", "stored", "lookup", "create", "relookup", "mark", "send",
                       "forget", "consumer", "consume", "register", "stop"}]
=============================================================================
