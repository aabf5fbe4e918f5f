---------------------------- MODULE MCJetStream ----------------------------
(* JetStream for TLC: a publisher shares its client with a subscription, a second
   member of the group may be closed. *)
EXTENDS JetStream

ClientOfPublisher == [p \in Publishers |-> "c2"]
=============================================================================
