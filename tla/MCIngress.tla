----------------------------- MODULE MCIngress -----------------------------
(* Ingress for TLC: four clients, two of them in one /64, and a shard that has *)
(* room for two of their three keys.                                       *)
EXTENDS Ingress

MCKeyOf == [c \in Clients \cup {Loopback} |-> IF c \in {"v6", "v6b"} THEN "net" ELSE c]
MCShardOf == [p \in Peers |-> IF p = "bufconn" THEN 1 ELSE 0]
=============================================================================
