------------------------------ MODULE Ingress ------------------------------
(***************************************************************************)
(* The ways a call comes in on the one port (kernel/mux.go) and under      *)
(* which peer key the rate limiter of the shared chain counts it: native   *)
(* gRPC with the client's own address as peer; the HTTP gateway and the    *)
(* MCP bridge over the loopback, which carry the client's address in the   *)
(* metadata key x-gortexa-peer-ip.  A client may send that key too.        *)
(***************************************************************************)
EXTENDS RateLimiter, MCPBridge

CONSTANTS
  Loopback,  \* the loopback's own address, "bufconn"
  KeyOf      \* ipKey: the peer of an address; one /64 is one peer

\* Clients come over the network, never from the loopback's address.
ASSUME KeyAssumption ==
  KeyOf \in [Clients \cup {Loopback} -> Peers] /\ Loopback \notin Clients

ingressVars == <<vars, postVars>>

\* Faulty variant: the gateway's default matcher alone, with the metadata prefix
\* honoured.
IncomingHeaderMatcher_Default(claims) == claims

\* What the gateway forwards of the peer keys a client sent: nothing.
IncomingHeaderMatcher(claims) == <<>>

\* peerKey of a call from addr with the values md of the metadata key: a carried
\* address is trusted on the loopback only.
PeerKey(addr, md) ==
  IF addr = Loopback /\ md # <<>> THEN KeyOf[Head(md)] ELSE KeyOf[addr]

\* What a client may send under the metadata key.
Claims == {<<>>} \cup {<<c>> : c \in Clients}

\* The keys that calls of c are counted under: as native gRPC, and through the
\* gateway, whose own value comes after those of the headers.
GRPCKeys(c) == {PeerKey(c, claims) : claims \in Claims}
GatewayKeys(c) == {PeerKey(Loopback, IncomingHeaderMatcher(claims) \o <<c>>) : claims \in Claims}

GRPCCall(c) ==
  /\ \E key \in GRPCKeys(c), allowed \in BOOLEAN : Call(key, KeyOf[c], allowed)
  /\ UNCHANGED postVars

GatewayCall(c) ==
  /\ \E key \in GatewayKeys(c), allowed \in BOOLEAN : Call(key, KeyOf[c], allowed)
  /\ UNCHANGED postVars

\* conn.Invoke of a tools/call: past the limiter the call may still fail, or the
\* bridge panic on its result.
BridgeCall(b) ==
  /\ phase[b] = "invoke"
  /\ \E allowed \in BOOLEAN :
       /\ Call(PeerKey(Loopback, <<from[b]>>), KeyOf[from[b]], allowed)
       /\ \/ EndCall(b, "error")
          \/ allowed /\ EndCall(b, "result")
          \/ allowed /\ Recover(b)

\* The bridge panics before it invokes.
BridgePanic(b) == Recover(b) /\ UNCHANGED vars

IngressInit == Init /\ PostInit

IngressNext ==
  \/ \E c \in Clients : GRPCCall(c) \/ GatewayCall(c)
  \/ \E b \in Posts : BridgeCall(b) \/ BridgePanic(b) \/ (PostStep(b) /\ UNCHANGED vars)
  \/ Tick /\ UNCHANGED postVars

IngressSpec == IngressInit /\ [][IngressNext]_ingressVars
=============================================================================
