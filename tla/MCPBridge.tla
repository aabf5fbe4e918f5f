------------------------------ MODULE MCPBridge ------------------------------
(***************************************************************************)
(* POSTs of the MCP endpoint (mcp/bridge.go): a JSON-RPC message or a      *)
(* batch, whose elements are validated and dispatched one after the other, *)
(* each tools/call being a gRPC call over the loopback, and whose          *)
(* responses are written at the end, all or none.                          *)
(*                                                                         *)
(* A message is the method it asks for ("local" for ping and for requests  *)
(* turned down in dispatch), "malformed" for one that is no request and    *)
(* "notification" for one without an id; the position in the batch stands  *)
(* for the id a message carries, 0 for the null the bridge puts itself.    *)
(***************************************************************************)
EXTENDS Naturals, Sequences, FiniteSets

CONSTANTS
  Posts,     \* requests that may be served at the same time
  Clients,   \* addresses requests come from
  MaxBatch   \* maxBatchElements

ASSUME BatchAssumption == MaxBatch \in Nat \ {0}

VARIABLES
  phase,     \* "idle", "messages", "invoke" (in toolsCall) or "replied"
  from,      \* the client of the POST, or "none"
  left,      \* messages not yet taken
  version,   \* whether MCP-Protocol-Version names a supported revision
  messages,  \* the messages taken
  out,       \* the responses
  status     \* of the reply: "none", "refused", "200", "202", "400", "unsent"

postVars == <<phase, from, left, version, messages, out, status>>

PostInit ==
  /\ phase = [b \in Posts |-> "idle"]
  /\ from = [b \in Posts |-> "none"]
  /\ left = [b \in Posts |-> 0] /\ version = [b \in Posts |-> TRUE]
  /\ messages = [b \in Posts |-> <<>>] /\ out = [b \in Posts |-> <<>>]
  /\ status = [b \in Posts |-> "none"]

Response(id, body) == [id |-> id, body |-> body]

\* writeRPCValue: the responses, unless the client accepts neither JSON nor SSE (406)
\* or they do not marshal (500).
Reply(b, code, responses) ==
  /\ phase' = [phase EXCEPT ![b] = "replied"]
  /\ \/ status' = [status EXCEPT ![b] = code] /\ out' = [out EXCEPT ![b] = responses]
     \/ status' = [status EXCEPT ![b] = "unsent"] /\ out' = [out EXCEPT ![b] = <<>>]

\* Origin, method, media type, size and syntax of the body, and for a batch the
\* revision and the number of elements, are refused before any message is looked at.
Refuse(b, c) ==
  /\ phase[b] = "idle"
  /\ from' = [from EXCEPT ![b] = c]
  /\ phase' = [phase EXCEPT ![b] = "replied"]
  /\ status' = [status EXCEPT ![b] = "refused"]
  /\ UNCHANGED <<left, version, messages, out>>

\* A single message, of any revision, or a batch of a revision that has batches.
Receive(b, c) ==
  /\ phase[b] = "idle"
  /\ from' = [from EXCEPT ![b] = c]
  /\ \E n \in 1..MaxBatch, ok \in BOOLEAN :
       /\ n > 1 => ok
       /\ left' = [left EXCEPT ![b] = n] /\ version' = [version EXCEPT ![b] = ok]
  /\ phase' = [phase EXCEPT ![b] = "messages"]
  /\ UNCHANGED <<messages, out, status>>

Position(b) == Len(messages[b]) + 1

\* The next message of the batch is taken.
Take(b, method) ==
  /\ phase[b] = "messages" /\ left[b] > 0
  /\ left' = [left EXCEPT ![b] = @ - 1]
  /\ messages' = [messages EXCEPT ![b] = Append(@, method)]
  /\ UNCHANGED <<from, version>>

Respond(b, id, body) ==
  /\ out' = [out EXCEPT ![b] = Append(@, Response(id, body))]
  /\ UNCHANGED <<phase, status>>

\* validateRPCRequest fails; the id is echoed when it is a usable one.
Malformed(b) ==
  /\ Take(b, "malformed")
  /\ \E id \in {0, Position(b)} : Respond(b, id, "error")

\* A request of an unsupported revision that is not initialize.
BadVersion(b) ==
  /\ ~version[b]
  /\ \/ Take(b, "local") /\ Reply(b, "400", <<Response(Position(b), "error")>>)
     \/ Take(b, "notification") /\ Reply(b, "400", <<Response(0, "error")>>)

\* Faulty variant: a message without an id is answered like any other.
Notification_Answered(b) ==
  /\ Take(b, "notification")
  /\ Respond(b, 0, "result")

\* A message without an id is dropped, whatever it asks for; of an unsupported
\* revision, only an initialize gets this far.
Notification(b) ==
  /\ Take(b, "notification")
  /\ UNCHANGED <<phase, out, status>>

Served(b, method) == \E i \in 1..Len(messages[b]) : messages[b][i] = method

\* The methods answered without a call over the loopback, once per batch.
Capped(b) ==
  \E method \in {"initialize", "tools/list"} :
    /\ version[b] \/ method = "initialize"
    /\ Take(b, method)
    /\ Respond(b, Position(b), IF Served(b, method) THEN "error" ELSE "result")

\* ping; and unknown methods and tools, and arguments that do not decode.
Local(b) ==
  /\ version[b]
  /\ \E body \in {"result", "error"} : Take(b, "local") /\ Respond(b, Position(b), body)

StartCall(b) ==
  /\ version[b] /\ Take(b, "tools/call")
  /\ phase' = [phase EXCEPT ![b] = "invoke"]
  /\ UNCHANGED <<out, status>>

\* conn.Invoke has returned: a failed call is a result that says so.
EndCall(b, body) ==
  /\ phase[b] = "invoke"
  /\ phase' = [phase EXCEPT ![b] = "messages"]
  /\ out' = [out EXCEPT ![b] = Append(@, Response(Len(messages[b]), body))]
  /\ UNCHANGED <<from, left, version, messages, status>>

\* A panic in toolsCall: servePost answers for the whole POST.
Recover(b) ==
  /\ phase[b] = "invoke"
  /\ Reply(b, "200", <<Response(0, "internal")>>)
  /\ UNCHANGED <<from, left, version, messages>>

WriteAll(b) ==
  /\ phase[b] = "messages" /\ left[b] = 0
  /\ IF out[b] = <<>>
     THEN /\ phase' = [phase EXCEPT ![b] = "replied"]
          /\ status' = [status EXCEPT ![b] = "202"]
          /\ UNCHANGED out
     ELSE Reply(b, "200", out[b])
  /\ UNCHANGED <<from, left, version, messages>>

\* The connection takes its next request.
Finish(b) ==
  /\ phase[b] = "replied"
  /\ phase' = [phase EXCEPT ![b] = "idle"] /\ status' = [status EXCEPT ![b] = "none"]
  /\ left' = [left EXCEPT ![b] = 0] /\ version' = [version EXCEPT ![b] = TRUE]
  /\ messages' = [messages EXCEPT ![b] = <<>>] /\ out' = [out EXCEPT ![b] = <<>>]
  /\ from' = [from EXCEPT ![b] = "none"]

\* The steps that stay inside the bridge.
PostStep(b) ==
  \/ \E c \in Clients : Refuse(b, c) \/ Receive(b, c)
  \/ Malformed(b) \/ BadVersion(b) \/ Notification(b) \/ Capped(b) \/ Local(b) \/ StartCall(b)
  \/ WriteAll(b) \/ Finish(b)

-----------------------------------------------------------------------------
\* The positions of the messages that ask for an answer.
Asking(ms) == {i \in 1..Len(ms) : ms[i] # "notification"}

\* The responses rs answer the messages at the positions in asking, one each and in
\* order, with their ids (null only for a malformed one).
Answers(rs, ms, asking) ==
  \E at \in [1..Len(rs) -> asking] :
    /\ \A j, k \in 1..Len(rs) : j < k => at[j] < at[k]
    /\ \A i \in asking : \E j \in 1..Len(rs) : at[j] = i
    /\ \A j \in 1..Len(rs) : rs[j].id = at[j] \/ (rs[j].id = 0 /\ ms[at[j]] = "malformed")

\* A POST that is answered, and not by the recovery of a panic, is answered
\* message by message: one response for each message with an id, in order and
\* with its id, and 202 for notifications alone.
BatchAnswered ==
  \A b \in Posts :
    /\ status[b] = "202" => Asking(messages[b]) = {}
    /\ status[b] = "200" /\ out[b] # <<Response(0, "internal")>> =>
         left[b] = 0 /\ Answers(out[b], messages[b], Asking(messages[b]))
=============================================================================
