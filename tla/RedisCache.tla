----------------------------- MODULE RedisCache -----------------------------
(***************************************************************************)
(* The Redis cache (cache/redis.go) over the client's round trips: Get,    *)
(* Set and Del of one key, the requests on the wire, and the replies as    *)
(* resp.go tells them apart.  The server is modelled from how the client   *)
(* uses it: it may refuse a request, may send what does not parse, and     *)
(* serves other clients too.                                               *)
(***************************************************************************)
EXTENDS Integers, RespRoundtrip

CONSTANTS
  Stored,     \* values
  Missing,    \* no value; as a reply, the null bulk
  TTLs        \* of Set, in half milliseconds; 0 stands for all that are <= 0

ASSUME RedisAssumption == Missing \notin Stored /\ TTLs \subseteq Nat

VARIABLES
  db,       \* the server's entry
  sent,     \* the requests on the wire
  replies,  \* to the first of them: a value, Missing, "done" (a simple
            \* string or an integer), "error", or "malformed"
  op, res,  \* each command's request, and the reply it has read
  during, applied  \* history, since the command was called: for a GET what the entry
                   \* was, for the others whether the server executed the request

redisVars == <<db, sent, replies, op, res, during, applied>>

\* The PX argument: whole milliseconds, at least 1; -1 for none.
PX(ttl) == IF ttl = 0 THEN -1 ELSE IF ttl \div 2 = 0 THEN 1 ELSE ttl \div 2

Requests ==
  {[cmd |-> cmd, val |-> Missing, px |-> -1] : cmd \in {"GET", "DEL"}}
    \cup {[cmd |-> "SET", val |-> v, px |-> PX(ttl)] : v \in Stored, ttl \in TTLs}

RedisInit ==
  /\ TripInit
  /\ db = Missing /\ sent = <<>> /\ replies = <<>>
  /\ op = [d \in Commands |-> NoCommand] /\ res = [d \in Commands |-> NoCommand]
  /\ during = [d \in Commands |-> {}] /\ applied = [d \in Commands |-> FALSE]

-----------------------------------------------------------------------------
(* The server *)

Refused(req) == req.cmd = "SET" /\ req.px = 0

Effect(req) ==
  CASE req.cmd = "GET" -> db
    [] req.cmd = "DEL" -> Missing
    [] OTHER -> IF Refused(req) THEN db ELSE req.val

ReplyTo(req) ==
  IF req.cmd = "GET" THEN db ELSE IF Refused(req) THEN "error" ELSE "done"

Observe(entry) ==
  during' = [d \in Commands |-> IF during[d] = {} THEN {} ELSE during[d] \cup {entry}]

\* It executes the next request, and its reply parses or not; or it refuses it.
Serve ==
  /\ Len(replies) < Len(sent)
  /\ LET req == sent[Len(replies) + 1]
         d == wire[Len(replies) + 1] IN
       \/ /\ db' = Effect(req)
          /\ \E reply \in {ReplyTo(req), "malformed"} : replies' = Append(replies, reply)
          /\ applied' = [applied EXCEPT ![d] = op[d] = req /\ req.cmd # "GET" /\ ~Refused(req)]
       \/ /\ replies' = Append(replies, "error")
          /\ UNCHANGED <<db, applied>>
  /\ Observe(db')
  /\ UNCHANGED <<tripVars, sent, op, res>>

\* Other clients write, the entry expires, or a request is executed whose
\* connection was closed while it was under way.
Elsewhere(entry) ==
  /\ db' = entry
  /\ Observe(entry)
  /\ UNCHANGED <<tripVars, sent, replies, op, res, applied>>

-----------------------------------------------------------------------------
(* The client's methods *)

\* Get, Set or Del is called.
Call(d, req) ==
  /\ Begin(d)
  /\ op' = [op EXCEPT ![d] = req]
  /\ during' = [during EXCEPT ![d] = IF req.cmd = "GET" THEN {db} ELSE {}]
  /\ UNCHANGED <<db, sent, replies, res, applied>>

\* writeCommand: the array of bulk strings that is the request.
WriteCommand(d) ==
  /\ Write(d)
  /\ sent' = Append(sent, op[d])
  /\ UNCHANGED <<db, replies, op, res, during, applied>>

\* readReply decodes a reply ...
ReadReply(d) ==
  /\ replies # <<>> /\ Head(replies) # "malformed"
  /\ Read(d)
  /\ res' = [res EXCEPT ![d] = Head(replies)]
  /\ sent' = Tail(sent) /\ replies' = Tail(replies)
  /\ UNCHANGED <<db, op, during, applied>>

\* ... or fails with a protocol error, which leaves the connection unusable.
ProtocolError(d) ==
  /\ pc[d] = "read" /\ rdl # "tripped"
  /\ replies # <<>> /\ Head(replies) = "malformed"
  /\ Fail(d, "broken")
  /\ UNCHANGED <<ctx, hook, connVars, redisVars>>

\* What the steps of a command mean here: a closed connection takes its replies
\* with it, and the method returns.
Settle(d) ==
  /\ IF wire' = <<>> THEN sent' = <<>> /\ replies' = <<>> ELSE UNCHANGED <<sent, replies>>
  /\ res' = [res EXCEPT ![d] = IF pc[d] = "put" THEN NoCommand ELSE @]
  /\ IF pc'[d] = "out"
     THEN /\ op' = [op EXCEPT ![d] = NoCommand] /\ applied' = [applied EXCEPT ![d] = FALSE]
          /\ during' = [during EXCEPT ![d] = {}]
     ELSE UNCHANGED <<op, applied, during>>
  /\ UNCHANGED db

RedisNext ==
  \/ Serve \/ \E entry \in Stored \cup {Missing} : Elsewhere(entry)
  \/ \E d \in Commands :
       \/ \E req \in Requests : Call(d, req)
       \/ WriteCommand(d) \/ ReadReply(d) \/ ProtocolError(d)
       \/ (Cancel(d) \/ Checkout(d) \/ HookRuns(d) \/ BreakIO(d)) /\ UNCHANGED redisVars
       \/ Run(d) /\ Settle(d)

RedisFairness ==
  \A d \in Commands : WF_tripVars(Run(d)) /\ WF_tripVars(HookRuns(d))

-----------------------------------------------------------------------------
RedisTypeOK ==
  /\ TripTypeOK
  /\ db \in Stored \cup {Missing} /\ Len(replies) <= Len(sent) /\ Len(sent) = Len(wire)
  /\ during \in [Commands -> SUBSET (Stored \cup {Missing})]

\* A Get that answers gives what the entry was at some moment of the call, and a
\* Set or Del that reports success was executed within it; also with the retry and
\* with requests of abandoned commands still under way.
RedisNeverStale ==
  \A d \in Commands : pc[d] = "put" /\ bad = "no" /\ res[d] # "error" =>
    IF op[d].cmd = "GET" THEN res[d] \in during[d] ELSE res[d] = "done" /\ applied[d]
=============================================================================
