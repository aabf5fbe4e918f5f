----------------------------- MODULE CacheProofs -----------------------------
(***************************************************************************)
(* Proofs about the two caches and the round trip under one of them, for   *)
(* any keys, values, commands and readers.                                 *)
(***************************************************************************)
EXTENDS Cache, TLAPS

\* A leaf that names no prover is tried with Zenon, then with SMT.
USE ZenonT(3), SMTT(30), ZenonT(20)

\* A command that has the connection.
InUse == Places \ {"out", "wait"}

\* The types of the round trips' state.
TripTyped ==
  /\ pc \in [Commands -> Places] /\ ctx \in [Commands -> {"live", "done"}]
  /\ hook \in [Commands -> Hooks] /\ owner \in Commands \cup {NoCommand}

\* What is on the wire and what marks the connection, by how far its command is; whose
\* hooks may still run; and the deadlines a live command has set.
TripOK(d) ==
  /\ pc[d] \in InUse <=> owner = d
  /\ pc[d] \in {"begin", "hooked", "wset", "write"} => wire = <<>> /\ bad = "no"
  /\ pc[d] \in {"written", "rset", "read"} => wire = <<d>> /\ bad = "no"
  /\ pc[d] \in {"end", "put"} => wire = <<>> \/ (wire = <<d>> /\ bad # "no")
  /\ pc[d] \in InUse \ {"put"} => tainted = FALSE
  /\ hook[d] = "armed" => pc[d] \in InUse \ {"put"}
  /\ hook[d] = "started" => pc[d] \in InUse /\ (pc[d] = "put" => tainted = TRUE)
  /\ ctx[d] = "live" /\ pc[d] # "out" => hook[d] \in {"none", "armed"}
  /\ ctx[d] = "live" /\ pc[d] \in {"wset", "write"} => wdl = "set"
  /\ ctx[d] = "live" /\ pc[d] \in {"rset", "read"} => rdl = "set"

\* Nothing of a command is left on a connection that is not in use.
ParkedQuiet == owner = NoCommand => wire = <<>> /\ bad = "no" /\ tainted = FALSE

TripInv == TripTyped /\ ParkedQuiet /\ \A d \in Commands : TripOK(d)

USE RoundtripAssumption

\* No command has been called.
LEMMA InitTrip == TripInit => TripInv
BY DEF TripInit, TripInv, TripTyped, ParkedQuiet, TripOK, InUse, Places, Hooks

\* A step of one command disturbs no other: one of the two does not have the connection,
\* and no hook of a command that has not can still run on it.
LEMMA OthersTrip ==
  ASSUME TripInv, TripTyped', ParkedQuiet', NEW d \in Commands, TripOK(d)',
         \A e \in Commands \ {d} : pc'[e] = pc[e] /\ ctx'[e] = ctx[e] /\ hook'[e] = hook[e],
         \/ UNCHANGED <<owner, wire, bad, tainted, wdl, rdl>>
         \/ owner \in {d, NoCommand} /\ owner' \in {d, NoCommand}
  PROVE  TripInv'
<1>1. ASSUME NEW e \in Commands \ {d} PROVE TripOK(e)'
  <2>1. TripOK(e)
    BY DEF TripInv
  <2>2. CASE UNCHANGED <<owner, wire, bad, tainted, wdl, rdl>>
    BY <2>1, <2>2 DEF TripOK
  <2>3. CASE owner \in {d, NoCommand} /\ owner' \in {d, NoCommand}
    <3>1. owner # e /\ owner' # e
      BY <2>3
    <3>2. pc[e] \notin InUse
      BY <2>1, <3>1 DEF TripOK
    <3> QED BY <2>1, <3>1, <3>2 DEF TripOK, InUse, Places
  <2> QED BY <2>2, <2>3
<1> QED BY <1>1 DEF TripInv

\* Steps of a command that does not have the connection: Do begins, its context is
\* cancelled, getConn gives up.
LEMMA OutsideTrip ==
  ASSUME TripInv, NEW d \in Commands, Begin(d) \/ Cancel(d) \/ GiveUp(d)
  PROVE  TripInv'
<1>1. TripTyped /\ ParkedQuiet /\ TripOK(d)
  BY DEF TripInv
<1>2. UNCHANGED <<owner, wire, bad, tainted, wdl, rdl>>
  BY DEF Begin, Cancel, GiveUp, connVars
<1>3. TripTyped' /\ ParkedQuiet'
  BY <1>1, <1>2 DEF TripTyped, ParkedQuiet, Begin, Cancel, GiveUp, Goto, SetHook, Returned, Places, Hooks
<1>4. \A e \in Commands \ {d} : pc'[e] = pc[e] /\ ctx'[e] = ctx[e] /\ hook'[e] = hook[e]
  BY <1>1 DEF TripTyped, Begin, Cancel, GiveUp, Goto, SetHook, Returned
<1>5. TripOK(d)'
  <2>1. CASE Begin(d)
    BY <1>1, <1>2, <2>1 DEF TripTyped, TripOK, InUse, Places, Begin, Goto
  <2>2. CASE Cancel(d)
    BY <1>1, <1>2, <2>2 DEF TripTyped, TripOK, InUse, Places, Cancel, SetHook
  <2>3. CASE GiveUp(d)
    BY <1>1, <1>2, <2>3 DEF TripTyped, TripOK, InUse, Places, GiveUp, Goto, Returned
  <2> QED BY <2>1, <2>2, <2>3
<1> QED BY <1>2, <1>3, <1>4, <1>5, OthersTrip

\* The write, up to the request on the wire.
LEMMA WriteTrip ==
  ASSUME TripInv, NEW d \in Commands,
         \/ Checkout(d) \/ ArmHook(d) \/ SetWriteDeadline(d) \/ CheckBeforeWrite(d)
         \/ Write(d) \/ WriteTripped(d)
  PROVE  TripInv'
<1>1. TripTyped /\ ParkedQuiet /\ TripOK(d)
  BY DEF TripInv
<1>2. /\ owner \in {d, NoCommand} /\ owner' = d
      /\ UNCHANGED <<ctx, tainted, rdl>>
      /\ \A e \in Commands \ {d} : pc'[e] = pc[e] /\ hook'[e] = hook[e]
  BY <1>1 DEF TripTyped, TripOK, InUse, Places, Checkout, ArmHook, SetWriteDeadline, CheckBeforeWrite,
     Write, WriteTripped, Goto, SetHook, Fail, connVars
<1>3. TripTyped' /\ ParkedQuiet'
  BY <1>1, <1>2 DEF TripTyped, ParkedQuiet, Places, Hooks, Checkout, ArmHook, SetWriteDeadline,
     CheckBeforeWrite, Write, WriteTripped, Goto, SetHook, Fail
<1>4. TripOK(d)'
  <2>1. CASE Checkout(d)
    BY <1>1, <1>2, <2>1 DEF TripTyped, ParkedQuiet, TripOK, InUse, Places, Checkout, Goto
  <2>2. CASE ArmHook(d)
    BY <1>1, <1>2, <2>2 DEF TripTyped, TripOK, InUse, Places, ArmHook, Goto, SetHook, connVars
  <2>3. CASE SetWriteDeadline(d)
    BY <1>1, <1>2, <2>3 DEF TripTyped, TripOK, InUse, Places, SetWriteDeadline, Goto
  <2>4. CASE CheckBeforeWrite(d)
    BY <1>1, <1>2, <2>4 DEF TripTyped, TripOK, InUse, Places, CheckBeforeWrite, Goto, Fail, connVars
  <2>5. CASE Write(d)
    BY <1>1, <1>2, <2>5 DEF TripTyped, TripOK, InUse, Places, Write, Goto
  <2>6. CASE WriteTripped(d)
    BY <1>1, <1>2, <2>6 DEF TripTyped, TripOK, InUse, Places, WriteTripped, Goto, Fail, connVars
  <2> QED BY <2>1, <2>2, <2>3, <2>4, <2>5, <2>6
<1> QED BY <1>2, <1>3, <1>4, OthersTrip
\* The read, and what ends either.
LEMMA ReadTrip ==
  ASSUME TripInv, NEW d \in Commands,
         \/ SetReadDeadline(d) \/ CheckBeforeRead(d) \/ Read(d) \/ ReadTripped(d) \/ BreakIO(d)
  PROVE  TripInv'
<1>1. TripTyped /\ ParkedQuiet /\ TripOK(d)
  BY DEF TripInv
<1>2. /\ owner = d /\ owner' = d
      /\ UNCHANGED <<ctx, hook, tainted, wdl>>
      /\ \A e \in Commands \ {d} : pc'[e] = pc[e]
  BY <1>1 DEF TripTyped, TripOK, InUse, Places, SetReadDeadline, CheckBeforeRead, Read, ReadTripped,
     BreakIO, Goto, Fail, connVars
<1>3. TripTyped' /\ ParkedQuiet'
  BY <1>1, <1>2 DEF TripTyped, ParkedQuiet, Places, SetReadDeadline, CheckBeforeRead, Read,
     ReadTripped, BreakIO, Goto, Fail
<1>4. TripOK(d)'
  <2>1. CASE SetReadDeadline(d)
    BY <1>1, <1>2, <2>1 DEF TripTyped, TripOK, InUse, Places, SetReadDeadline, Goto
  <2>2. CASE CheckBeforeRead(d)
    BY <1>1, <1>2, <2>2 DEF TripTyped, TripOK, InUse, Places, CheckBeforeRead, Goto, Fail, connVars
  <2>3. CASE Read(d)
    <3>1. wire' = <<>> /\ Tail(<<d>>) = <<>>
      BY <1>1, <2>3 DEF TripOK, Read
    <3> QED BY <1>1, <1>2, <2>3, <3>1 DEF TripTyped, TripOK, InUse, Places, Read, Goto
  <2>4. CASE ReadTripped(d)
    BY <1>1, <1>2, <2>4 DEF TripTyped, TripOK, InUse, Places, ReadTripped, Goto, Fail, connVars
  <2>5. CASE BreakIO(d)
    BY <1>1, <1>2, <2>5 DEF TripTyped, TripOK, InUse, Places, BreakIO, Goto, Fail, connVars
  <2> QED BY <2>1, <2>2, <2>3, <2>4, <2>5
<1> QED BY <1>2, <1>3, <1>4, OthersTrip

\* The hook is stopped, or runs: on the connection of its own command only.
LEMMA HookTrip ==
  ASSUME TripInv, NEW d \in Commands, Stop(d) \/ HookRuns(d)
  PROVE  TripInv'
<1>1. TripTyped /\ ParkedQuiet /\ TripOK(d)
  BY DEF TripInv
<1>2. /\ UNCHANGED <<ctx, owner, wire, bad>>
      /\ \A e \in Commands \ {d} : pc'[e] = pc[e] /\ hook'[e] = hook[e]
  BY <1>1 DEF TripTyped, Stop, HookRuns, Goto, SetHook
<1>3. TripTyped'
  BY <1>1, <1>2 DEF TripTyped, Places, Hooks, Stop, HookRuns, Goto, SetHook
<1>4. \/ UNCHANGED <<tainted, wdl, rdl>>
      \/ owner = d
  BY <1>1 DEF TripOK, InUse, Places, Stop, HookRuns
<1>5. ParkedQuiet'
  BY <1>1, <1>2, <1>4 DEF ParkedQuiet
<1>6. TripOK(d)'
  <2>1. CASE Stop(d)
    <3>1. /\ pc[d] = "end" /\ pc'[d] = "put" /\ UNCHANGED <<wdl, rdl>>
          /\ hook[d] = "started" => hook'[d] = "started" /\ tainted' = TRUE
          /\ hook[d] # "started" => hook'[d] = "none"
      BY <1>1, <2>1 DEF TripTyped, Stop, Goto, SetHook
    <3> QED BY <1>1, <1>2, <3>1 DEF TripOK, InUse, Places
  <2>2. CASE HookRuns(d)
    <3>1. UNCHANGED <<pc, tainted>> /\ hook'[d] \in {"fired", "none"} /\ hook[d] \in {"started", "void"}
      BY <1>1, <2>2 DEF TripTyped, HookRuns, SetHook
    <3> QED BY <1>1, <1>2, <3>1 DEF TripOK
  <2> QED BY <2>1, <2>2
<1> QED BY <1>2, <1>3, <1>4, <1>5, <1>6, OthersTrip

\* putConn: what is parked is clean, and what is not is closed.
LEMMA PutTrip ==
  ASSUME TripInv, NEW d \in Commands, Park(d) \/ Discard(d)
  PROVE  TripInv'
<1>1. TripTyped /\ ParkedQuiet /\ TripOK(d)
  BY DEF TripInv
<1>2. pc[d] = "put" /\ owner = d /\ owner' = NoCommand
  BY <1>1 DEF TripOK, InUse, Places, Park, Discard
<1>3. CASE Park(d)
  <2>1. /\ bad = "no" /\ tainted = FALSE /\ UNCHANGED <<hook, bad, wdl, rdl, tainted, wire>>
        /\ pc' = [pc EXCEPT ![d] = "out"] /\ ctx' = [ctx EXCEPT ![d] = "live"]
    BY <1>3 DEF Park, Returned, Goto
  <2>2. TripTyped' /\ ParkedQuiet'
    BY <1>1, <1>2, <2>1 DEF TripTyped, ParkedQuiet, TripOK, Places
  <2>3. TripOK(d)'
    BY <1>1, <1>2, <2>1 DEF TripTyped, TripOK, InUse, Places
  <2> QED BY <1>1, <1>2, <2>1, <2>2, <2>3, OthersTrip DEF TripTyped
<1>4. CASE Discard(d)
  <2>1. /\ hook' = [e \in Commands |-> IF hook[e] = "started" THEN "void" ELSE hook[e]]
        /\ wire' = <<>> /\ bad' = "no" /\ tainted' = FALSE
    BY <1>4 DEF Discard
  <2>2. \/ /\ pc' = [pc EXCEPT ![d] = "out"] /\ ctx' = [ctx EXCEPT ![d] = "live"]
        \/ /\ pc' = [pc EXCEPT ![d] = "wait"] /\ ctx' = ctx /\ ctx[d] = "live"
    BY <1>4 DEF Discard, Leave, Again, Returned, Goto
  <2>3. TripTyped' /\ ParkedQuiet'
    BY <1>1, <1>2, <2>1, <2>2 DEF TripTyped, ParkedQuiet, Places, Hooks
  <2>4. TripOK(d)'
    BY <1>1, <1>2, <2>1, <2>2 DEF TripTyped, TripOK, InUse, Places
  <2>5. ASSUME NEW e \in Commands \ {d}
        PROVE  pc'[e] = pc[e] /\ ctx'[e] = ctx[e] /\ hook'[e] = hook[e]
    <3>1. TripOK(e)
      BY DEF TripInv
    <3> QED BY <1>1, <1>2, <2>1, <2>2, <3>1 DEF TripTyped, TripOK
  <2> QED BY <1>2, <2>3, <2>4, <2>5, OthersTrip
<1> QED BY <1>3, <1>4

-----------------------------------------------------------------------------
\* The round trips of the Redis cache, and its server's steps.
LEMMA RedisKeepsTrip ==
  ASSUME TripInv, RedisNext
  PROVE  TripInv'
<1>1. CASE UNCHANGED tripVars
  BY <1>1 DEF tripVars, TripInv, TripTyped, ParkedQuiet, TripOK
<1>2. ASSUME NEW d \in Commands, ProtocolError(d) PROVE TripInv'
  BY <1>2, ReadTrip DEF ProtocolError, BreakIO
<1>3. ASSUME NEW d \in Commands, Run(d) PROVE TripInv'
  BY <1>3, OutsideTrip, WriteTrip, ReadTrip, HookTrip, PutTrip DEF Run
<1>4. ASSUME NEW d \in Commands,
             \/ \E req \in Requests : Call(d, req)
             \/ WriteCommand(d) \/ ReadReply(d)
             \/ Cancel(d) \/ Checkout(d) \/ HookRuns(d) \/ BreakIO(d)
      PROVE  TripInv'
  BY <1>4, OutsideTrip, WriteTrip, ReadTrip, HookTrip DEF Call, WriteCommand, ReadReply
<1> QED BY <1>1, <1>2, <1>3, <1>4 DEF RedisNext, Serve, Elsewhere

-----------------------------------------------------------------------------
\* A reply that is right for the command's request.
Right(d, r) == IF op[d].cmd = "GET" THEN r \in during[d] ELSE r = "done" /\ applied[d]

Replies == Stored \cup {Missing, "done", "error", "malformed", NoCommand}

\* The types of the Redis cache's state.
RedisTyped ==
  /\ db \in Stored \cup {Missing} /\ during \in [Commands -> SUBSET (Stored \cup {Missing})]
  /\ op \in [Commands -> Requests \cup {NoCommand}] /\ res \in [Commands -> Replies]
  /\ applied \in [Commands -> BOOLEAN]

\* The requests and replies on the connection.
WireOK ==
  /\ wire = <<>> => sent = <<>> /\ replies = <<>>
  /\ \A d \in Commands : wire = <<d>> =>
       /\ sent = <<op[d]>>
       /\ \/ replies = <<>>
          \/ \E r \in Replies : replies = <<r>> /\ (r \in {"error", "malformed"} \/ Right(d, r))

\* What a command has read, and what a GET may read.
ReplyOK(d) ==
  /\ pc[d] \in {"end", "put"} /\ bad = "no" => res[d] = "error" \/ Right(d, res[d])
  /\ pc[d] # "out" => op[d] \in Requests /\ (op[d].cmd = "GET" => during[d] # {})
  /\ during[d] # {} => db \in during[d]

RedisInv == TripInv /\ RedisTyped /\ WireOK /\ \A d \in Commands : ReplyOK(d)

\* No request has been made.
LEMMA InitRedis == RedisInit => RedisInv
<1> SUFFICES ASSUME RedisInit PROVE RedisInv
  OBVIOUS
<1>1. TripInv
  BY InitTrip DEF RedisInit
<1>2. RedisTyped
  <2>1. applied \in [Commands -> BOOLEAN]
    BY Zenon DEF RedisInit
  <2> QED BY <2>1 DEF RedisInit, RedisTyped, Replies
<1>3. WireOK
  BY DEF RedisInit, TripInit, WireOK
<1>4. ASSUME NEW d \in Commands PROVE ReplyOK(d)
  BY DEF RedisInit, TripInit, ReplyOK
<1> QED BY <1>1, <1>2, <1>3, <1>4 DEF RedisInv

\* What is on the wire is nothing, or one request of the command that has the connection.
LEMMA WireShape ==
  ASSUME TripInv
  PROVE  wire = <<>> \/ \E d \in Commands : owner = d /\ wire = <<d>>
<1>1. CASE owner = NoCommand
  BY <1>1 DEF TripInv, ParkedQuiet
<1>2. CASE owner \in Commands
  <2>1. TripOK(owner)
    BY <1>2 DEF TripInv
  <2>2. PICK d \in Commands : d = owner
    BY <1>2
  <2>3. pc[d] \in InUse
    BY <2>1, <2>2 DEF TripOK
  <2>4. wire = <<>> \/ wire = <<d>>
    BY <2>1, <2>2, <2>3 DEF TripOK, InUse, Places
  <2> QED BY <2>2, <2>4
<1> QED BY <1>1, <1>2 DEF TripInv, TripTyped

\* The server, or another client: what a GET under way may read grows with the entry.
LEMMA ServerRedis ==
  ASSUME RedisInv, Serve \/ \E e \in Stored \cup {Missing} : Elsewhere(e)
  PROVE  RedisInv'
<1>1. /\ TripInv /\ RedisTyped /\ WireOK /\ \A d \in Commands : ReplyOK(d)
      /\ UNCHANGED <<tripVars, sent, op, res>>
  BY DEF RedisInv, Serve, Elsewhere
<1>2. TripInv' /\ UNCHANGED <<pc, bad, wire>>
  BY <1>1 DEF tripVars, TripInv, TripTyped, ParkedQuiet, TripOK
<1>3. ASSUME NEW d \in Commands, owner = d PROVE op[d] \in Requests /\ pc[d] # "out"
  <2>1. TripOK(d) /\ ReplyOK(d)
    BY <1>1 DEF TripInv
  <2> QED BY <1>3, <2>1 DEF TripOK, ReplyOK, InUse
<1>4. CASE \E e \in Stored \cup {Missing} : Elsewhere(e)
  <2>1. /\ db' \in Stored \cup {Missing} /\ UNCHANGED <<replies, applied>>
        /\ during' = [d \in Commands |-> IF during[d] = {} THEN {} ELSE during[d] \cup {db'}]
    BY <1>4 DEF Elsewhere, Observe
  <2>2. RedisTyped'
    BY <1>1, <2>1 DEF RedisTyped
  <2>3. ASSUME NEW d \in Commands, NEW r, Right(d, r) PROVE Right(d, r)'
    BY <1>1, <2>1, <2>3 DEF Right
  <2>4. WireOK'
    BY <1>1, <1>2, <2>1, <2>3 DEF WireOK
  <2>5. ASSUME NEW d \in Commands PROVE ReplyOK(d)'
    BY <1>1, <1>2, <2>1, <2>3 DEF ReplyOK
  <2> QED BY <1>2, <2>2, <2>4, <2>5 DEF RedisInv
<1>5. CASE Serve
  <2>1. PICK d \in Commands : owner = d /\ wire = <<d>> /\ sent = <<op[d]>> /\ replies = <<>>
    <3>1. Len(replies) < Len(sent)
      BY <1>5 DEF Serve
    <3>2. wire # <<>>
      BY <1>1, <3>1 DEF WireOK
    <3>3. PICK d \in Commands : owner = d /\ wire = <<d>>
      BY <1>1, <3>2, WireShape
    <3>4. sent = <<op[d]>> /\ (replies = <<>> \/ \E r \in Replies : replies = <<r>>)
      BY <1>1, <3>3 DEF WireOK
    <3>5. replies = <<>>
      BY <3>1, <3>4
    <3> QED BY <3>3, <3>4, <3>5
  <2>2. sent[Len(replies) + 1] = op[d] /\ wire[Len(replies) + 1] = d
    BY <2>1
  <2>3. PICK q \in Requests : q = op[d]
    BY <1>3, <2>1
  <2>4. PICK r \in Replies :
        /\ replies' = Append(replies, r)
        /\ \/ db' = Effect(q) /\ r \in {ReplyTo(q), "malformed"}
              /\ applied' = [applied EXCEPT ![d] = op[d] = q /\ q.cmd # "GET" /\ ~Refused(q)]
           \/ r = "error" /\ UNCHANGED <<db, applied>>
    <3>1. ReplyTo(q) \in Replies
      BY <1>1 DEF ReplyTo, Replies, RedisTyped
    <3> QED BY <1>5, <2>2, <2>3, <3>1 DEF Serve, Replies
  <2>5. Effect(q) \in Stored \cup {Missing} /\ (q.cmd = "GET" => Effect(q) = db)
    BY <1>1 DEF Effect, Requests, RedisTyped
  <2>6. during' = [c \in Commands |-> IF during[c] = {} THEN {} ELSE during[c] \cup {db'}]
    BY <1>5 DEF Serve, Observe
  <2>7. db' \in Stored \cup {Missing}
    BY <1>1, <2>4, <2>5 DEF RedisTyped
  <2>8. applied' \in [Commands -> BOOLEAN] /\ \A c \in Commands \ {d} : applied'[c] = applied[c]
    BY <1>1, <2>4 DEF RedisTyped
  <2>9. RedisTyped'
    BY <1>1, <2>6, <2>7, <2>8 DEF RedisTyped
  <2>10. r \in {"error", "malformed"} \/ Right(d, r)'
    <3>1. CASE q.cmd = "GET"
      <4>1. during[d] # {} /\ db \in during[d]
        BY <1>1, <1>3, <2>1, <2>3, <3>1 DEF ReplyOK
      <4> QED BY <1>1, <2>3, <2>4, <2>6, <3>1, <4>1 DEF Right, ReplyTo
    <3>2. CASE q.cmd # "GET" /\ r \notin {"error", "malformed"}
      <4>1. r = "done" /\ ~Refused(q)
        BY <2>4, <3>2 DEF ReplyTo
      <4>2. applied'[d]
        BY <1>1, <2>3, <2>4, <3>2, <4>1 DEF RedisTyped
      <4> QED BY <1>1, <2>3, <3>2, <4>1, <4>2 DEF Right
    <3> QED BY <3>1, <3>2
  <2>11. replies' = <<r>>
    BY <2>1, <2>4
  <2>12. WireOK'
    BY <1>1, <1>2, <2>1, <2>10, <2>11 DEF WireOK
  <2>13. ASSUME NEW c \in Commands PROVE ReplyOK(c)'
    <3>1. ReplyOK(c)
      BY <1>1
    <3>2. c # d => (Right(c, res[c]) => Right(c, res[c])')
      BY <1>1, <2>6, <2>8 DEF Right
    <3>3. ~(pc[d] \in {"end", "put"} /\ bad = "no")
      BY <1>1, <2>1 DEF TripInv, TripOK
    <3>4. during'[c] # {} => during[c] # {} /\ db' \in during'[c]
      BY <2>6
    <3>5. during[c] # {} => during'[c] # {}
      BY <2>6
    <3> QED BY <1>1, <1>2, <3>1, <3>2, <3>3, <3>4, <3>5 DEF ReplyOK
  <2> QED BY <1>2, <2>9, <2>12, <2>13 DEF RedisInv
<1> QED BY <1>4, <1>5

\* A command's step leaves the replies of the others alone.
LEMMA OthersReply ==
  ASSUME RedisInv, TripInv', RedisTyped', WireOK', NEW d \in Commands, ReplyOK(d)', db' = db,
         bad' = bad \/ owner \in {d, NoCommand},
         \A c \in Commands \ {d} :
           /\ pc'[c] = pc[c] /\ op'[c] = op[c] /\ res'[c] = res[c]
           /\ during'[c] = during[c] /\ (applied'[c] <=> applied[c])
  PROVE  RedisInv'
<1>1. ASSUME NEW c \in Commands \ {d} PROVE ReplyOK(c)'
  <2>1. ReplyOK(c) /\ TripOK(c)
    BY DEF RedisInv, TripInv
  <2>2. Right(c, res[c]) => Right(c, res[c])'
    BY DEF Right
  <2>3. owner \in {d, NoCommand} => pc[c] \notin {"end", "put"}
    BY <2>1 DEF TripOK, InUse, Places
  <2> QED BY <2>1, <2>2, <2>3 DEF ReplyOK
<1> QED BY <1>1 DEF RedisInv

\* Steps of a command that move neither requests nor replies.
LEMMA QuietRedis ==
  ASSUME RedisInv, NEW d \in Commands,
         \/ (Cancel(d) \/ Checkout(d) \/ HookRuns(d) \/ BreakIO(d)) /\ UNCHANGED redisVars
         \/ ProtocolError(d)
  PROVE  RedisInv'
<1>1. /\ TripInv /\ RedisTyped /\ WireOK /\ ReplyOK(d) /\ TripTyped /\ TripOK(d)
      /\ UNCHANGED <<db, sent, replies, op, res, during, applied>>
  BY DEF RedisInv, TripInv, redisVars, ProtocolError
<1>2. TripInv'
  BY <1>1, RedisKeepsTrip DEF RedisNext
<1>3. /\ wire' = wire
      /\ \A c \in Commands \ {d} : pc'[c] = pc[c]
      /\ pc[d] = "out" => pc'[d] = "out"
      /\ pc'[d] \in {"end", "put"} /\ bad' = "no" => pc'[d] = pc[d] /\ bad' = bad
      /\ bad' = bad \/ owner = d
  BY <1>1 DEF TripTyped, TripOK, InUse, Places, Cancel, Checkout, HookRuns, BreakIO, ProtocolError,
     Goto, Fail, connVars
<1>4. RedisTyped' /\ WireOK'
  BY <1>1, <1>3 DEF RedisTyped, WireOK, Right
<1>5. ReplyOK(d)'
  BY <1>1, <1>3 DEF ReplyOK, Right
<1> QED BY <1>1, <1>2, <1>3, <1>4, <1>5, OthersReply

\* A method is called.
LEMMA CallRedis ==
  ASSUME RedisInv, NEW d \in Commands, NEW req \in Requests, Call(d, req)
  PROVE  RedisInv'
<1>1. /\ TripInv /\ RedisTyped /\ WireOK /\ ReplyOK(d) /\ TripTyped /\ TripOK(d)
      /\ UNCHANGED <<db, sent, replies, res, applied, bad, wire>>
      /\ op' = [op EXCEPT ![d] = req]
      /\ during' = [during EXCEPT ![d] = IF req.cmd = "GET" THEN {db} ELSE {}]
      /\ pc[d] = "out" /\ pc' = [pc EXCEPT ![d] = "wait"]
  BY DEF RedisInv, TripInv, Call, Begin, Goto, connVars
<1>2. TripInv'
  BY <1>1, RedisKeepsTrip DEF RedisNext
<1>3. RedisTyped'
  BY <1>1 DEF RedisTyped
<1>4. wire # <<d>>
  <2>1. owner # d
    BY <1>1 DEF TripOK, InUse
  <2>2. \A c \in Commands : wire = <<c>> => c # d
    BY <1>1, <2>1, WireShape
  <2> QED BY <2>2
<1>5. \A c \in Commands \ {d} : op'[c] = op[c] /\ during'[c] = during[c] /\ pc'[c] = pc[c]
  BY <1>1 DEF RedisTyped, TripTyped
<1>6. WireOK'
  BY <1>1, <1>4, <1>5 DEF WireOK, Right
<1>7. ReplyOK(d)'
  BY <1>1 DEF RedisTyped, TripTyped, ReplyOK
<1> QED BY <1>1, <1>2, <1>3, <1>5, <1>6, <1>7, OthersReply

\* A request goes out, on a connection with nothing on it.
LEMMA WriteRedis ==
  ASSUME RedisInv, NEW d \in Commands, WriteCommand(d)
  PROVE  RedisInv'
<1>1. /\ TripInv /\ RedisTyped /\ WireOK /\ ReplyOK(d) /\ TripTyped /\ TripOK(d)
      /\ UNCHANGED <<db, replies, op, res, during, applied, bad>>
      /\ wire' = Append(wire, d) /\ sent' = Append(sent, op[d])
      /\ pc[d] = "write" /\ pc' = [pc EXCEPT ![d] = "written"]
  BY DEF RedisInv, TripInv, WriteCommand, Write, Goto
<1>2. TripInv'
  BY <1>1, RedisKeepsTrip DEF RedisNext
<1>3. wire = <<>> /\ sent = <<>> /\ replies = <<>>
  BY <1>1 DEF TripOK, WireOK
<1>4. wire' = <<d>> /\ sent' = <<op[d]>> /\ replies' = <<>>
  BY <1>1, <1>3
<1>5. RedisTyped' /\ WireOK'
  BY <1>1, <1>4 DEF RedisTyped, WireOK
<1>6. ReplyOK(d)' /\ \A c \in Commands \ {d} : pc'[c] = pc[c]
  BY <1>1 DEF TripTyped, ReplyOK
<1> QED BY <1>1, <1>2, <1>5, <1>6, OthersReply

\* A reply is read: the one to the command's own request.
LEMMA ReadRedis ==
  ASSUME RedisInv, NEW d \in Commands, ReadReply(d)
  PROVE  RedisInv'
<1>1. /\ TripInv /\ RedisTyped /\ WireOK /\ ReplyOK(d) /\ TripTyped /\ TripOK(d)
      /\ UNCHANGED <<db, op, during, applied, bad>>
      /\ replies # <<>> /\ Head(replies) # "malformed" /\ res' = [res EXCEPT ![d] = Head(replies)]
      /\ wire' = Tail(wire) /\ sent' = Tail(sent) /\ replies' = Tail(replies)
      /\ pc[d] = "read" /\ pc' = [pc EXCEPT ![d] = "end"]
  BY DEF RedisInv, TripInv, ReadReply, Read, Goto
<1>2. TripInv'
  BY <1>1, RedisKeepsTrip DEF RedisNext
<1>3. PICK r \in Replies :
      /\ wire = <<d>> /\ sent = <<op[d]>> /\ replies = <<r>>
      /\ r \in {"error", "malformed"} \/ Right(d, r)
  BY <1>1 DEF TripOK, WireOK
<1>4. Head(replies) = r /\ wire' = <<>> /\ sent' = <<>> /\ replies' = <<>>
  BY <1>1, <1>3
<1>5. RedisTyped' /\ WireOK'
  BY <1>1, <1>4 DEF RedisTyped, WireOK
<1>6. ReplyOK(d)'
  BY <1>1, <1>3, <1>4 DEF RedisTyped, TripTyped, ReplyOK, Right
<1>7. \A c \in Commands \ {d} : pc'[c] = pc[c] /\ res'[c] = res[c]
  BY <1>1 DEF RedisTyped, TripTyped
<1> QED BY <1>1, <1>2, <1>5, <1>6, <1>7, OthersReply

\* The other steps of a command; when it returns nothing of it is on the wire.
LEMMA RunRedis ==
  ASSUME RedisInv, NEW d \in Commands, Run(d), Settle(d)
  PROVE  RedisInv'
<1>1. TripInv /\ RedisTyped /\ WireOK /\ ReplyOK(d) /\ TripTyped /\ TripOK(d)
  BY DEF RedisInv, TripInv
<1>2. TripInv'
  BY <1>1, RedisKeepsTrip DEF RedisNext
<1>3. /\ wire' = wire \/ wire' = <<>>
      /\ \A c \in Commands \ {d} : pc'[c] = pc[c]
      /\ pc[d] # "out"
      /\ pc'[d] \in {"end", "put"} /\ bad' = "no" => pc[d] = "end" /\ bad' = bad
      /\ bad' = bad \/ owner = d
  <2> USE <1>1 DEF TripTyped, TripOK, InUse, Places
  <2>1. CASE GiveUp(d) \/ ArmHook(d) \/ SetWriteDeadline(d) \/ CheckBeforeWrite(d) \/ WriteTripped(d)
    BY <2>1 DEF GiveUp, Returned, ArmHook, SetWriteDeadline, CheckBeforeWrite, WriteTripped, Goto, Fail, connVars
  <2>2. CASE SetReadDeadline(d) \/ CheckBeforeRead(d) \/ ReadTripped(d) \/ Stop(d)
    BY <2>2 DEF SetReadDeadline, CheckBeforeRead, ReadTripped, Stop, Goto, Fail, connVars
  <2>3. CASE Park(d) \/ Discard(d)
    BY <2>3 DEF Park, Discard, Leave, Returned, Goto
  <2> QED BY <2>1, <2>2, <2>3 DEF Run
<1>4. /\ db' = db
      /\ res' = [res EXCEPT ![d] = IF pc[d] = "put" THEN NoCommand ELSE res[d]]
      /\ wire' = <<>> => sent' = <<>> /\ replies' = <<>>
      /\ wire' # <<>> => sent' = sent /\ replies' = replies
      /\ pc'[d] # "out" => UNCHANGED <<op, applied, during>>
      /\ pc'[d] = "out" => /\ op' = [op EXCEPT ![d] = NoCommand]
                           /\ applied' = [applied EXCEPT ![d] = FALSE]
                           /\ during' = [during EXCEPT ![d] = {}]
  BY DEF Settle
<1>5. RedisTyped'
  BY <1>1, <1>4 DEF RedisTyped, Replies
<1>6. \A c \in Commands \ {d} :
        op'[c] = op[c] /\ res'[c] = res[c] /\ during'[c] = during[c] /\ (applied'[c] <=> applied[c])
  BY <1>1, <1>4 DEF RedisTyped
<1>7. WireOK'
  <2>1. ASSUME NEW c \in Commands, wire' = <<c>>
        PROVE  /\ wire = <<c>> /\ sent' = sent /\ replies' = replies
               /\ op'[c] = op[c] /\ during'[c] = during[c] /\ (applied'[c] <=> applied[c])
    <3>1. wire = <<c>> /\ sent' = sent /\ replies' = replies
      BY <1>3, <1>4, <2>1
    <3>2. owner' = c
      <4>1. owner' # NoCommand /\ owner' \in Commands
        BY <1>2, <2>1 DEF TripInv, TripTyped, ParkedQuiet
      <4>2. PICK e \in Commands : e = owner'
        BY <4>1
      <4>3. pc'[e] \in InUse /\ TripOK(e)'
        BY <1>2, <4>2 DEF TripInv, TripOK
      <4>4. wire' = <<e>>
        BY <2>1, <4>3 DEF TripOK, InUse, Places
      <4> QED BY <2>1, <4>2, <4>4
    <3>3. c = d => pc'[d] # "out"
      BY <1>2, <3>2 DEF TripInv, TripOK, InUse
    <3> QED BY <1>4, <1>6, <3>1, <3>3
  <2> QED BY <1>1, <1>4, <2>1 DEF WireOK, Right
<1>8. ReplyOK(d)'
  <2>1. CASE pc'[d] = "out"
    BY <1>1, <1>4, <2>1 DEF RedisTyped, ReplyOK
  <2>2. CASE pc'[d] # "out"
    BY <1>1, <1>3, <1>4, <2>2 DEF RedisTyped, ReplyOK, Right
  <2> QED BY <2>1, <2>2
<1> QED BY <1>1, <1>2, <1>3, <1>4, <1>5, <1>6, <1>7, <1>8, OthersReply

\* Every step of the Redis cache.
LEMMA RedisStepInv ==
  ASSUME RedisInv, RedisNext
  PROVE  RedisInv'
BY ServerRedis, CallRedis, WriteRedis, ReadRedis, QuietRedis, RunRedis DEF RedisNext

-----------------------------------------------------------------------------
\* The memory cache.

\* The value of a key that has e for its entry.
ValueOf(e) == IF e = None THEN None ELSE e.val

\* The types of the memory cache's state.
MemTyped ==
  /\ DOMAIN items \subseteq Keys /\ \A k \in DOMAIN items : items[k] \in Entries
  /\ live \in [Keys -> Entries \cup {None}]
  /\ get \in [Readers -> {"idle", "lock", "judge", "answer"}]
  /\ want \in [Readers -> Keys \cup {None}] /\ entry \in [Readers -> Entries \cup {None}]
  /\ result \in [Readers -> Values \cup {None}]
  /\ seen \in [Readers -> SUBSET (Values \cup {None})]

\* The map forgets, but has nothing that is not the key's entry, unless it is expired.
Remembers == \A k \in DOMAIN items : Expired(items[k]) \/ live[k] = items[k]

\* A Get has seen what its key holds now, and what it is going to return.
GetOK(r) ==
  /\ get[r] # "idle" => want[r] \in Keys /\ ValueOf(live[want[r]]) \in seen[r]
  /\ get[r] = "judge" /\ entry[r] # None /\ ~Expired(entry[r]) => entry[r].val \in seen[r]
  /\ get[r] = "answer" /\ result[r] # None => result[r] \in seen[r]

MemInv == MemTyped /\ Remembers /\ \A r \in Readers : GetOK(r)

USE MemoryAssumption

\* The cache is empty.
LEMMA InitMem == MemInit => MemInv
BY DEF MemInit, MemInv, MemTyped, Remembers, GetOK, NoItems

\* When the contents change, a Get under way keeps what it has seen and sees the new
\* value; the copy it holds can only expire.
LEMMA WitnessKeeps ==
  ASSUME MemInv, live' \in [Keys -> Entries \cup {None}], Witness(live'),
         UNCHANGED <<get, want, result>>,
         NEW r \in Readers,
         entry'[r] # None /\ ~Expired(entry'[r]) =>
           entry[r] # None /\ ~Expired(entry[r]) /\ entry'[r].val = entry[r].val
  PROVE  GetOK(r)' /\ seen' \in [Readers -> SUBSET (Values \cup {None})]
<1>1. MemTyped /\ GetOK(r)
  BY DEF MemInv
<1>2. \A q \in Readers : get[q] # "idle" => want[q] \in Keys
  BY DEF MemInv, GetOK
<1>3. ASSUME NEW q \in Readers, get[q] # "idle"
      PROVE  ValueOf(live'[want[q]]) \in Values \cup {None}
  <2>1. live'[want[q]] \in Entries \cup {None}
    BY <1>2, <1>3
  <2> QED BY <2>1 DEF ValueOf, Entries
<1>4. seen' = [q \in Readers |-> IF get[q] = "idle" THEN {} ELSE seen[q] \cup {ValueOf(live'[want[q]])}]
  BY DEF Witness, ValueOf
<1>5. seen' \in [Readers -> SUBSET (Values \cup {None})]
  BY <1>1, <1>3, <1>4 DEF MemTyped
<1>6. CASE get[r] = "idle"
  BY <1>5, <1>6 DEF GetOK
<1>7. CASE get[r] # "idle"
  <2>1. seen'[r] = seen[r] \cup {ValueOf(live'[want[r]])}
    BY <1>4, <1>7
  <2> QED BY <1>1, <1>5, <1>7, <2>1 DEF GetOK, ValueOf
<1> QED BY <1>6, <1>7

\* Set makes room by forgetting, and Del forgets.
LEMMA StoreMem ==
  ASSUME MemInv, NEW k \in Keys,
         Del(k) \/ \E v \in Values, ttl \in 0..MaxTTL : Set(k, v, ttl)
  PROVE  MemInv'
<1>1. MemTyped /\ Remembers
  BY DEF MemInv
<1>2. UNCHANGED <<get, want, entry, result>> /\ Witness(live')
  BY DEF Del, Set, getVars
<1>3. PICK e \in Entries \cup {None} :
      /\ live' = [live EXCEPT ![k] = e]
      /\ k \in DOMAIN items' => items'[k] \in Entries /\ (Expired(items'[k]) \/ items'[k] = e)
      /\ DOMAIN items' \subseteq DOMAIN items \cup {k}
      /\ \A j \in DOMAIN items' \ {k} : items'[j] = items[j]
  <2>1. CASE Del(k)
    BY <2>1 DEF Del, Restrict
  <2>2. ASSUME NEW v \in Values, NEW ttl \in 0..MaxTTL, Set(k, v, ttl)
        PROVE  \E e \in Entries \cup {None} :
                 /\ live' = [live EXCEPT ![k] = e]
                 /\ k \in DOMAIN items' =>
                      items'[k] \in Entries /\ (Expired(items'[k]) \/ items'[k] = e)
                 /\ DOMAIN items' \subseteq DOMAIN items \cup {k}
                 /\ \A j \in DOMAIN items' \ {k} : items'[j] = items[j]
    <3>1. PICK rest \in Room(k), n \in IF ttl = 0 THEN {Forever} ELSE -1..ttl :
            LET e == [val |-> v, left |-> n] IN
            /\ items' = [j \in DOMAIN rest \cup {k} |-> IF j = k THEN e ELSE rest[j]]
            /\ live' = [live EXCEPT ![k] = IF Expired(e) THEN None ELSE e]
      BY <2>2 DEF Set
    <3> DEFINE e == [val |-> v, left |-> n]
    <3>2. e \in Entries
      BY DEF Entries, Forever
    <3>3. DOMAIN rest \subseteq DOMAIN items /\ \A j \in DOMAIN rest : rest[j] = items[j]
      BY <3>1 DEF Room, Restrict
    <3>4. /\ items' = [j \in DOMAIN rest \cup {k} |-> IF j = k THEN e ELSE rest[j]]
          /\ live' = [live EXCEPT ![k] = IF Expired(e) THEN None ELSE e]
      BY <3>1
    <3> HIDE DEF e
    <3> QED BY <3>2, <3>3, <3>4
  <2> QED BY <2>1, <2>2
<1>4. /\ live' \in [Keys -> Entries \cup {None}]
      /\ DOMAIN items' \subseteq Keys /\ \A j \in DOMAIN items' : items'[j] \in Entries
  BY <1>1, <1>3 DEF MemTyped
<1>5. Remembers'
  BY <1>1, <1>3 DEF MemTyped, Remembers
<1>6. ASSUME NEW r \in Readers PROVE GetOK(r)' /\ seen' \in [Readers -> SUBSET (Values \cup {None})]
  BY <1>2, <1>4, WitnessKeeps
<1>7. seen' \in [Readers -> SUBSET (Values \cup {None})]
  BY <1>2, <1>6 DEF Witness
<1>8. MemTyped'
  BY <1>1, <1>2, <1>4, <1>7 DEF MemTyped
<1> QED BY <1>5, <1>6, <1>8 DEF MemInv

\* An entry gets older: it keeps its value, and what has expired stays so.
LEMMA OlderFacts ==
  ASSUME NEW e \in Entries
  PROVE  /\ Older(e) \in Entries /\ Older(e).val = e.val
         /\ Expired(e) => Expired(Older(e))
         /\ Alive(e) \in Entries \cup {None}
         /\ ~Expired(Older(e)) => Alive(e) = Older(e)
<1>1. e # None /\ e.left \in -1..Forever
  BY DEF Entries
<1>2. Older(e) \in Entries /\ Older(e).val = e.val /\ (Expired(e) => Expired(Older(e)))
  BY <1>1 DEF Older, Expired, Entries, Forever
<1> QED BY <1>1, <1>2 DEF Alive

\* Time passes for the map, for what it ought to hold and for the copies of the Gets.
LEMMA TickMem ==
  ASSUME MemInv, Tick
  PROVE  MemInv'
<1>1. MemTyped /\ Remembers
  BY DEF MemInv
<1>2. /\ UNCHANGED <<get, want, result>> /\ Witness(live')
      /\ items' = [k \in DOMAIN items |-> Older(items[k])]
      /\ entry' = [r \in Readers |-> IF entry[r] = None THEN None ELSE Older(entry[r])]
      /\ live' = [k \in Keys |-> Alive(live[k])]
  BY DEF Tick
<1>3. live' \in [Keys -> Entries \cup {None}]
  <2>1. ASSUME NEW k \in Keys PROVE Alive(live[k]) \in Entries \cup {None}
    <3>1. live[k] = None \/ live[k] \in Entries
      BY <1>1 DEF MemTyped
    <3>2. CASE live[k] = None
      BY <3>2 DEF Alive
    <3>3. CASE live[k] \in Entries
      BY <3>3, OlderFacts
    <3> QED BY <3>1, <3>2, <3>3
  <2> QED BY <1>2, <2>1
<1>4. /\ entry' \in [Readers -> Entries \cup {None}]
      /\ \A r \in Readers : entry'[r] # None /\ ~Expired(entry'[r]) =>
           entry[r] # None /\ ~Expired(entry[r]) /\ entry'[r].val = entry[r].val
  <2>1. ASSUME NEW r \in Readers, entry[r] # None
        PROVE  /\ Older(entry[r]) \in Entries /\ Older(entry[r]).val = entry[r].val
               /\ Expired(entry[r]) => Expired(Older(entry[r]))
    <3>1. PICK e \in Entries : e = entry[r]
      BY <1>1, <2>1 DEF MemTyped
    <3> QED BY <3>1, OlderFacts
  <2>2. ASSUME NEW r \in Readers
        PROVE  /\ entry'[r] \in Entries \cup {None}
               /\ entry'[r] # None /\ ~Expired(entry'[r]) =>
                    entry[r] # None /\ ~Expired(entry[r]) /\ entry'[r].val = entry[r].val
    BY <1>2, <2>1
  <2> QED BY <1>2, <2>2
<1>5. ASSUME NEW k \in DOMAIN items
      PROVE  items'[k] \in Entries /\ (Expired(items'[k]) \/ live'[k] = items'[k])
  <2>1. PICK e \in Entries : e = items[k]
    BY <1>1 DEF MemTyped
  <2>2. items'[k] = Older(e) /\ k \in Keys
    BY <1>1, <1>2, <2>1 DEF MemTyped
  <2>3. Expired(e) \/ live'[k] = Alive(e)
    BY <1>1, <1>2, <2>1, <2>2 DEF Remembers
  <2> QED BY <2>2, <2>3, OlderFacts
<1>6. DOMAIN items' = DOMAIN items
  BY <1>2
<1>7. Remembers'
  BY <1>5, <1>6 DEF Remembers
<1>8. ASSUME NEW r \in Readers PROVE GetOK(r)' /\ seen' \in [Readers -> SUBSET (Values \cup {None})]
  BY <1>2, <1>3, <1>4, WitnessKeeps
<1>9. seen' \in [Readers -> SUBSET (Values \cup {None})]
  BY <1>2, <1>8 DEF Witness
<1>10. MemTyped'
  BY <1>1, <1>2, <1>3, <1>4, <1>5, <1>6, <1>9 DEF MemTyped
<1> QED BY <1>7, <1>8, <1>10 DEF MemInv

\* A Get: the call, the look under the lock, the look at the clock, the return.
LEMMA GetMem ==
  ASSUME MemInv, NEW r \in Readers,
         (\E k \in Keys : Ask(r, k)) \/ Look(r) \/ Judge(r) \/ Return(r)
  PROVE  MemInv'
<1>1. /\ MemTyped /\ Remembers /\ GetOK(r)
      /\ UNCHANGED <<items, live>>
  BY DEF MemInv, Ask, Look, Judge, Return
<1>2. Remembers'
  BY <1>1 DEF Remembers
<1>3. ASSUME NEW q \in Readers \ {r} PROVE GetOK(q)'
  <2>1. /\ GetOK(q) /\ get'[q] = get[q] /\ want'[q] = want[q] /\ entry'[q] = entry[q]
        /\ result'[q] = result[q] /\ seen'[q] = seen[q]
    BY <1>1 DEF MemInv, MemTyped, Ask, Look, Judge, Return
  <2> QED BY <1>1, <2>1 DEF GetOK
<1>4. ASSUME NEW k \in Keys, Ask(r, k) PROVE MemTyped' /\ GetOK(r)'
  <2>1. /\ seen' = [seen EXCEPT ![r] = {ValueOf(live[k])}] /\ get' = [get EXCEPT ![r] = "lock"]
        /\ want' = [want EXCEPT ![r] = k] /\ UNCHANGED <<entry, result>>
    BY <1>4 DEF Ask, ValueOf
  <2>2. ValueOf(live[k]) \in Values \cup {None}
    BY <1>1 DEF MemTyped, ValueOf, Entries
  <2> QED BY <1>1, <2>1, <2>2 DEF MemTyped, GetOK
<1>5. ASSUME Look(r) PROVE MemTyped' /\ GetOK(r)'
  <2>1. /\ get[r] = "lock" /\ get' = [get EXCEPT ![r] = "judge"]
        /\ entry' = [entry EXCEPT ![r] = IF want[r] \in DOMAIN items THEN items[want[r]] ELSE None]
        /\ UNCHANGED <<want, result, seen>>
    BY <1>5 DEF Look
  <2>2. MemTyped'
    BY <1>1, <2>1 DEF MemTyped
  <2>3. ASSUME entry'[r] # None, ~Expired(entry'[r]) PROVE entry'[r].val \in seen[r]
    <3>1. want[r] \in DOMAIN items /\ entry'[r] = items[want[r]]
      BY <1>1, <2>1, <2>3 DEF MemTyped
    <3>2. live[want[r]] = entry'[r]
      BY <1>1, <2>3, <3>1 DEF Remembers
    <3> QED BY <1>1, <2>1, <2>3, <3>2 DEF GetOK, ValueOf
  <2> QED BY <1>1, <2>1, <2>2, <2>3 DEF MemTyped, GetOK
<1>6. ASSUME Judge(r) PROVE MemTyped' /\ GetOK(r)'
  <2>1. PICK v \in Values \cup {None} :
        /\ get[r] = "judge" /\ get' = [get EXCEPT ![r] = "answer"]
        /\ result' = [result EXCEPT ![r] = v]
        /\ v # None => entry[r] # None /\ ~Expired(entry[r]) /\ v = entry[r].val
        /\ UNCHANGED <<want, entry, seen>>
    <3>1. entry[r] # None => entry[r].val \in Values
      BY <1>1 DEF MemTyped, Entries
    <3> QED BY <1>6, <3>1 DEF Judge
  <2> QED BY <1>1, <2>1 DEF MemTyped, GetOK
<1>7. ASSUME Return(r) PROVE MemTyped' /\ GetOK(r)'
  BY <1>1, <1>7 DEF Return, MemTyped, GetOK
<1>8. MemTyped' /\ GetOK(r)'
  BY <1>4, <1>5, <1>6, <1>7
<1> QED BY <1>2, <1>3, <1>8 DEF MemInv

\* The janitor forgets, Close stops it.
LEMMA QuietMem ==
  ASSUME MemInv, Janitor \/ JanitorExits \/ \E c \in Closers : Close(c) \/ CloseReturns(c)
  PROVE  MemInv'
<1>1. /\ UNCHANGED <<get, want, entry, result, live, seen>>
      /\ DOMAIN items' \subseteq DOMAIN items /\ \A k \in DOMAIN items' : items'[k] = items[k]
  BY DEF Janitor, JanitorTick, JanitorSweep, JanitorExits, Close, CloseReturns, getVars, Restrict
<1> QED BY <1>1 DEF MemInv, MemTyped, Remembers, GetOK

-----------------------------------------------------------------------------
CacheInv == MemInv /\ RedisInv

\* The inductive invariant of the cache holds in every reachable state.
THEOREM CacheInvariance == Spec => []CacheInv
<1>1. Init => CacheInv
  BY InitMem, InitRedis DEF Init, CacheInv
<1>2. ASSUME CacheInv, [Next]_cacheVars PROVE CacheInv'
  <2>1. ASSUME UNCHANGED memVars PROVE MemInv'
    BY <1>2, <2>1 DEF CacheInv, memVars, getVars, MemInv, MemTyped, Remembers, GetOK
  <2>2. ASSUME UNCHANGED <<tripVars, redisVars>> PROVE RedisInv'
    <3>1. TripInv'
      BY <1>2, <2>2 DEF CacheInv, RedisInv, tripVars, TripInv, TripTyped, ParkedQuiet, TripOK
    <3>2. RedisTyped' /\ WireOK' /\ \A d \in Commands : ReplyOK(d)'
      BY <1>2, <2>2 DEF CacheInv, RedisInv, tripVars, redisVars, RedisTyped, WireOK, ReplyOK, Right
    <3> QED BY <3>1, <3>2 DEF RedisInv
  <2>3. CASE MemNext /\ UNCHANGED <<tripVars, redisVars>>
    BY <1>2, <2>2, <2>3, StoreMem, TickMem, GetMem, QuietMem DEF MemNext, CacheInv
  <2>4. CASE RedisNext /\ UNCHANGED memVars
    BY <1>2, <2>1, <2>4, RedisStepInv DEF CacheInv
  <2>5. CASE UNCHANGED cacheVars
    BY <2>1, <2>2, <2>5 DEF cacheVars, CacheInv
  <2> QED BY <1>2, <2>3, <2>4, <2>5 DEF Next
<1> QED BY <1>1, <1>2, PTL DEF Spec

\* A caller of either backend gets only what was the key's value during its call.
THEOREM CacheNeverStale == Spec => []NeverStale
<1>1. MemInv => MemNeverStale
  BY DEF MemInv, GetOK, MemNeverStale
<1>2. RedisInv => RedisNeverStale
  BY DEF RedisInv, ReplyOK, Right, RedisNeverStale
<1> QED BY <1>1, <1>2, CacheInvariance, PTL DEF CacheInv, NeverStale

\* roundtrip reads the reply to its own request, whatever commands were cancelled, failed or
\* retried on the connection before.
THEOREM RepliesMatch == Spec => []OwnReply
<1>1. CacheInv => OwnReply
  BY DEF CacheInv, RedisInv, TripInv, TripOK, OwnReply
<1> QED BY <1>1, CacheInvariance, PTL

\* No hook of another command trips the deadlines of one whose own context is live.
THEOREM DeadlinesOwn == Spec => []LiveUndisturbed
<1>1. CacheInv => LiveUndisturbed
  BY DEF CacheInv, RedisInv, TripInv, TripOK, LiveUndisturbed
<1> QED BY <1>1, CacheInvariance, PTL
=============================================================================
