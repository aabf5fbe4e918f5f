---------------------------- MODULE RespRoundtrip ----------------------------
(***************************************************************************)
(* roundtrip of internal/resp/client.go on one pooled connection (PoolSize *)
(* is 1): commands use the connection one after the other, each with a     *)
(* cancel hook that runs in a goroutine of its own and may still be on its *)
(* way when the command has returned.  A command that fails on a parked    *)
(* connection, other than by a timeout, is tried once more.                *)
(*                                                                         *)
(* Nothing forces the peer to read, to answer or to hang up, and nothing   *)
(* forces an I/O timeout (Options can switch the timeouts off): a cancel   *)
(* must get a blocked command out by itself.                               *)
(***************************************************************************)
EXTENDS Sequences

CONSTANTS Commands, NoCommand

ASSUME RoundtripAssumption == NoCommand \notin Commands

VARIABLES
  pc, ctx, hook,  \* of each command
  retried,        \* of each command: Do is in its second attempt
  bad,            \* how the command that is ending failed: "no", "timeout", "broken"
  reused,         \* the connection was parked before this command took it
  owner,          \* the command that has the connection, or NoCommand
  wdl, rdl,       \* write and read deadline: "new" on a new connection, "set" by the
                  \* last command, or "tripped" by a hook
  tainted,        \* conn.tainted
  wire            \* requests on the wire or answered but not read, in order

tripVars == <<pc, ctx, hook, retried, bad, reused, owner, wdl, rdl, tainted, wire>>

Places == {"out", "wait", "begin", "hooked", "wset", "write", "written", "rset", "read",
           "end", "put"}

(***************************************************************************)
(* none      not registered, stopped in time, or done                      *)
(* armed     registered with context.AfterFunc                             *)
(* started   its goroutine runs, SetDeadline(now) still to come            *)
(* fired     it has set the deadlines while the command was still running  *)
(* void      started, but the connection has been closed under it          *)
(***************************************************************************)
Hooks == {"none", "armed", "started", "fired", "void"}

TripInit ==
  /\ pc = [d \in Commands |-> "out"]
  /\ ctx = [d \in Commands |-> "live"]
  /\ hook = [d \in Commands |-> "none"]
  /\ retried = [d \in Commands |-> FALSE]
  /\ bad = "no" /\ reused = FALSE /\ owner = NoCommand /\ tainted = FALSE
  /\ wdl = "new" /\ rdl = "new" /\ wire = <<>>

Goto(d, place) == pc' = [pc EXCEPT ![d] = place]
SetHook(d, h) == hook' = [hook EXCEPT ![d] = h]
Fail(d, how) == bad' = how /\ Goto(d, "end") /\ UNCHANGED <<retried, reused>>
tryVars == <<retried, reused>>
connVars == <<owner, wdl, rdl, tainted, wire>>

\* Do returns; the next one starts with a context of its own.
Returned(d) ==
  /\ Goto(d, "out")
  /\ ctx' = [ctx EXCEPT ![d] = "live"] /\ retried' = [retried EXCEPT ![d] = FALSE]

Begin(d) ==
  /\ pc[d] = "out" /\ hook[d] = "none"
  /\ Goto(d, "wait")
  /\ UNCHANGED <<ctx, hook, bad, tryVars, connVars>>

Cancel(d) ==
  /\ pc[d] # "out" /\ ctx[d] = "live"
  /\ ctx' = [ctx EXCEPT ![d] = "done"]
  /\ SetHook(d, IF hook[d] = "armed" THEN "started" ELSE hook[d])
  /\ UNCHANGED <<pc, bad, tryVars, connVars>>

\* getConn: the token and with it the parked connection, or a new one.
Checkout(d) ==
  /\ pc[d] = "wait" /\ owner = NoCommand
  /\ owner' = d
  /\ reused' = (wdl # "new")
  /\ Goto(d, "begin")
  /\ UNCHANGED <<ctx, hook, retried, bad, wdl, rdl, tainted, wire>>

GiveUp(d) ==
  /\ pc[d] = "wait" /\ ctx[d] = "done"
  /\ Returned(d)
  /\ UNCHANGED <<hook, bad, reused, connVars>>

\* context.AfterFunc starts the hook at once if the context is already done.
ArmHook(d) ==
  /\ pc[d] = "begin"
  /\ SetHook(d, IF ctx[d] = "done" THEN "started" ELSE "armed")
  /\ Goto(d, "hooked")
  /\ UNCHANGED <<ctx, bad, tryVars, connVars>>

\* Setting a deadline wipes out what a hook has set before.
SetWriteDeadline(d) ==
  /\ pc[d] = "hooked"
  /\ wdl' = "set"
  /\ Goto(d, "wset")
  /\ UNCHANGED <<ctx, hook, bad, tryVars, owner, rdl, tainted, wire>>

CheckBeforeWrite(d) ==
  /\ pc[d] = "wset"
  /\ IF ctx[d] = "done" THEN Fail(d, "broken") ELSE Goto(d, "write") /\ UNCHANGED <<bad, tryVars>>
  /\ UNCHANGED <<ctx, hook, connVars>>

\* writeCommand and Flush: the peer takes the request, or the write fails.
Write(d) ==
  /\ pc[d] = "write" /\ wdl # "tripped"
  /\ wire' = Append(wire, d)
  /\ Goto(d, "written")
  /\ UNCHANGED <<ctx, hook, bad, tryVars, owner, wdl, rdl, tainted>>

WriteTripped(d) ==
  /\ pc[d] = "write" /\ wdl = "tripped"
  /\ Fail(d, "timeout")
  /\ UNCHANGED <<ctx, hook, connVars>>

SetReadDeadline(d) ==
  /\ pc[d] = "written"
  /\ rdl' = "set"
  /\ Goto(d, "rset")
  /\ UNCHANGED <<ctx, hook, bad, tryVars, owner, wdl, tainted, wire>>

\* Faulty variant: the read starts without looking at the context again.
CheckBeforeRead_Skip(d) ==
  /\ pc[d] = "rset"
  /\ Goto(d, "read")
  /\ UNCHANGED <<ctx, hook, bad, tryVars, connVars>>

CheckBeforeRead(d) ==
  /\ pc[d] = "rset"
  /\ IF ctx[d] = "done" THEN Fail(d, "broken") ELSE Goto(d, "read") /\ UNCHANGED <<bad, tryVars>>
  /\ UNCHANGED <<ctx, hook, connVars>>

\* readReply takes the next reply off the connection, whoever asked for it; a
\* server Error is a reply too.
Read(d) ==
  /\ pc[d] = "read" /\ rdl # "tripped" /\ wire # <<>>
  /\ wire' = Tail(wire)
  /\ Goto(d, "end")
  /\ UNCHANGED <<ctx, hook, bad, tryVars, owner, wdl, rdl, tainted>>

ReadTripped(d) ==
  /\ pc[d] = "read" /\ rdl = "tripped"
  /\ Fail(d, "timeout")
  /\ UNCHANGED <<ctx, hook, connVars>>

\* An I/O timeout, EOF, a reset or a protocol error.
BreakIO(d) ==
  /\ pc[d] \in {"write", "read"}
  /\ \E how \in {"timeout", "broken"} : Fail(d, how)
  /\ UNCHANGED <<ctx, hook, connVars>>

\* Faulty variant: a hook that has not fired yet is taken for stopped.
Stop_FiredOnly(d) ==
  /\ pc[d] = "end"
  /\ tainted' = (tainted \/ hook[d] = "fired")
  /\ SetHook(d, IF hook[d] = "started" THEN "started" ELSE "none")
  /\ Goto(d, "put")
  /\ UNCHANGED <<ctx, bad, tryVars, owner, wdl, rdl, wire>>

\* The deferred stop(): an armed hook will never run; one that was started
\* marks the connection, and goes on if it has not fired yet.
Stop(d) ==
  /\ pc[d] = "end"
  /\ tainted' = (tainted \/ hook[d] \in {"started", "fired"})
  /\ SetHook(d, IF hook[d] = "started" THEN "started" ELSE "none")
  /\ Goto(d, "put")
  /\ UNCHANGED <<ctx, bad, tryVars, owner, wdl, rdl, wire>>

\* The hook's goroutine.
HookRuns(d) ==
  /\ hook[d] \in {"started", "void"}
  /\ IF hook[d] = "started"
     THEN wdl' = "tripped" /\ rdl' = "tripped"
     ELSE UNCHANGED <<wdl, rdl>>
  /\ SetHook(d, IF owner = d /\ pc[d] # "put" THEN "fired" ELSE "none")
  /\ UNCHANGED <<pc, ctx, bad, tryVars, owner, tainted, wire>>

\* putConn: parked as it is, if neither bad nor tainted.
Park(d) ==
  /\ pc[d] = "put" /\ bad = "no" /\ ~tainted
  /\ owner' = NoCommand /\ reused' = FALSE
  /\ Returned(d)
  /\ UNCHANGED <<hook, bad, wdl, rdl, tainted, wire>>

\* attempt and Do: whether the failed command is tried again.
Again(d) == bad = "broken" /\ reused /\ ctx[d] = "live" /\ ~retried[d]

Leave(d) ==
  IF Again(d)
  THEN Goto(d, "wait") /\ retried' = [retried EXCEPT ![d] = TRUE] /\ UNCHANGED ctx
  ELSE Returned(d)

\* Faulty variant: only a tainted connection is given up.
Discard_TaintedOnly(d) ==
  /\ pc[d] = "put" /\ (bad # "no" \/ tainted)
  /\ owner' = NoCommand /\ reused' = FALSE /\ bad' = "no"
  /\ Leave(d)
  /\ IF tainted
     THEN /\ hook' = [e \in Commands |-> IF hook[e] = "started" THEN "void" ELSE hook[e]]
          /\ wdl' = "new" /\ rdl' = "new" /\ wire' = <<>> /\ tainted' = FALSE
     ELSE UNCHANGED <<hook, wdl, rdl, wire, tainted>>

\* ... closed otherwise; the next command dials a new one.  A hook of the
\* closed connection has nothing left to trip.
Discard(d) ==
  /\ pc[d] = "put" /\ (bad # "no" \/ tainted)
  /\ owner' = NoCommand /\ reused' = FALSE /\ bad' = "no"
  /\ Leave(d)
  /\ hook' = [e \in Commands |-> IF hook[e] = "started" THEN "void" ELSE hook[e]]
  /\ wdl' = "new" /\ rdl' = "new" /\ wire' = <<>> /\ tainted' = FALSE

-----------------------------------------------------------------------------
\* Steps of a command that wait for no one.
Run(d) ==
  \/ GiveUp(d) \/ ArmHook(d) \/ SetWriteDeadline(d) \/ CheckBeforeWrite(d) \/ WriteTripped(d)
  \/ SetReadDeadline(d) \/ CheckBeforeRead(d) \/ ReadTripped(d) \/ Stop(d)
  \/ Park(d) \/ Discard(d)

-----------------------------------------------------------------------------
TripTypeOK ==
  /\ pc \in [Commands -> Places]
  /\ ctx \in [Commands -> {"live", "done"}]
  /\ hook \in [Commands -> Hooks]
  /\ bad \in {"no", "timeout", "broken"} /\ {reused, tainted} \subseteq BOOLEAN /\ retried \in [Commands -> BOOLEAN]
  /\ owner \in Commands \cup {NoCommand}
  /\ {wdl, rdl} \subseteq {"new", "set", "tripped"}
  /\ wire \in {<<>>} \cup {<<d>> : d \in Commands}

\* A command reads the reply to its own request: no reply to an abandoned
\* request is left on a connection that goes back to the pool.
OwnReply == \A d \in Commands : pc[d] = "read" => wire = <<d>>

\* As long as its own context is live, the deadlines of a command in its write
\* or read are the ones it has set.
LiveUndisturbed ==
  \A d \in Commands : ctx[d] = "live" =>
    /\ pc[d] = "write" => wdl = "set"
    /\ pc[d] = "read" => rdl = "set"

\* A cancelled command returns, although the peer stays silent and all I/O
\* timeouts are off.
CancelReturns ==
  \A d \in Commands : (pc[d] # "out" /\ ctx[d] = "done") ~> pc[d] = "out"
=============================================================================
