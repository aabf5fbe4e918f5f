------------------------------ MODULE RespPool ------------------------------
(***************************************************************************)
(* The connection pool of internal/resp/client.go: Do, attempt, getConn,   *)
(* putConn, dial and Close.  A command holds one token of the semaphore    *)
(* from getConn to putConn; the idle list and the closed flag are read and *)
(* written under mu, but dialling, the command, closing a socket and       *)
(* giving the token back happen outside it, as steps of their own.         *)
(*                                                                         *)
(* What happens on the wire during a command is module RespRoundtrip; here *)
(* a command ends cleanly, broken, or timed out.                           *)
(***************************************************************************)
EXTENDS Integers, FiniteSets

CONSTANTS
  Procs,      \* goroutines that call Do
  Conns,      \* identities of sockets; one is free again once closed
  PoolSizes,  \* values of Options.PoolSize
  NoConn

ASSUME PoolAssumption ==
  /\ IsFiniteSet(Procs)
  /\ PoolSizes \subseteq Nat \ {0}
  /\ NoConn \notin Conns

VARIABLES
  at,          \* where each goroutine is
  doCtx,       \* "live" or "done"
  held,        \* the connection it has checked out, or NoConn
  fromIdle,    \* getConn's second result
  again,       \* attempt's second result: the failure may be retried
  second,      \* this is Do's second attempt
  poolSize,    \* Options.PoolSize, the capacity of sem
  sem,         \* number of tokens taken
  idle,        \* parked connections (the order of the list is left out)
  poolClosed,  \* Client.closed
  stolen,      \* the idle connections Close took and has still to close
  open,        \* sockets that are open on our side
  dead,        \* open sockets whose peer has gone
  marked       \* open sockets marked by the cancel hook

procVars == <<at, doCtx, held, fromIdle, again, second>>
poolVars == <<poolSize, sem, idle, poolClosed, stolen>>
sockVars == <<open, dead, marked>>
respVars == <<procVars, poolVars, sockVars>>

(***************************************************************************)
(* wait    blocked on sem            token    has a token, before mu       *)
(* dial    connecting                auth     socket open, AUTH/SELECT     *)
(* cmd     in roundtrip              put      in putConn                   *)
(* discard about to close the socket release  about to give the token back *)
(***************************************************************************)
PoolPlaces == {"out", "wait", "token", "dial", "auth", "cmd", "put", "discard", "release"}
HasToken == PoolPlaces \ {"out", "wait"}
HasConn == {"auth", "cmd", "put", "discard"}

PoolInit ==
  /\ at = [p \in Procs |-> "out"]
  /\ doCtx = [p \in Procs |-> "live"]
  /\ held = [p \in Procs |-> NoConn]
  /\ fromIdle = [p \in Procs |-> FALSE]
  /\ again = [p \in Procs |-> FALSE]
  /\ second = [p \in Procs |-> FALSE]
  /\ poolSize \in PoolSizes /\ sem = 0
  /\ idle = {} /\ poolClosed = FALSE /\ stolen = {}
  /\ open = {} /\ dead = {} /\ marked = {}

Move(p, place) == at' = [at EXCEPT ![p] = place]

Do(p) ==
  /\ at[p] = "out"
  /\ Move(p, "wait")
  /\ UNCHANGED <<doCtx, held, fromIdle, again, second, poolVars, sockVars>>

\* Do returns, and its variables go with it.
LeaveDo(p) ==
  /\ Move(p, "out")
  /\ doCtx' = [doCtx EXCEPT ![p] = "live"]
  /\ second' = [second EXCEPT ![p] = FALSE]

CancelDo(p) ==
  /\ at[p] # "out" /\ doCtx[p] = "live"
  /\ doCtx' = [doCtx EXCEPT ![p] = "done"]
  /\ UNCHANGED <<at, held, fromIdle, again, second, poolVars, sockVars>>

\* The select of getConn.
Acquire(p) ==
  /\ at[p] = "wait" /\ sem < poolSize
  /\ sem' = sem + 1
  /\ Move(p, "token")
  /\ UNCHANGED <<doCtx, held, fromIdle, again, second, poolSize, idle, poolClosed, stolen, sockVars>>

LeaveQueue(p) ==
  /\ at[p] = "wait" /\ doCtx[p] = "done"
  /\ LeaveDo(p)
  /\ UNCHANGED <<held, fromIdle, again, poolVars, sockVars>>

\* The section of getConn under mu.
RefuseClosed(p) ==
  /\ at[p] = "token" /\ poolClosed
  /\ Move(p, "release")
  /\ UNCHANGED <<doCtx, held, fromIdle, again, second, poolVars, sockVars>>

Reuse(p) ==
  /\ at[p] = "token" /\ ~poolClosed
  /\ \E c \in idle :
       /\ held' = [held EXCEPT ![p] = c]
       /\ idle' = idle \ {c}
  /\ fromIdle' = [fromIdle EXCEPT ![p] = TRUE]
  /\ Move(p, "cmd")
  /\ UNCHANGED <<doCtx, again, second, poolSize, sem, poolClosed, stolen, sockVars>>

\* Faulty variant: dials although a connection is parked.
StartDial_Eager(p) ==
  /\ at[p] = "token" /\ ~poolClosed
  /\ fromIdle' = [fromIdle EXCEPT ![p] = FALSE]
  /\ Move(p, "dial")
  /\ UNCHANGED <<doCtx, held, again, second, poolVars, sockVars>>

StartDial(p) ==
  /\ at[p] = "token" /\ ~poolClosed /\ idle = {}
  /\ fromIdle' = [fromIdle EXCEPT ![p] = FALSE]
  /\ Move(p, "dial")
  /\ UNCHANGED <<doCtx, held, again, second, poolVars, sockVars>>

-----------------------------------------------------------------------------
\* Faulty variant: getConn returns the error of the dial and keeps the token.
DialFails_KeepsToken(p) ==
  /\ at[p] = "dial"
  /\ LeaveDo(p)
  /\ UNCHANGED <<held, fromIdle, again, poolVars, sockVars>>

\* dial: the socket opens, then AUTH and SELECT run on it.
DialFails(p) ==
  /\ at[p] = "dial"
  /\ Move(p, "release")
  /\ UNCHANGED <<doCtx, held, fromIdle, again, second, poolVars, sockVars>>

\* Sockets that are not open are interchangeable: one of them is taken.
Connect(p) ==
  /\ at[p] = "dial"
  /\ Conns \ open # {}
  /\ LET c == CHOOSE k \in Conns \ open : TRUE
     IN  /\ held' = [held EXCEPT ![p] = c]
         /\ open' = open \cup {c}
  /\ Move(p, "auth")
  /\ UNCHANGED <<doCtx, fromIdle, again, second, poolVars, dead, marked>>

\* When a roundtrip returns, stop() tells whether its cancel hook was started.
Mark(p) == marked' = IF doCtx[p] = "done" THEN marked \cup {held[p]} ELSE marked

\* Faulty variant: a failed handshake drops the connection without closing it.
Handshake_Forgets(p) ==
  /\ at[p] = "auth"
  /\ Mark(p)
  /\ \/ held[p] \notin dead /\ Move(p, "cmd") /\ UNCHANGED held
     \/ Move(p, "release") /\ held' = [held EXCEPT ![p] = NoConn]
  /\ UNCHANGED <<doCtx, fromIdle, again, second, poolVars, open, dead>>

Handshake(p) ==
  /\ at[p] = "auth"
  /\ Mark(p)
  /\ \/ held[p] \notin dead /\ Move(p, "cmd")
     \/ Move(p, "discard")
  /\ UNCHANGED <<doCtx, held, fromIdle, again, second, poolVars, open, dead>>

\* roundtrip in attempt.  A clean end is a reply, a server Error included; on a
\* dead socket the end is never clean.  Only a broken end on a reused
\* connection is a candidate for a retry.
Clean(p) ==
  /\ at[p] = "cmd" /\ held[p] \notin dead
  /\ Mark(p)
  /\ Move(p, "put")
  /\ UNCHANGED <<doCtx, held, fromIdle, again, second, poolVars, open, dead>>

Broken(p) ==
  /\ at[p] = "cmd"
  /\ Mark(p)
  /\ Move(p, "discard")
  /\ again' = [again EXCEPT ![p] = fromIdle[p]]
  /\ UNCHANGED <<doCtx, held, fromIdle, second, poolVars, open, dead>>

TimedOut(p) ==
  /\ at[p] = "cmd"
  /\ Mark(p)
  /\ Move(p, "discard")
  /\ UNCHANGED <<doCtx, held, fromIdle, again, second, poolVars, open, dead>>

\* Faulty variant: a connection that comes back after Close is parked.
Keep_AfterClose(p) ==
  /\ at[p] = "put" /\ held[p] \notin marked
  /\ idle' = idle \cup {held[p]}
  /\ held' = [held EXCEPT ![p] = NoConn]
  /\ Move(p, "release")
  /\ UNCHANGED <<doCtx, fromIdle, again, second, poolSize, sem, poolClosed, stolen, sockVars>>

\* putConn under mu: parked, unless tainted or the client is closed.
Keep(p) ==
  /\ at[p] = "put" /\ held[p] \notin marked /\ ~poolClosed
  /\ idle' = idle \cup {held[p]}
  /\ held' = [held EXCEPT ![p] = NoConn]
  /\ Move(p, "release")
  /\ UNCHANGED <<doCtx, fromIdle, again, second, poolSize, sem, poolClosed, stolen, sockVars>>

Reject(p) ==
  /\ at[p] = "put" /\ (held[p] \in marked \/ poolClosed)
  /\ Move(p, "discard")
  /\ UNCHANGED <<doCtx, held, fromIdle, again, second, poolVars, sockVars>>

Shut(S) ==
  /\ open' = open \ S
  /\ dead' = dead \ S
  /\ marked' = marked \ S

DiscardConn(p) ==
  /\ at[p] = "discard"
  /\ Shut({held[p]})
  /\ held' = [held EXCEPT ![p] = NoConn]
  /\ Move(p, "release")
  /\ UNCHANGED <<doCtx, fromIdle, again, second, poolVars>>

\* The token goes back and attempt returns; Do then makes its one retry or returns.
Release(p) ==
  /\ at[p] = "release"
  /\ sem' = sem - 1
  /\ IF again[p] /\ ~second[p] /\ doCtx[p] = "live"
     THEN Move(p, "wait") /\ second' = [second EXCEPT ![p] = TRUE] /\ UNCHANGED doCtx
     ELSE LeaveDo(p)
  /\ fromIdle' = [fromIdle EXCEPT ![p] = FALSE]
  /\ again' = [again EXCEPT ![p] = FALSE]
  /\ UNCHANGED <<held, poolSize, idle, poolClosed, stolen, sockVars>>

-----------------------------------------------------------------------------
ClosePool ==
  /\ ~poolClosed
  /\ poolClosed' = TRUE
  /\ stolen' = idle
  /\ idle' = {}
  /\ UNCHANGED <<procVars, poolSize, sem, sockVars>>

CloseIdle ==
  /\ \E c \in stolen : Shut({c}) /\ stolen' = stolen \ {c}
  /\ UNCHANGED <<procVars, poolSize, sem, idle, poolClosed>>

\* The peer closes a connection (idle timeout, restart, failover).
PeerDrops ==
  /\ \E c \in open \ dead : dead' = dead \cup {c}
  /\ UNCHANGED <<procVars, poolVars, open, marked>>

\* The steps of one goroutine that never wait for another one.
Step(p) ==
  \/ LeaveQueue(p) \/ RefuseClosed(p) \/ Reuse(p) \/ StartDial(p)
  \/ DialFails(p) \/ Connect(p) \/ Handshake(p)
  \/ Clean(p) \/ Broken(p) \/ TimedOut(p)
  \/ Keep(p) \/ Reject(p) \/ DiscardConn(p) \/ Release(p)

PoolNext ==
  \/ \E p \in Procs : Do(p) \/ CancelDo(p) \/ Acquire(p) \/ Step(p)
  \/ ClosePool \/ CloseIdle \/ PeerDrops

PoolSpec == PoolInit /\ [][PoolNext]_respVars

\* Goroutines are scheduled, dialling and commands end (by their timeouts),
\* and senders blocked on a channel are served in order of arrival.
PoolFairSpec ==
  /\ PoolSpec
  /\ \A p \in Procs : WF_respVars(Step(p)) /\ SF_respVars(Acquire(p))
  /\ WF_respVars(CloseIdle)

-----------------------------------------------------------------------------
PoolTypeOK ==
  /\ at \in [Procs -> PoolPlaces]
  /\ doCtx \in [Procs -> {"live", "done"}]
  /\ held \in [Procs -> Conns \cup {NoConn}]
  /\ fromIdle \in [Procs -> BOOLEAN]
  /\ again \in [Procs -> BOOLEAN]
  /\ second \in [Procs -> BOOLEAN]
  /\ poolSize \in PoolSizes /\ sem \in 0..poolSize
  /\ idle \in SUBSET Conns /\ poolClosed \in BOOLEAN /\ stolen \in SUBSET Conns
  /\ open \in SUBSET Conns /\ dead \in SUBSET Conns /\ marked \in SUBSET Conns

Holders == {p \in Procs : at[p] \in HasToken}
Out == {held[p] : p \in {q \in Procs : at[q] \in HasConn}}

\* Every path through getConn, putConn and Close gives back exactly the token
\* it took: sem counts the goroutines between the two.
TokensExact == sem = Cardinality(Holders)

\* An open socket is parked, checked out by one goroutine, or being closed by
\* Close, and only one of these; so two commands never share a connection and
\* none is lost open.
OneOwner ==
  /\ \A p \in Procs : at[p] \in HasConn <=> held[p] # NoConn
  /\ \A p, q \in Procs : held[p] # NoConn /\ held[p] = held[q] => p = q
  /\ open = idle \cup stolen \cup Out
  /\ idle \cap stolen = {} /\ idle \cap Out = {} /\ stolen \cap Out = {}

\* sem bounds commands, not sockets; yet parked, checked-out and dialled
\* connections together never exceed the pool size, since a goroutine that dials
\* found the idle list empty while it held a token.
LiveCapped == Cardinality(open) <= poolSize

\* A connection whose cancel hook may still trip its deadline is never parked
\* for another request, and nothing is parked once the client is closed.
ParkedClean ==
  /\ idle \cap marked = {}
  /\ poolClosed => idle = {}

\* After Close the last socket is closed, whatever was in flight, and none is
\* opened again.
CloseDrains == poolClosed ~> [](open = {})

\* Every Do returns, also when all tokens are taken and however often the
\* retry sends it back to the end of the queue.
DoReturns == \A p \in Procs : at[p] = "wait" ~> at[p] = "out"
=============================================================================
