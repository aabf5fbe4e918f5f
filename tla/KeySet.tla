------------------------------- MODULE KeySet -------------------------------
(***************************************************************************)
(* The self-refreshing key set of auth/jwks.go.  key() decides under mu    *)
(* whether to refresh, claims the refresh gap, fetches with mu released,   *)
(* installs the result under mu and looks the kid up again under mu.       *)
(*                                                                         *)
(* The issuer's published sets are numbered.  The code only compares ages  *)
(* with jwksRefreshInterval and jwksMinRefreshGap, so an age stops growing *)
(* once it has reached its limit.                                          *)
(***************************************************************************)
EXTENDS Integers, FiniteSets

CONSTANTS
  Callers,          \* goroutines that verify tokens
  Kids,             \* key ids
  NoKid,            \* the empty kid of a token without one
  RefreshInterval,  \* jwksRefreshInterval
  MinRefreshGap,    \* jwksMinRefreshGap
  FetchTimeout,     \* jwksFetchTimeout
  MaxVersion        \* bound on the sets the issuer publishes

ASSUME KeySetAssumption ==
  /\ RefreshInterval \in Nat \ {0}
  /\ MinRefreshGap \in Nat \ {0}
  /\ FetchTimeout \in 0..(MinRefreshGap - 1)
  /\ MaxVersion \in Nat
  /\ NoKid \notin Kids

VARIABLES
  published,   \* published[v]: the kids of the issuer's set number v
  current,     \* the issuer's current set
  installed,   \* KeySet.keys, as the number of the set it holds
  fetchedAge,  \* time since fetchedAt, up to RefreshInterval
  attemptAge,  \* time since attemptedAt, up to MinRefreshGap
  pc, wanted,  \* of each caller: where it is, the kid it resolves
  had,         \* whether the kid was known before the fetch
  got,         \* the set the issuer has answered with, or -1
  wait,        \* time since the fetch began
  reply        \* key()'s second result

keySetVars == <<published, current, installed, fetchedAge, attemptAge, pc, wanted, had, got, wait, reply>>
issuerVars == <<published, current>>

Versions == 0..MaxVersion
Asked == Kids \cup {NoKid}

\* lookup: a token without a kid is resolved only by a set of one key.
Lookup(v, kid) == IF kid = NoKid THEN Cardinality(published[v]) = 1 ELSE kid \in published[v]

\* parseJWKS refuses a set without a usable key.
Sets == SUBSET Kids \ {{}}

\* NewJWKS has claimed the gap and fetched once.
KeySetInit ==
  /\ \E S \in Sets : published = [v \in Versions |-> IF v = 0 THEN S ELSE {}]
  /\ current = 0 /\ installed = 0
  /\ fetchedAge = 0 /\ attemptAge \in 0..FetchTimeout
  /\ pc = [p \in Callers |-> "idle"]
  /\ wanted = [p \in Callers |-> NoKid]
  /\ had = [p \in Callers |-> FALSE]
  /\ got = [p \in Callers |-> -1]
  /\ wait = [p \in Callers |-> 0]
  /\ reply = [p \in Callers |-> FALSE]

\* key() returns ok; the locals of the call are gone.
Answer(p, ok) ==
  /\ reply' = [reply EXCEPT ![p] = ok]
  /\ pc' = [pc EXCEPT ![p] = "answered"]
  /\ had' = [had EXCEPT ![p] = FALSE]
  /\ got' = [got EXCEPT ![p] = -1]
  /\ wait' = [wait EXCEPT ![p] = 0]

Stale == fetchedAge >= RefreshInterval

\* key(): the current set serves a known kid that is not stale, and any kid
\* within the gap.
Serve(p, kid) ==
  /\ pc[p] = "idle"
  /\ (Lookup(installed, kid) /\ ~Stale) \/ attemptAge < MinRefreshGap
  /\ wanted' = [wanted EXCEPT ![p] = kid]
  /\ Answer(p, Lookup(installed, kid))
  /\ UNCHANGED <<issuerVars, installed, fetchedAge, attemptAge>>

\* Faulty variant: the gap is not claimed before the lock is released.
StartFetch_NoClaim(p, kid) ==
  /\ pc[p] = "idle"
  /\ ~Lookup(installed, kid) \/ Stale
  /\ attemptAge >= MinRefreshGap
  /\ attemptAge' = attemptAge
  /\ wanted' = [wanted EXCEPT ![p] = kid]
  /\ had' = [had EXCEPT ![p] = Lookup(installed, kid)]
  /\ got' = [got EXCEPT ![p] = -1]
  /\ wait' = [wait EXCEPT ![p] = 0]
  /\ pc' = [pc EXCEPT ![p] = "fetch"]
  /\ UNCHANGED <<issuerVars, installed, fetchedAge, reply>>

StartFetch(p, kid) ==
  /\ pc[p] = "idle"
  /\ ~Lookup(installed, kid) \/ Stale
  /\ attemptAge >= MinRefreshGap
  /\ attemptAge' = 0
  /\ wanted' = [wanted EXCEPT ![p] = kid]
  /\ had' = [had EXCEPT ![p] = Lookup(installed, kid)]
  /\ got' = [got EXCEPT ![p] = -1]
  /\ wait' = [wait EXCEPT ![p] = 0]
  /\ pc' = [pc EXCEPT ![p] = "fetch"]
  /\ UNCHANGED <<issuerVars, installed, fetchedAge, reply>>

\* The issuer answers the request with the set it has at that moment.
IssuerAnswers(p) ==
  /\ pc[p] = "fetch" /\ got[p] = -1
  /\ got' = [got EXCEPT ![p] = current]
  /\ UNCHANGED <<issuerVars, installed, fetchedAge, attemptAge, pc, wanted, had, wait, reply>>

\* fetchAndSwap installs the answer.
Swap(p) ==
  /\ pc[p] = "fetch" /\ got[p] # -1
  /\ installed' = got[p]
  /\ fetchedAge' = 0
  /\ pc' = [pc EXCEPT ![p] = "swapped"]
  /\ UNCHANGED <<issuerVars, attemptAge, wanted, had, got, wait, reply>>

\* Faulty variant: a kid that was unknown before the fetch is refused.
Reread_Before(p) ==
  /\ pc[p] = "swapped"
  /\ Answer(p, had[p])
  /\ UNCHANGED <<issuerVars, installed, fetchedAge, attemptAge, wanted>>

\* key() looks again after a fetch that succeeded ...
Reread(p) ==
  /\ pc[p] = "swapped"
  /\ Answer(p, Lookup(installed, wanted[p]))
  /\ UNCHANGED <<issuerVars, installed, fetchedAge, attemptAge, wanted>>

\* ... and answers what it knew before one that failed.
FetchFails(p) ==
  /\ pc[p] = "fetch"
  /\ Answer(p, had[p])
  /\ UNCHANGED <<issuerVars, installed, fetchedAge, attemptAge, wanted>>

Return(p) ==
  /\ pc[p] = "answered"
  /\ pc' = [pc EXCEPT ![p] = "idle"]
  /\ wanted' = [wanted EXCEPT ![p] = NoKid]
  /\ reply' = [reply EXCEPT ![p] = FALSE]
  /\ UNCHANGED <<issuerVars, installed, fetchedAge, attemptAge, had, got, wait>>

\* The issuer adds, revokes or rotates keys.
Rotate ==
  /\ current < MaxVersion
  /\ current' = current + 1
  /\ \E S \in Sets : published' = [published EXCEPT ![current + 1] = S]
  /\ UNCHANGED <<installed, fetchedAge, attemptAge, pc, wanted, had, got, wait, reply>>

Older(age, limit) == IF age < limit THEN age + 1 ELSE limit

\* Time passes; the HTTP client ends a fetch by its timeout.
KeySetTick ==
  /\ \A p \in Callers : pc[p] = "fetch" => wait[p] < FetchTimeout
  /\ fetchedAge' = Older(fetchedAge, RefreshInterval)
  /\ attemptAge' = Older(attemptAge, MinRefreshGap)
  /\ wait' = [p \in Callers |-> IF pc[p] = "fetch" THEN wait[p] + 1 ELSE wait[p]]
  /\ UNCHANGED <<issuerVars, installed, pc, wanted, had, got, reply>>

KeySetNext ==
  \/ \E p \in Callers :
       \/ \E kid \in Asked : Serve(p, kid) \/ StartFetch(p, kid)
       \/ IssuerAnswers(p) \/ Swap(p) \/ Reread(p) \/ FetchFails(p) \/ Return(p)
  \/ Rotate \/ KeySetTick

KeySetSpec == KeySetInit /\ [][KeySetNext]_keySetVars

-----------------------------------------------------------------------------
KeySetTypeOK ==
  /\ published \in [Versions -> SUBSET Kids]
  /\ current \in Versions /\ installed \in Versions
  /\ fetchedAge \in 0..RefreshInterval /\ attemptAge \in 0..MinRefreshGap
  /\ pc \in [Callers -> {"idle", "fetch", "swapped", "answered"}]
  /\ wanted \in [Callers -> Asked]
  /\ had \in [Callers -> BOOLEAN] /\ reply \in [Callers -> BOOLEAN]
  /\ got \in [Callers -> Versions \cup {-1}]
  /\ wait \in [Callers -> 0..FetchTimeout]

\* At most one fetch is under way, whatever mix of unknown kids and stale sets
\* the callers meet: the gap claimed under mu outlasts the fetch.
OneFetch == \A p, q \in Callers : pc[p] = "fetch" /\ pc[q] = "fetch" => p = q

\* An answer that arrives late never replaces a set the issuer published later
\* (a revoked key does not come back).
NeverOlder == [][installed' >= installed]_keySetVars

\* Whatever key() answers, also after a failed fetch and from what it read
\* before it, is what the set held at that moment says: an outage locks no
\* known key out, and a key dropped by a refresh is refused by everyone.
AnswerCurrent ==
  [][\A p \in Callers :
       pc[p] # "answered" /\ pc'[p] = "answered" => (reply'[p] <=> Lookup(installed, wanted'[p]))]_keySetVars
=============================================================================
