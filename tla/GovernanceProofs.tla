--------------------------- MODULE GovernanceProofs ---------------------------
(***************************************************************************)
(* Proofs about the circuit breaker, the load shedder and the interceptor  *)
(* chain around them, for any finite set of calls, any thresholds and any  *)
(* categories an application registers: the breaker and the shedder alone  *)
(* first, then that they run in the chain as they run alone.               *)
(***************************************************************************)
EXTENDS Governance, FiniteSetTheorems, TLAPS

\* A leaf that names no prover is tried with Zenon, then with SMT.
USE ZenonT(3), SMTT(30), ZenonT(20)

-----------------------------------------------------------------------------
(***************************************************************************)
(* The breaker: the inductive invariant, and the refinement of BreakerPolicy *)
(* (its safety part; fairness is left to TLC).                             *)
(***************************************************************************)

\* SlotsExact needs EpisodePurity (a stale call must not be a member, a
\* member must be heard), EpisodePurity needs the generation bound in it.
IInv == TypeOK /\ EpisodePurity /\ SlotsExact /\ BelowThreshold

-----------------------------------------------------------------------------
(***************************************************************************)
(* How the steps of a call change the members of the episode.              *)
(***************************************************************************)

\* The calls in flight are finitely many, so the members can be counted.
LEMMA MembersFinite ==
  ASSUME TypeOK
  PROVE  IsFiniteSet(Members) /\ Cardinality(Members) \in Nat
<1>1. Members \in SUBSET Calls
  BY DEF Members, TypeOK
<1>2. IsFiniteSet(Members)
  BY <1>1, BreakerAssumption, FS_Subset
<1> QED
  BY <1>2, FS_CardinalityType

\* A call admitted into the current episode joins its members.
LEMMA EnterJoins ==
  ASSUME TypeOK, NEW c \in Calls, NEW p \in BOOLEAN,
         Enter(c, p, gen), gen' = gen
  PROVE  /\ c \notin Members
         /\ Members' = Members \cup {c}
         /\ Cardinality(Members') = Cardinality(Members) + 1
<1>1. c \notin Members
  BY DEF Enter, Members
<1>2. Members' = Members \cup {c}
  BY DEF Enter, Members, TypeOK
<1> QED
  BY <1>1, <1>2, MembersFinite, FS_AddElement

\* A call that starts a fresh episode is its only member: every other call
\* holds a generation that is at most the old one.
LEMMA FreshIsAlone ==
  ASSUME TypeOK, EpisodePurity, NEW c \in Calls, NEW p \in BOOLEAN,
         Enter(c, p, gen + 1), gen' = gen + 1
  PROVE  Members' = {c} /\ Cardinality(Members') = 1
<1>1. gen \in Int /\ gen + 1 # gen
  BY DEF TypeOK
<1>2. ASSUME NEW d \in running
      PROVE  adm'[d].gen = adm[d].gen /\ adm[d].gen # gen + 1
  <2>1. d # c /\ d \in Calls
    BY <1>2 DEF Enter, TypeOK
  <2>2. adm'[d] = adm[d]
    BY <2>1 DEF Enter, TypeOK
  <2>3. adm[d].gen \in Int /\ adm[d].gen <= gen
    BY <2>1, <1>2 DEF TypeOK, EpisodePurity, Admission
  <2> QED
    BY <1>1, <2>2, <2>3
<1>3. adm'[c].gen = gen + 1
  BY DEF Enter, TypeOK
<1>4. Members' = {c}
  BY <1>2, <1>3 DEF Members, Enter
<1> QED
  BY <1>4, FS_Singleton

\* A call whose outcome does not count was no member of the episode.
LEMMA StaleIsOutside ==
  ASSUME TypeOK, EpisodePurity, NEW c \in running, ~ Counts(c)
  PROVE  c \notin Members
BY DEF Counts, Members, EpisodePurity, TypeOK, States, Admission

\* A call that leaves without a change of generation leaves the members.
LEMMA LeaveDrops ==
  ASSUME TypeOK, NEW c \in Calls, Leave(c), gen' = gen
  PROVE  Members' = Members \ {c}
BY DEF Leave, Members, TypeOK

\* A new generation starts without members.
LEMMA BumpEmpties ==
  ASSUME TypeOK, EpisodePurity, NEW c \in Calls, Leave(c), gen' = gen + 1
  PROVE  Members' = {}
<1>1. ASSUME NEW d \in running, d # c
      PROVE  adm'[d].gen # gen + 1
  <2>1. adm'[d] = adm[d]
    BY <1>1 DEF Leave, TypeOK
  <2>2. adm[d].gen \in Int /\ adm[d].gen <= gen /\ gen \in Int
    BY <1>1 DEF TypeOK, EpisodePurity, Admission
  <2> QED
    BY <2>1, <2>2
<1> QED
  BY <1>1 DEF Leave, Members

-----------------------------------------------------------------------------
(***************************************************************************)
(* The inductive invariant.                                                *)
(***************************************************************************)

\* Whatever the handler does, the breaker sees one of the three outcomes.
LEMMA NextCases ==
  ASSUME Next
  PROVE  \/ \E c \in Calls : Allow(c)
         \/ \E c \in Calls, out \in Outcomes : Record(c, out)
         \/ Tick
<1>1. ASSUME NEW ctxDone \in BOOLEAN, NEW code \in Codes
      PROVE  Classify(ctxDone, code) \in Outcomes
  BY DEF Classify, Outcomes
<1> QED
  BY <1>1 DEF Next, Return, Panic, Outcomes

\* Initially the breaker is closed and nothing runs.
LEMMA InitIInv == Init => IInv
BY BreakerAssumption
   DEF Init, IInv, TypeOK, EpisodePurity, SlotsExact, BelowThreshold,
       States, Admission, NoAdmission

\* allow() keeps the invariant.
LEMMA AllowIInv ==
  ASSUME IInv, NEW c \in Calls, Allow(c)
  PROVE  IInv'
<1> USE BreakerAssumption
<1>1. TypeOK'
  <2>1. ASSUME NEW p \in BOOLEAN, NEW g \in 0 .. MaxGen, Enter(c, p, g)
        PROVE  running' \in SUBSET Calls /\ adm' \in [Calls -> Admission]
    BY <2>1 DEF IInv, TypeOK, Enter, Admission
  <2>2. CASE AllowClosed(c)
    BY <2>1, <2>2 DEF IInv, TypeOK, AllowClosed, breakerVars
  <2>3. CASE AllowSlot(c)
    <3>1. Enter(c, TRUE, gen) /\ gen \in 0 .. MaxGen
      BY <2>3 DEF IInv, TypeOK, AllowSlot
    <3>2. running' \in SUBSET Calls /\ adm' \in [Calls -> Admission]
      BY <2>1, <3>1
    <3> QED
      BY <2>3, <3>2 DEF IInv, TypeOK, AllowSlot
  <2>4. CASE AllowFresh(c)
    <3>1. gen + 1 \in 0 .. MaxGen
      BY <2>4 DEF IInv, TypeOK, AllowFresh, BumpGen
    <3>2. running' \in SUBSET Calls /\ adm' \in [Calls -> Admission]
      <4>1. Enter(c, TRUE, gen + 1)
        BY <2>4, Zenon DEF AllowFresh
      <4> QED BY <2>1, <3>1, <4>1, Zenon
    <3>3. /\ state' \in States
          /\ failures' \in 0 .. MaxFailures
          /\ openAge' \in 0 .. OpenFor
      BY <2>4 DEF IInv, TypeOK, AllowFresh, States
    <3>4. /\ halfOpenAge' \in 0 .. OpenFor
          /\ probes' \in 0 .. HalfOpenMax
          /\ gen' \in 0 .. MaxGen
      BY <2>4, <3>1 DEF AllowFresh, BumpGen
    <3> QED
      BY <3>2, <3>3, <3>4 DEF TypeOK
  <2> QED
    BY <2>2, <2>3, <2>4 DEF Allow
<1>2. CASE AllowClosed(c)
  BY <1>1, <1>2 DEF IInv, TypeOK, AllowClosed, Enter, breakerVars, Admission,
         EpisodePurity, SlotsExact, BelowThreshold
<1>3. CASE AllowSlot(c)
  <2>1. EpisodePurity' /\ BelowThreshold'
    BY <1>3 DEF IInv, TypeOK, AllowSlot, Enter, Admission, EpisodePurity,
           BelowThreshold
  <2>2. Cardinality(Members') = Cardinality(Members) + 1
    BY <1>3, EnterJoins DEF IInv, AllowSlot
  <2>3. SlotsExact'
    BY <1>3, <2>2 DEF IInv, SlotsExact, AllowSlot
  <2> QED
    BY <1>1, <2>1, <2>3 DEF IInv
<1>4. CASE AllowFresh(c)
  <2>1. Cardinality(Members') = 1
    BY <1>4, FreshIsAlone DEF IInv, AllowFresh, BumpGen
  <2>2. ASSUME NEW d \in running'
        PROVE  adm'[d].gen <= gen' /\ (adm'[d].gen = gen' => adm'[d].probe)
    <3>1. CASE d = c
      BY <3>1, <1>4 DEF IInv, TypeOK, AllowFresh, BumpGen, Enter, Admission
    <3>2. CASE d # c
      BY <3>2, <2>2, <1>4
         DEF IInv, TypeOK, AllowFresh, BumpGen, Enter, Admission, EpisodePurity
    <3> QED BY <3>1, <3>2
  <2>3. state' = "half_open" /\ probes' = 1
    BY <1>4 DEF AllowFresh
  <2> QED
    BY <1>1, <2>1, <2>2, <2>3 DEF IInv, EpisodePurity, SlotsExact, BelowThreshold
<1> QED
  BY <1>2, <1>3, <1>4 DEF Allow

\* record() keeps the invariant, for calls of this episode and stale ones.
LEMMA RecordIInv ==
  ASSUME IInv, NEW c \in Calls, NEW out \in Outcomes, Record(c, out)
  PROVE  IInv'
<1> USE BreakerAssumption
<1>1. TypeOK'
  BY DEF IInv, TypeOK, Record, RecordHalfOpen, RecordClosed, ReleaseSlot, Leave,
         BumpGen, States, Admission, NoAdmission, breakerVars, BelowThreshold
<1>2. /\ c \in running
      /\ running' = running \ {c}
      /\ \A d \in running' : adm'[d] = adm[d]
  BY DEF IInv, TypeOK, Record, Leave
<1>3. gen' = gen \/ gen' = gen + 1
  BY DEF Record, RecordHalfOpen, RecordClosed, BumpGen, breakerVars
<1>4. \A d \in running' : adm[d].gen \in Int /\ adm[d].gen <= gen /\ gen \in Int
  BY <1>2 DEF IInv, TypeOK, EpisodePurity, Admission
<1>5. CASE ~ Counts(c)
  <2>1. UNCHANGED breakerVars
    BY <1>5 DEF Record
  <2>2. Members' = Members
    BY <1>5, <1>2, <2>1, StaleIsOutside, LeaveDrops DEF IInv, Record, breakerVars
  <2> QED
    BY <1>1, <1>2, <2>1, <2>2
       DEF IInv, EpisodePurity, SlotsExact, BelowThreshold, breakerVars
<1>6. CASE Counts(c) /\ gen' = gen
  <2>1. state' = state
    BY <1>6 DEF Record, RecordHalfOpen, RecordClosed, BumpGen, IInv, TypeOK
  <2>2. EpisodePurity'
    BY <1>2, <1>6, <2>1 DEF IInv, EpisodePurity
  <2>3. BelowThreshold'
    BY <1>6, <2>1
       DEF IInv, TypeOK, BelowThreshold, Record, RecordHalfOpen, RecordClosed, BumpGen
  <2>4. Members' = Members \ {c} /\ c \in Members
    BY <1>2, <1>6, LeaveDrops DEF IInv, Record, Counts, Members
  <2>5. Cardinality(Members') = Cardinality(Members) - 1
    BY <2>4, MembersFinite, FS_RemoveElement DEF IInv
  <2>6. SlotsExact'
    <3>1. SUFFICES ASSUME state' = "half_open"
                   PROVE  probes' = Cardinality(Members')
      BY DEF SlotsExact
    <3>2. state = "half_open" /\ probes = Cardinality(Members)
      BY <3>1, <2>1 DEF IInv, SlotsExact
    <3>3. Cardinality(Members) # 0
      BY <2>4, MembersFinite, FS_EmptySet DEF IInv
    <3>4. ReleaseSlot
      BY <3>2, <1>6 DEF Record, RecordHalfOpen, RecordClosed
    <3> QED
      BY <3>2, <3>3, <3>4, <2>5, MembersFinite DEF ReleaseSlot, IInv
  <2> QED
    BY <1>1, <2>2, <2>3, <2>6 DEF IInv
<1>7. CASE Counts(c) /\ gen' = gen + 1
  <2>1. state' # "half_open" /\ (state' = "closed" => failures' = 0)
    BY <1>7, <1>1 DEF Record, RecordHalfOpen, RecordClosed, BumpGen, IInv, TypeOK
  <2>2. EpisodePurity'
    BY <1>2, <1>4, <1>7 DEF EpisodePurity
  <2> QED
    BY <1>1, <2>1, <2>2 DEF IInv, SlotsExact, BelowThreshold
<1> QED
  BY <1>3, <1>5, <1>6, <1>7

\* Time passing keeps the invariant.
LEMMA TickIInv ==
  ASSUME IInv, Tick
  PROVE  IInv'
BY BreakerAssumption
   DEF IInv, TypeOK, Tick, Older, EpisodePurity, SlotsExact, BelowThreshold, Members

\* Every step keeps the inductive invariant.
LEMMA NextIInv == IInv /\ [Next]_vars => IInv'
<1>1. ASSUME IInv, Next PROVE IInv'
  BY <1>1, NextCases, AllowIInv, RecordIInv, TickIInv
<1>2. ASSUME IInv, UNCHANGED vars PROVE IInv'
  BY <1>2 DEF IInv, TypeOK, EpisodePurity, SlotsExact, BelowThreshold, Members, vars
<1> QED BY <1>1, <1>2

\* The inductive invariant holds in every reachable state of the breaker.
THEOREM Invariance == Spec => []IInv
BY InitIInv, NextIInv, PTL DEF Spec

\* The breaker's fields keep their ranges: probes never exceeds HalfOpenMax
\* and failures never MaxFailures, whatever the interleaving of calls.
THEOREM TypeCorrect == Spec => []TypeOK
<1>1. IInv => TypeOK BY DEF IInv
<1> QED BY <1>1, Invariance, PTL

\* The probe counter of allow() and record() is exact for any callers.
THEOREM SlotAccounting == Spec => []SlotsExact
<1>1. IInv => SlotsExact BY DEF IInv
<1> QED BY <1>1, Invariance, PTL

\* record() hears exactly the calls of the current episode.
THEOREM EpisodesPure == Spec => []EpisodePurity
<1>1. IInv => EpisodePurity BY DEF IInv
<1> QED BY <1>1, Invariance, PTL

\* A closed breaker has fewer than MaxFailures failures on its count.
THEOREM ThresholdRespected == Spec => []BelowThreshold
<1>1. IInv => BelowThreshold BY DEF IInv
<1> QED BY <1>1, Invariance, PTL

-----------------------------------------------------------------------------
(***************************************************************************)
(* Refinement.  An admission is an Admit step of the policy; the record of *)
(* a member is a Report step; the record of a stale call, and time passing *)
(* over a closed breaker, leave the policy's variables alone.              *)
(***************************************************************************)

\* The policy counts members with the same operator.
LEMMA SameCardinality == Policy!Cardinality(Members) = Cardinality(Members)
BY DEF Policy!Cardinality, Cardinality

\* A closed breaker without calls is the policy's initial state.
LEMMA InitRefines == Init => Policy!PolicyInit
BY DEF Init, Policy!PolicyInit, Members

\* allow() admits as the policy does.
LEMMA AllowRefines ==
  ASSUME IInv, NEW c \in Calls, Allow(c)
  PROVE  Policy!Admit(c)
<1> USE BreakerAssumption
<1>1. c \notin Members
  BY DEF Allow, AllowClosed, AllowSlot, AllowFresh, Enter, Members
<1>2. CASE AllowClosed(c)
  <2>1. Members' = Members \cup {c}
    BY <1>2, EnterJoins DEF IInv, AllowClosed, breakerVars
  <2>2. Policy!AdmitClosed(c)
    BY <1>2, <2>1 DEF AllowClosed, breakerVars, Policy!AdmitClosed
  <2> QED BY <1>1, <2>2 DEF Policy!Admit
<1>3. CASE AllowSlot(c)
  <2>1. Members' = Members \cup {c}
    BY <1>3, EnterJoins DEF IInv, AllowSlot
  <2>2. Cardinality(Members) < HalfOpenMax
    BY <1>3 DEF IInv, SlotsExact, AllowSlot
  <2>3. Policy!AdmitProbe(c)
    BY <1>3, <2>1, <2>2, SameCardinality DEF AllowSlot, Policy!AdmitProbe
  <2> QED BY <1>1, <2>3 DEF Policy!Admit
<1>4. CASE AllowFresh(c)
  <2>1. Members' = {c}
    BY <1>4, FreshIsAlone DEF IInv, AllowFresh, BumpGen
  <2>2. Policy!Expired
    BY <1>4, SameCardinality
       DEF AllowFresh, EpisodeOver, Policy!Expired, IInv, SlotsExact
  <2>3. state # "closed" /\ state' = "half_open" /\ halfOpenAge' = 0
    BY <1>4 DEF AllowFresh, EpisodeOver
  <2>4. Policy!StartProbing(c)
    BY <2>1, <2>2, <2>3 DEF Policy!StartProbing
  <2> QED BY <1>1, <2>4 DEF Policy!Admit
<1> QED
  BY <1>2, <1>3, <1>4 DEF Allow

\* The record of a stale call is invisible to the policy.
LEMMA StaleRefines ==
  ASSUME IInv, NEW c \in Calls, NEW out \in Outcomes, Record(c, out), ~ Counts(c)
  PROVE  UNCHANGED Policy!policyVars
<1>1. c \in running /\ UNCHANGED breakerVars
  BY DEF Record, Leave
<1>2. Members' = Members
  BY <1>1, StaleIsOutside, LeaveDrops DEF IInv, Record, breakerVars
<1> QED
  BY <1>1, <1>2 DEF breakerVars, Policy!policyVars

\* The record of a member is a report to the policy.
LEMMA MemberRefines ==
  ASSUME IInv, NEW c \in Calls, NEW out \in Outcomes, Record(c, out), Counts(c)
  PROVE  Policy!Report(c, out)
<1> USE BreakerAssumption
<1>1. c \in Members /\ Leave(c)
  BY DEF Record, Leave, Counts, Members
<1>2. gen' = gen => Members' = Members \ {c}
  BY <1>1, LeaveDrops DEF IInv
<1>3. gen' = gen + 1 => Members' = {}
  BY <1>1, BumpEmpties DEF IInv
<1>4. failures \in Nat /\ MaxFailures \in Nat /\ gen \in Nat
  BY DEF IInv, TypeOK
<1>5. CASE RecordHalfOpen(out)
  <2>1. CASE out = "neutral"
    <3>1. Policy!ReportNeutral(c)
      BY <1>2, <1>5, <2>1 DEF RecordHalfOpen, Policy!ReportNeutral
    <3> QED BY <1>1, <2>1, <3>1 DEF Policy!Report
  <2>2. CASE out = "success"
    <3>1. Policy!Close
      BY <1>3, <1>5, <2>2 DEF RecordHalfOpen, BumpGen, Policy!Close
    <3> QED BY <1>1, <1>5, <2>2, <3>1
            DEF RecordHalfOpen, Policy!Report, Policy!ReportSuccess
  <2>3. CASE out = "failure"
    <3>1. Policy!Trip
      BY <1>3, <1>5, <2>3 DEF RecordHalfOpen, BumpGen, Policy!Trip
    <3> QED BY <1>1, <1>5, <2>3, <3>1
            DEF RecordHalfOpen, Policy!Report, Policy!ReportFailure
  <2> QED BY <2>1, <2>2, <2>3 DEF Outcomes
<1>6. CASE RecordClosed(out)
  <2>1. CASE out = "neutral"
    <3>1. Policy!ReportNeutral(c)
      BY <1>2, <1>6, <2>1 DEF RecordClosed, Policy!ReportNeutral
    <3> QED BY <1>1, <2>1, <3>1 DEF Policy!Report
  <2>2. CASE out = "success"
    <3>1. Policy!ReportSuccess(c)
      BY <1>2, <1>6, <2>2 DEF RecordClosed, Policy!ReportSuccess
    <3> QED BY <1>1, <2>2, <3>1 DEF Policy!Report
  <2>3. CASE out = "failure" /\ failures + 1 >= MaxFailures
    <3>1. Policy!Trip
      BY <1>3, <1>6, <2>3 DEF RecordClosed, BumpGen, Policy!Trip
    <3>2. Policy!ReportFailure(c)
      BY <1>6, <2>3, <3>1 DEF RecordClosed, Policy!ReportFailure
    <3> QED BY <1>1, <2>3, <3>2 DEF Policy!Report
  <2>4. CASE out = "failure" /\ failures + 1 < MaxFailures
    <3>1. Policy!ReportFailure(c)
      BY <1>2, <1>4, <1>6, <2>4 DEF RecordClosed, Policy!ReportFailure
    <3> QED BY <1>1, <2>4, <3>1 DEF Policy!Report
  <2> QED BY <1>4, <2>1, <2>2, <2>3, <2>4 DEF Outcomes
<1> QED
  BY <1>5, <1>6 DEF Record

\* Time elapses for the policy while the breaker is not closed.
LEMMA TickRefines ==
  ASSUME IInv, Tick
  PROVE  [Policy!Elapse]_(Policy!policyVars)
<1> USE BreakerAssumption
<1>1. Members' = Members
  BY DEF Tick, Members
<1>2. CASE state = "open"
  BY <1>1, <1>2 DEF Tick, Older, IInv, TypeOK, Policy!Elapse, Policy!policyVars
<1>3. CASE state = "half_open"
  BY <1>1, <1>3 DEF Tick, Older, IInv, TypeOK, Policy!Elapse, Policy!policyVars
<1>4. CASE state = "closed"
  BY <1>1, <1>4 DEF Tick, Policy!policyVars
<1> QED
  BY <1>2, <1>3, <1>4 DEF IInv, TypeOK, States

\* The breaker with its generation numbers implements BreakerPolicy: stale
\* outcomes are never heard, the outcomes of the current episode always are.
THEOREM Refinement == Spec => ImplementsPolicy
<1>1. IInv /\ [Next]_vars => [Policy!PolicyNext]_(Policy!policyVars)
  <2> SUFFICES ASSUME IInv, [Next]_vars
               PROVE  [Policy!PolicyNext]_(Policy!policyVars)
    OBVIOUS
  <2>1. CASE \E c \in Calls : Allow(c)
    BY <2>1, AllowRefines DEF Policy!PolicyNext
  <2>2. CASE \E c \in Calls, out \in Outcomes : Record(c, out)
    BY <2>2, StaleRefines, MemberRefines DEF Policy!PolicyNext, Outcomes, Policy!Outcomes
  <2>3. CASE Tick
    BY <2>3, TickRefines DEF Policy!PolicyNext
  <2>4. CASE UNCHANGED vars
    BY <2>4 DEF vars, Members, Policy!policyVars
  <2> QED
    BY <2>1, <2>2, <2>3, <2>4, NextCases
<1> QED
  BY <1>1, InitRefines, Invariance, PTL DEF Spec, ImplementsPolicy, Policy!PolicySpec

-----------------------------------------------------------------------------
(***************************************************************************)
(* The shedder.                                                            *)
(***************************************************************************)

\* AdmittedBounded alone is not inductive: calls that have added but not yet
\* looked must be counted with those their sum will clear, and their number
\* is bounded through the exact counter.
ShedInv == ShedTypeOK /\ CounterExact /\ ClearedBounded

\* Sets of calls are finite.
LEMMA CallSets ==
  ASSUME NEW S \in SUBSET Calls
  PROVE  IsFiniteSet(S) /\ Cardinality(S) \in Nat
BY ShedderAssumption, FS_Subset, FS_CardinalityType

\* A smaller set of calls has no more members.
LEMMA FewerCalls ==
  ASSUME NEW S \in SUBSET Calls, NEW T \in SUBSET S
  PROVE  Cardinality(T) <= Cardinality(S)
BY CallSets, FS_Subset

\* Nothing is inside initially.
LEMMA InitShedInv == ShedInit => ShedInv
<1> SUFFICES ASSUME ShedInit PROVE ShedInv OBVIOUS
<1>1. ShedTypeOK
  BY DEF ShedInit, ShedTypeOK, Places
<1>2. Inside = {} /\ Cleared = {}
  BY DEF ShedInit, Inside, Cleared
<1> QED
  BY <1>1, <1>2, FS_EmptySet, ShedderAssumption
     DEF ShedInv, CounterExact, ClearedBounded, ShedInit

\* The add: the call's sum is the number of calls inside, itself included.
LEMMA AddShedInv ==
  ASSUME ShedInv, NEW c \in Calls, Add(c)
  PROVE  ShedInv'
<1> USE DEF ShedInv
<1>1. ShedTypeOK'
  BY DEF ShedTypeOK, Add, Places
<1>2. Inside' = Inside \cup {c} /\ c \notin Inside
  BY DEF Inside, Add, ShedTypeOK
<1>3. Cardinality(Inside') = Cardinality(Inside) + 1
  BY <1>2, CallSets, FS_AddElement DEF Inside
<1>4. CounterExact'
  BY <1>3 DEF CounterExact, Add
<1>5. ClearedBounded'
  <2>1. CASE sum'[c] <= MaxInflight
    <3>1. Cleared' \in SUBSET Inside' /\ Inside' \in SUBSET Calls
      BY DEF Cleared, Inside
    <3>2. Cardinality(Cleared') <= Cardinality(Inside')
      BY <3>1, FewerCalls
    <3>3. Cardinality(Inside') = sum'[c]
      BY <1>4 DEF CounterExact, Add, ShedTypeOK
    <3>4. Cardinality(Cleared') \in Nat /\ Cardinality(Inside') \in Nat
      BY <3>1, CallSets
    <3> QED
      BY <2>1, <3>2, <3>3, <3>4, ShedderAssumption DEF ClearedBounded
  <2>2. CASE ~ (sum'[c] <= MaxInflight)
    <3>1. Cleared' = Cleared
      BY <2>2 DEF Cleared, Add, ShedTypeOK
    <3> QED BY <3>1 DEF ClearedBounded
  <2> QED BY <2>1, <2>2
<1> QED BY <1>1, <1>4, <1>5

\* The look at the sum moves nobody in or out and clears nobody new.
LEMMA CheckShedInv ==
  ASSUME ShedInv, NEW c \in Calls, Check(c)
  PROVE  ShedInv'
<1> USE DEF ShedInv
<1>1. ShedTypeOK'
  BY DEF ShedTypeOK, Check, Places
<1>2. Inside' = Inside /\ inflight' = inflight
  BY DEF Inside, Check, ShedTypeOK
<1>3. Cleared' = Cleared
  <2>1. sum[c] \in Nat /\ MaxInflight \in Nat
    BY ShedderAssumption DEF ShedTypeOK
  <2> QED BY <2>1 DEF Cleared, Check, ShedTypeOK
<1> QED
  BY <1>1, <1>2, <1>3 DEF CounterExact, ClearedBounded

\* A call that leaves takes its one with it.
LEMMA TakeOffShedInv ==
  ASSUME ShedInv, NEW c \in Calls, TakeOff(c)
  PROVE  ShedInv'
<1> USE DEF ShedInv
<1>1. Inside' = Inside \ {c} /\ c \in Inside
  BY DEF Inside, TakeOff, ShedTypeOK
<1>2. Cardinality(Inside') = Cardinality(Inside) - 1
  BY <1>1, CallSets, FS_RemoveElement DEF Inside
<1>3. CounterExact'
  BY <1>2 DEF CounterExact, TakeOff
<1>4. inflight' \in Nat
  BY <1>3, CallSets DEF CounterExact, Inside
<1>5. ShedTypeOK'
  BY <1>4 DEF ShedTypeOK, TakeOff, Places
<1>6. Cleared' \in SUBSET Cleared /\ Cleared \in SUBSET Calls
  BY DEF Cleared, TakeOff, ShedTypeOK
<1>7. Cardinality(Cleared') <= Cardinality(Cleared)
  BY <1>6, FewerCalls
<1>8. ClearedBounded'
  BY <1>6, <1>7, CallSets, ShedderAssumption DEF ClearedBounded
<1> QED BY <1>3, <1>5, <1>8

\* The inductive invariant holds in every reachable state.
THEOREM ShedInvariance == ShedSpec => []ShedInv
<1>1. ShedInv /\ [ShedNext]_shedVars => ShedInv'
  <2>1. ASSUME ShedInv, UNCHANGED shedVars PROVE ShedInv'
    BY <2>1 DEF ShedInv, ShedTypeOK, CounterExact, ClearedBounded, Inside, Cleared, shedVars
  <2> QED
    BY <2>1, AddShedInv, CheckShedInv, TakeOffShedInv DEF ShedNext
<1> QED
  BY <1>1, InitShedInv, PTL DEF ShedSpec

\* No interleaving of admit() and release() loses or adds a unit.
THEOREM CounterIsExact == ShedSpec => []CounterExact
<1>1. ShedInv => CounterExact BY DEF ShedInv
<1> QED BY <1>1, ShedInvariance, PTL

\* At most MaxInflight handlers run at once, for any number of callers.
THEOREM ConcurrencyBounded == ShedSpec => []AdmittedBounded
<1>1. ShedInv => AdmittedBounded
  <2> SUFFICES ASSUME ShedInv PROVE AdmittedBounded OBVIOUS
  <2> DEFINE A == {c \in Calls : place[c] = "admitted"}
  <2>1. A \in SUBSET Cleared /\ Cleared \in SUBSET Calls
    BY DEF Cleared
  <2>2. Cardinality(A) <= Cardinality(Cleared)
    BY <2>1, FewerCalls
  <2>3. Cardinality(A) \in Nat /\ Cardinality(Cleared) \in Nat
    BY <2>1, CallSets
  <2> QED
    BY <2>2, <2>3, ShedderAssumption DEF ShedInv, ClearedBounded, AdmittedBounded
<1> QED BY <1>1, ShedInvariance, PTL

-----------------------------------------------------------------------------
\* The error table.

\* The default table gives every category a code of its own.
LEMMA OwnerOfDefault ==
  ASSUME NEW c \in DOMAIN DefaultCode
  PROVE  DefaultCode[c] \in GRPCCodes /\ Owner[DefaultCode[c]] = c
<1>1. DefaultCode[c] \in GRPCCodes
  BY DEF GRPCCodes
<1>2. \A d \in DOMAIN DefaultCode : DefaultCode[d] = DefaultCode[c] => d = c
  BY DEF DefaultCode
<1> QED
  BY <1>1, <1>2 DEF Owner

\* Every registered category has a code of the table, which a default
\* category owns.
LEMMA CodeTyped ==
  ASSUME NEW c \in Registered
  PROVE  /\ Code[c] \in GRPCCodes
         /\ Owner[Code[c]] \in DOMAIN DefaultCode
         /\ Code[Owner[Code[c]]] = Code[c]
<1>1. Code[c] \in GRPCCodes
  BY RegistryAssumption DEF Code, Registered, GRPCCodes
<1>2. PICK d \in DOMAIN DefaultCode : DefaultCode[d] = Code[c]
  BY <1>1 DEF GRPCCodes
<1>3. Owner[Code[c]] = d
  BY <1>2, OwnerOfDefault
<1>4. Code[d] = DefaultCode[d]
  BY DEF Code, Registered
<1> QED
  BY <1>1, <1>2, <1>3, <1>4

\* Whatever the error, its category is registered.
LEMMA ResolveTyped ==
  ASSUME NEW e
  PROVE  Resolve(e).cat \in Registered
<1>1. "internal" \in Registered
  BY DEF Registered, DefaultCode
<1> QED
  BY <1>1 DEF Resolve

\* Crossing the loopback changes neither the category nor the message of an
\* error: resolve() of the status ToGRPCStatus makes of it gives back what
\* resolve() gave, for every shape of error and every application category,
\* whichever default category owns its code (apperr/errors.go).
THEOREM LoopbackStable ==
  ASSUME NEW e
  PROVE  Rendered(ToGRPCStatus(e)) = Resolve(e)
<1> DEFINE r == Resolve(e)
           k == Code[r.cat]
           s == ToGRPCStatus(e)
<1>1. r.cat \in Registered /\ k \in GRPCCodes
  BY ResolveTyped, CodeTyped
<1>2. /\ s.kind = "status" /\ s.code = k /\ s.msg = r.msg
      /\ s.detail = IF Owner[k] = r.cat THEN "" ELSE r.cat
  BY DEF ToGRPCStatus, StatusError
<1>3. /\ r = [cat |-> r.cat, msg |-> r.msg]
      /\ r.cat \notin Forwarded => r.msg = "safe"
      /\ r.cat = "internal" => r.msg = "safe"
  BY DEF Resolve, Forwarded
<1>4. k = Code[r.cat]
  OBVIOUS
<1> HIDE DEF r, k, s
<1>5. "" \notin Registered
  BY RegistryAssumption DEF Registered, DefaultCode
<1>6. StatusCategory(s) = r.cat
  BY <1>1, <1>2, <1>4, <1>5 DEF StatusCategory
<1>7. Named(s) = r.cat
  BY <1>1, <1>2, <1>6 DEF Named
<1>8. Forward(s) = r.msg
  BY <1>2 DEF Forward
<1>9. Resolve(s) = r
  BY <1>1, <1>3, <1>7, <1>8 DEF Resolve
<1> QED
  BY <1>9 DEF Rendered, r, s

\* The table's hard rule: an error without a category a client may know is
\* shown as "internal error" and nothing else, and only two categories
\* forward a text of their own (apperr/errors.go resolve).
THEOREM NothingLeaks ==
  ASSUME NEW e
  PROVE  Rendered(ToGRPCStatus(e)).cat \notin Forwarded
           => Rendered(ToGRPCStatus(e)).msg = "safe"
BY LoopbackStable DEF Resolve, Forwarded

-----------------------------------------------------------------------------
\* The chain.

\* Every error on its way out of the chain is rendered with the category it
\* had inside (interceptor/recovery.go over apperr/errors.go).
THEOREM AnswersKeepCategory == ChainSpec => []CategorySurvives
<1>1. CategorySurvives
  <2> SUFFICES ASSUME NEW c \in Failing
               PROVE  Rendered(Recovered(err[c])) =
                        IF err[c] = Panicked THEN [cat |-> "internal", msg |-> "safe"]
                                             ELSE Resolve(err[c])
    BY DEF CategorySurvives
  <2>1. Resolve(AppError("internal", "own")) = [cat |-> "internal", msg |-> "safe"]
    BY DEF Resolve, AppError, Named
  <2> QED BY <2>1, LoopbackStable DEF Recovered
<1> QED BY <1>1, PTL

\* Whatever code a call returns with, its classification is one that a code
\* CircuitBreaker names has too.
LEMMA ReturnIsNext ==
  ASSUME NEW c \in Calls, NEW ctxDone \in BOOLEAN, NEW code, Return(c, ctxDone, code)
  PROVE  Next
<1>1. \E k \in Codes : Classify(FALSE, k) = Classify(ctxDone, code)
  <2>1. Classify(ctxDone, code) \in {"neutral", "failure", "success"}
    BY DEF Classify
  <2>2. /\ Classify(FALSE, "Canceled") = "neutral"
        /\ Classify(FALSE, "Internal") = "failure"
        /\ Classify(FALSE, "OK") = "success"
    BY DEF Classify, ServerFaults, ClientFaults
  <2>3. {"Canceled", "Internal", "OK"} \subseteq Codes
    BY DEF Codes, ServerFaults, ClientFaults
  <2> QED BY <2>1, <2>2, <2>3
<1> QED BY <1>1 DEF Return, Next

\* In the chain the breaker runs exactly as it does alone, so everything
\* proved of CircuitBreaker holds of it there: no interleaving with the
\* shedder, auth, validation or a panic adds a behaviour to it.
THEOREM ChainRunsBreaker == ChainSpec => Spec
<1>1. ChainInit => Init
  BY DEF ChainInit
<1>2. [ChainNext]_chainVars => [Next]_vars
  <2> SUFFICES ASSUME [ChainNext]_chainVars PROVE [Next]_vars OBVIOUS
  <2>1. ASSUME NEW c \in Calls, BreakerAdmits(c) PROVE Next
    BY <2>1 DEF BreakerAdmits, Next
  <2>2. ASSUME NEW c \in Calls, NEW ctxDone \in BOOLEAN, NEW e, Back(c, ctxDone, e)
        PROVE  Next
    BY <2>2, ReturnIsNext DEF Back
  <2>3. ASSUME NEW c \in Calls, NEW ctxDone \in BOOLEAN,
               Unauthenticated(c, ctxDone) \/ Invalid(c, ctxDone) \/ Handled(c, ctxDone)
        PROVE  Next
    BY <2>2, <2>3 DEF Unauthenticated, AuthDenied, Invalid, Handled
  <2>4. ASSUME NEW c \in Calls, Unwinds(c) PROVE Next
    BY <2>4 DEF Unwinds, Next
  <2>5. ASSUME Passes PROVE Next
    BY <2>5 DEF Passes, Next
  <2>6. ASSUME NEW c \in Calls,
               \/ Arrive(c) \/ Admit(c) \/ RateLimited(c)
               \/ BreakerRefuses(c) \/ Respond(c)
        PROVE  UNCHANGED vars
    BY <2>6 DEF Arrive, Admit, RateLimited, BreakerRefuses, Respond
  <2>7. CASE UNCHANGED chainVars
    BY <2>7 DEF chainVars
  <2> QED BY <2>1, <2>3, <2>4, <2>5, <2>6, <2>7 DEF ChainNext
<1> QED BY <1>1, <1>2, PTL DEF ChainSpec, Spec

\* In the chain the shedder runs exactly as it does alone: the error paths,
\* the refusals and the panics below it all come back through its release.
THEOREM ChainRunsShedder == ChainSpec => ShedSpec
<1>1. ChainInit => ShedInit
  BY DEF ChainInit
<1>2. [ChainNext]_chainVars => [ShedNext]_shedVars
  <2> SUFFICES ASSUME [ChainNext]_chainVars PROVE [ShedNext]_shedVars OBVIOUS
  <2>1. ASSUME NEW c \in Calls, Arrive(c) \/ Admit(c) \/ Respond(c) PROVE ShedNext
    BY <2>1 DEF Arrive, Admit, Respond, ShedNext
  <2>2. ASSUME NEW c \in Calls,
               RateLimited(c) \/ BreakerRefuses(c) \/ BreakerAdmits(c) \/ Unwinds(c)
        PROVE  UNCHANGED shedVars
    BY <2>2 DEF RateLimited, BreakerRefuses, BreakerAdmits, Unwinds
  <2>3. ASSUME NEW c \in Calls, NEW ctxDone \in BOOLEAN,
               Unauthenticated(c, ctxDone) \/ Invalid(c, ctxDone) \/ Handled(c, ctxDone)
        PROVE  UNCHANGED shedVars
    BY <2>3 DEF Unauthenticated, AuthDenied, Invalid, Handled, Back
  <2>4. CASE Passes \/ UNCHANGED chainVars
    BY <2>4 DEF Passes, chainVars
  <2> QED BY <2>1, <2>2, <2>3, <2>4 DEF ChainNext
<1> QED BY <1>1, <1>2, PTL DEF ChainSpec, ShedSpec

\* err stays a function on the calls.
ErrTyped == err = [c \in Calls |-> err[c]]

\* What calls come back with stays an error of the table, nil or a panic.
LEMMA ErrStaysTyped ==
  ASSUME ErrTyped, [ChainNext]_chainVars
  PROVE  ErrTyped'
<1>1. ASSUME NEW c \in Calls, NEW e, Returns(c, e) PROVE ErrTyped'
  BY <1>1 DEF ErrTyped, Returns
<1>2. CASE UNCHANGED err
  BY <1>2 DEF ErrTyped
<1>3. ASSUME NEW c \in Calls,
             \/ Arrive(c) \/ Admit(c) \/ RateLimited(c) \/ BreakerRefuses(c)
             \/ BreakerAdmits(c) \/ Unwinds(c) \/ Respond(c)
      PROVE  ErrTyped'
  BY <1>1, <1>2, <1>3
     DEF Arrive, Admit, RateLimited, BreakerRefuses, BreakerAdmits, Unwinds, Respond
<1>4. ASSUME NEW c \in Calls, NEW ctxDone \in BOOLEAN,
             Unauthenticated(c, ctxDone) \/ Invalid(c, ctxDone) \/ Handled(c, ctxDone)
      PROVE  ErrTyped'
  BY <1>1, <1>4 DEF Unauthenticated, AuthDenied, Invalid, Handled, Back
<1>5. CASE Passes \/ UNCHANGED chainVars
  BY <1>2, <1>5 DEF Passes, chainVars
<1> QED BY <1>3, <1>4, <1>5 DEF ChainNext

\* A call that comes back with a client's fault leaves the episode alone.
LEMMA BackNeutral ==
  ASSUME NEW c \in Calls, NEW ctxDone \in BOOLEAN, NEW e, Back(c, ctxDone, e),
         CodeOf(e) \in {"Unauthenticated", "InvalidArgument"}
  PROVE  UNCHANGED <<state, failures, gen>>
<1>1. Classify(ctxDone, CodeOf(e)) = "neutral"
  BY DEF Classify, ServerFaults, ClientFaults
<1>2. Record(c, "neutral")
  BY <1>1 DEF Back, Return
<1> QED
  BY <1>2 DEF Record, RecordHalfOpen, RecordClosed, breakerVars

\* For any calls, thresholds and handlers: a rejection by auth or validation,
\* or a handler's error of the same codes, never moves the breaker
\* (interceptor/circuitbreaker.go classify and record).
THEOREM RejectionsHarmless == ChainSpec => RejectionsNeutral
<1> DEFINE Harmless ==
      \A c \in running \ running' :
        (err'[c] # Panicked /\ CodeOf(err'[c]) \in {"Unauthenticated", "InvalidArgument"})
          => UNCHANGED <<state, failures, gen>>
<1>1. ChainInit => ErrTyped
  BY DEF ChainInit, ErrTyped
<1>2. ErrTyped /\ [ChainNext]_chainVars => ErrTyped'
  BY ErrStaysTyped
<1>3. ErrTyped /\ [ChainNext]_chainVars => [Harmless]_chainVars
  <2> SUFFICES ASSUME ErrTyped, ChainNext PROVE Harmless
    BY DEF chainVars
  <2>1. ASSUME NEW c \in Calls, NEW ctxDone \in BOOLEAN, NEW e, Back(c, ctxDone, e)
        PROVE  Harmless
    <3>1. err'[c] = e
      BY <2>1 DEF Back, Returns, ErrTyped
    <3>2. running' = running \ {c}
      BY <2>1 DEF Back, Return, Record, Leave
    <3> QED BY <2>1, <3>1, <3>2, BackNeutral
  <2>2. ASSUME NEW c \in Calls, NEW ctxDone \in BOOLEAN,
               Unauthenticated(c, ctxDone) \/ Invalid(c, ctxDone) \/ Handled(c, ctxDone)
        PROVE  Harmless
    BY <2>1, <2>2 DEF Unauthenticated, AuthDenied, Invalid, Handled
  <2>3. ASSUME NEW c \in Calls, Unwinds(c) PROVE Harmless
    <3>1. err'[c] = Panicked
      BY <2>3 DEF Unwinds, Returns, ErrTyped
    <3>2. running' = running \ {c}
      BY <2>3 DEF Unwinds, Panic, Record, Leave
    <3> QED BY <3>1, <3>2
  <2>4. ASSUME NEW c \in Calls, BreakerAdmits(c) PROVE Harmless
    BY <2>4 DEF BreakerAdmits, Allow, AllowClosed, AllowSlot, AllowFresh, Enter
  <2>5. ASSUME NEW c \in Calls,
               \/ Arrive(c) \/ Admit(c) \/ RateLimited(c)
               \/ BreakerRefuses(c) \/ Respond(c)
        PROVE  Harmless
    BY <2>5 DEF Arrive, Admit, RateLimited, BreakerRefuses, Respond, vars
  <2>6. CASE Passes
    BY <2>6 DEF Passes, Tick
  <2> QED BY <2>2, <2>3, <2>4, <2>5, <2>6 DEF ChainNext
<1> QED BY <1>1, <1>2, <1>3, PTL DEF ChainSpec, RejectionsNeutral

\* What is proved of the breaker and of the shedder alone holds in the chain:
\* under every interleaving of refusals, rejections, panics and late returns
\* the half-open slots, the episodes and the in-flight gauge are exact, the
\* handlers running are bounded, and the breaker implements its policy
\* (interceptor/chain.go).
THEOREM ChainSafe ==
  ChainSpec => /\ []SlotsExact
               /\ []EpisodePurity
               /\ []CounterExact
               /\ []AdmittedBounded
               /\ ImplementsPolicy
BY ChainRunsBreaker, ChainRunsShedder, SlotAccounting, EpisodesPure, Refinement,
   CounterIsExact, ConcurrencyBounded, PTL
=============================================================================
