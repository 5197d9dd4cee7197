------------------------- MODULE CircuitBreakerProofs -------------------------
(***************************************************************************)
(* Proofs about the circuit breaker, for any number of callers, attempts   *)
(* and probes: probes are accounted for and bounded, and the breaker opens *)
(* only on outcomes of its current closed period.                          *)
(***************************************************************************)
EXTENDS CircuitBreaker, FiniteSetTheorems, WellFoundedInduction, TLAPS

States == {"closed", "open", "half"}
Spots == {"idle", "attempt", "call", "backoff"}
Permits == {"none", "probe", "late"}

CountersOK ==
  /\ state \in States
  /\ halfOpenInFlight \in Nat /\ halfOpenSuccess \in Nat
  /\ halfOpenInFlight <= HalfOpenProbes /\ halfOpenSuccess < HalfOpenProbes
  /\ leaked \in Nat
  /\ at \in [Callers -> Spots]
  /\ permit \in [Callers -> Permits]

\* A permit is held only during a call.
PermitsOK == \A c \in Callers : at[c] # "call" => permit[c] = "none"

\* A half-open period ends for all its permits at once.
PeriodOK == state # "half" => Probes = {}

ProbeInv == CountersOK /\ PermitsOK /\ PeriodOK /\ ProbesAccounted

-----------------------------------------------------------------------------
(* Counting the probes after one permit changes.                           *)

\* The probes that are out are finitely many.
LEMMA ProbesFinite ==
  /\ IsFiniteSet(Probes)
  /\ Cardinality(Probes) \in Nat
<1>1. IsFiniteSet(Probes)
  BY FS_Subset, BreakerAssumption DEF Probes, BreakerAssumption
<1>2. QED
  BY <1>1, FS_CardinalityType

\* A caller without a permit that gets one adds a probe.
LEMMA ProbeAdded ==
  ASSUME NEW c \in Callers, CountersOK, permit[c] = "none",
         permit' = [permit EXCEPT ![c] = "probe"]
  PROVE  Cardinality(Probes') = Cardinality(Probes) + 1
<1>1. Probes' = Probes \cup {c} /\ c \notin Probes
  BY DEF Probes, CountersOK
<1>2. QED
  BY <1>1, ProbesFinite, FS_AddElement

\* Giving a permit back removes a probe, if it was one.
LEMMA ProbeRemoved ==
  ASSUME NEW c \in Callers, CountersOK, permit' = Without(permit, c)
  PROVE  Cardinality(Probes') =
           Cardinality(Probes) - (IF permit[c] = "probe" THEN 1 ELSE 0)
<1>1. Probes' = Probes \ {c}
  BY DEF Probes, CountersOK, Without
<1>2. CASE permit[c] = "probe"
  <2>1. c \in Probes
    BY <1>2 DEF Probes
  <2>2. QED
    BY <1>1, <1>2, <2>1, ProbesFinite, FS_RemoveElement
<1>3. CASE permit[c] # "probe"
  <2>1. Probes' = Probes
    BY <1>1, <1>3 DEF Probes
  <2>2. QED
    BY <1>3, <2>1, ProbesFinite
<1>4. QED
  BY <1>2, <1>3

\* When the period ends no permit is a probe any more.
LEMMA PeriodEnds ==
  ASSUME NEW c \in Callers, CountersOK, permit' = Without(Older(permit), c)
  PROVE  /\ Probes' = {}
         /\ permit' \in [Callers -> Permits]
         /\ \A d \in Callers : permit[d] = "none" => permit'[d] = "none"
         /\ permit'[c] = "none"
  BY DEF Probes, CountersOK, Without, Older, Permits

-----------------------------------------------------------------------------
(* What one report does, whatever the caller does next.                    *)

BreakerNext ==
  /\ state' \in States
  /\ halfOpenInFlight' \in Nat /\ halfOpenSuccess' \in Nat
  /\ halfOpenInFlight' <= HalfOpenProbes /\ halfOpenSuccess' < HalfOpenProbes
  /\ leaked' \in Nat
  /\ permit' \in [Callers -> Permits]
  /\ PeriodOK'
  /\ ProbesAccounted'

\* A report of any caller, probe or not, keeps the counts in order.
LEMMA RecordKeeps ==
  ASSUME ProbeInv, NEW c \in Callers, NEW success \in BOOLEAN, record(c, success)
  PROVE  /\ BreakerNext
         /\ permit'[c] = "none"
         /\ \A d \in Callers : permit[d] = "none" => permit'[d] = "none"
<1> USE BreakerAssumption DEF BreakerAssumption
<1>0. CountersOK /\ leaked' = leaked
  BY DEF ProbeInv, record
<1>1. CASE open(c)
  <2>1. Probes' = {} /\ permit' \in [Callers -> Permits]
    BY <1>0, <1>1, PeriodEnds DEF open
  <2>2. permit'[c] = "none" /\ \A d \in Callers : permit[d] = "none" => permit'[d] = "none"
    BY <1>0, <1>1, PeriodEnds DEF open
  <2>3. QED
    BY <1>0, <1>1, <2>1, <2>2
    DEF open, BreakerNext, PeriodOK, ProbesAccounted, CountersOK, States
<1>2. CASE /\ state = "half" /\ state' = "half" /\ permit' = Without(permit, c)
           /\ halfOpenInFlight' = (IF halfOpenInFlight > 0 THEN halfOpenInFlight - 1 ELSE 0)
           /\ halfOpenSuccess + 1 < HalfOpenProbes
           /\ halfOpenSuccess' = halfOpenSuccess + 1
  <2>1. Cardinality(Probes') =
          Cardinality(Probes) - (IF permit[c] = "probe" THEN 1 ELSE 0)
    BY <1>0, <1>2, ProbeRemoved
  <2>2. permit' \in [Callers -> Permits] /\ permit'[c] = "none"
        /\ \A d \in Callers : permit[d] = "none" => permit'[d] = "none"
    BY <1>0, <1>2 DEF CountersOK, Without, Permits
  <2>3. permit[c] = "probe" => Cardinality(Probes) > 0
    <3>1. permit[c] = "probe" => Probes # {}
      BY DEF Probes
    <3>2. QED
      BY <3>1, ProbesFinite, FS_EmptySet
  <2>4. ProbesAccounted'
    BY <1>0, <1>2, <2>1, <2>3, ProbesFinite DEF ProbesAccounted, ProbeInv, CountersOK
  <2>5. QED
    BY <1>0, <1>2, <2>2, <2>4 DEF BreakerNext, PeriodOK, CountersOK, States
<1>3. CASE /\ state = "half" /\ state' = "closed" /\ permit' = Without(Older(permit), c)
           /\ halfOpenInFlight' = (IF halfOpenInFlight > 0 THEN halfOpenInFlight - 1 ELSE 0)
           /\ halfOpenSuccess' = 0
  <2>1. Probes' = {} /\ permit' \in [Callers -> Permits]
    BY <1>0, <1>3, PeriodEnds
  <2>2. permit'[c] = "none" /\ \A d \in Callers : permit[d] = "none" => permit'[d] = "none"
    BY <1>0, <1>3, PeriodEnds
  <2>3. QED
    BY <1>0, <1>3, <2>1, <2>2
    DEF BreakerNext, PeriodOK, ProbesAccounted, CountersOK, States
<1>4. CASE /\ state # "half" /\ permit' = Without(permit, c)
           /\ UNCHANGED <<state, halfOpenInFlight, halfOpenSuccess>>
  <2>1. permit' \in [Callers -> Permits] /\ permit'[c] = "none"
        /\ \A d \in Callers : permit[d] = "none" => permit'[d] = "none"
    BY <1>0, <1>4 DEF CountersOK, Without, Permits
  <2>2. Probes' = {}
    BY <1>0, <1>4 DEF ProbeInv, PeriodOK, Probes, CountersOK, Without
  <2>3. QED
    BY <1>0, <1>4, <2>1, <2>2 DEF BreakerNext, PeriodOK, ProbesAccounted, CountersOK
<1>5. CASE recordHalfOpen(c, success)
  BY <1>1, <1>2, <1>3, <1>5 DEF recordHalfOpen
<1>6. CASE recordClosed(c, success)
  BY <1>1, <1>4, <1>6 DEF recordClosed
<1>7. CASE recordOpen(c)
  BY <1>4, <1>7 DEF recordOpen, breakerVars
<1>8. QED
  BY <1>5, <1>6, <1>7 DEF record

\* Getting a permit keeps the counts in order.
LEMMA AcquireKeeps ==
  ASSUME ProbeInv, NEW c \in Callers, permit[c] = "none",
         AcquireProbe(c) \/ AcquireClosed(c)
  PROVE  /\ BreakerNext
         /\ \A d \in Callers : d # c => permit'[d] = permit[d]
<1> USE BreakerAssumption DEF BreakerAssumption
<1>0. CountersOK
  BY DEF ProbeInv
<1>1. CASE AcquireProbe(c)
  <2>1. Cardinality(Probes') = Cardinality(Probes) + 1
    BY <1>0, <1>1, ProbeAdded DEF AcquireProbe
  <2>2. permit' \in [Callers -> Permits] /\ \A d \in Callers : d # c => permit'[d] = permit[d]
    BY <1>0, <1>1 DEF AcquireProbe, CountersOK, Permits
  <2>3. CASE Ready
    <3>1. Cardinality(Probes) = 0
      BY <2>3, FS_EmptySet DEF ProbeInv, PeriodOK, Ready
    <3>2. QED
      BY <1>0, <1>1, <2>1, <2>2, <2>3, <3>1
      DEF AcquireProbe, BreakerNext, PeriodOK, ProbesAccounted, CountersOK, States
  <2>4. CASE ~Ready
    <3>1. state = "half" /\ halfOpenInFlight < HalfOpenProbes
      BY <1>0, <1>1, <2>4 DEF AcquireProbe, Refuses, Ready, CountersOK, States
    <3>2. QED
      BY <1>0, <1>1, <2>1, <2>2, <2>4, <3>1, ProbesFinite
      DEF AcquireProbe, BreakerNext, PeriodOK, ProbesAccounted, CountersOK, States, ProbeInv
  <2>5. QED
    BY <2>3, <2>4
<1>2. CASE AcquireClosed(c)
  <2>1. permit' \in [Callers -> Permits] /\ \A d \in Callers : d # c => permit'[d] = permit[d]
    BY <1>0, <1>2 DEF AcquireClosed, CountersOK, Permits
  <2>2. Probes' = {}
    BY <1>0, <1>2 DEF AcquireClosed, ProbeInv, PeriodOK, Probes, CountersOK
  <2>3. QED
    BY <1>0, <1>2, <2>1, <2>2
    DEF AcquireClosed, breakerVars, BreakerNext, PeriodOK, ProbesAccounted, CountersOK
<1>3. QED
  BY <1>1, <1>2

-----------------------------------------------------------------------------
(* The invariant                                                           *)

\* The counts are in order in a new breaker.
LEMMA ProbeInit == Init => ProbeInv
<1> SUFFICES ASSUME Init PROVE ProbeInv
  OBVIOUS
<1>1. CountersOK
  BY BreakerAssumption DEF Init, CountersOK, BreakerAssumption, States, Spots, Permits
<1>2. QED
  BY <1>1 DEF Init, ProbeInv, PermitsOK, PeriodOK, Probes, ProbesAccounted

\* Steps that leave permits and counters alone.
LEMMA QuietKeeps ==
  ASSUME ProbeInv, at' \in [Callers -> Spots],
         \A c \in Callers : at'[c] # "call" => permit[c] = "none",
         UNCHANGED <<state, halfOpenInFlight, halfOpenSuccess, permit, leaked>>
  PROVE  ProbeInv'
<1>1. Probes' = Probes
  BY DEF Probes
<1>2. QED
  BY <1>1 DEF ProbeInv, CountersOK, PermitsOK, PeriodOK, ProbesAccounted

\* Every step keeps the counts in order.
LEMMA ProbeStep == ProbeInv /\ [Next]_vars => ProbeInv'
<1> SUFFICES ASSUME ProbeInv, [Next]_vars PROVE ProbeInv'
  OBVIOUS
<1> USE DEF breakerVars, callVars
<1>0. CountersOK /\ PermitsOK
  BY DEF ProbeInv
<1>1. CASE Tick \/ Weather \/ UNCHANGED vars
  <2>1. UNCHANGED <<state, halfOpenInFlight, halfOpenSuccess, permit, leaked, at>>
    BY <1>1 DEF Tick, Weather, vars
  <2>2. QED
    BY <1>0, <2>1, QuietKeeps DEF CountersOK, PermitsOK
<1>2. ASSUME NEW c \in Callers, Do(c) PROVE ProbeInv'
  <2>1. CASE Begin(c) \/ Cancelled(c) \/ waitBackoff(c) \/ (Refuses /\ Acquire(c) /\ UNCHANGED permit)
    <3>1. /\ UNCHANGED <<state, halfOpenInFlight, halfOpenSuccess, permit, leaked>>
          /\ at[c] # "call"
          /\ at' = [at EXCEPT ![c] = at'[c]] /\ at'[c] \in Spots
      BY <1>0, <2>1
      DEF Begin, Cancelled, waitBackoff, Acquire, AcquireProbe, AcquireClosed, Refuses,
          CountersOK, Spots
    <3>2. at' \in [Callers -> Spots] /\ \A d \in Callers : at'[d] # "call" => permit[d] = "none"
      BY <1>0, <3>1 DEF CountersOK, PermitsOK
    <3>3. QED
      BY <3>1, <3>2, QuietKeeps
  <2>2. CASE Acquire(c) /\ (AcquireProbe(c) \/ AcquireClosed(c))
             /\ at' = [at EXCEPT ![c] = "call"]
    <3>1. permit[c] = "none"
      BY <1>0, <2>2 DEF Acquire, PermitsOK
    <3>2. BreakerNext /\ \A d \in Callers : d # c => permit'[d] = permit[d]
      BY <2>2, <3>1, AcquireKeeps
    <3>3. at' \in [Callers -> Spots] /\ PermitsOK'
      BY <1>0, <2>2, <3>2 DEF CountersOK, PermitsOK, Spots
    <3>4. QED
      BY <3>2, <3>3 DEF ProbeInv, CountersOK, BreakerNext
  <2>3. ASSUME NEW success \in BOOLEAN, record(c, success), NEW s \in Spots,
               at' = [at EXCEPT ![c] = s]
        PROVE  ProbeInv'
    <3>1. BreakerNext /\ permit'[c] = "none"
          /\ \A d \in Callers : permit[d] = "none" => permit'[d] = "none"
      BY <2>3, RecordKeeps
    <3>2. at' \in [Callers -> Spots] /\ PermitsOK'
      BY <1>0, <2>3, <3>1 DEF CountersOK, PermitsOK
    <3>3. QED
      BY <3>1, <3>2 DEF ProbeInv, CountersOK, BreakerNext
  <2>4. CASE Succeed(c)
    BY <2>3, <2>4 DEF Succeed, Spots
  <2>5. ASSUME NEW transient \in BOOLEAN, Fail(c, transient) PROVE ProbeInv'
    BY <2>3, <2>5 DEF Fail, Spots
  <2>6. CASE Panic(c)
    <3>1. /\ UNCHANGED <<state, halfOpenInFlight, halfOpenSuccess>>
          /\ leaked' = (IF permit[c] = "probe" /\ state = "half" THEN leaked + 1 ELSE leaked)
          /\ at' = [at EXCEPT ![c] = "idle"] /\ permit' = Without(permit, c)
      BY <2>6 DEF Panic
    <3>2. Cardinality(Probes') =
            Cardinality(Probes) - (IF permit[c] = "probe" THEN 1 ELSE 0)
      BY <1>0, <3>1, ProbeRemoved
    <3>3. permit[c] = "probe" => state = "half"
      BY DEF ProbeInv, PeriodOK, Probes
    <3>4. Probes' \subseteq Probes /\ CountersOK' /\ PermitsOK'
      BY <1>0, <3>1 DEF Probes, CountersOK, PermitsOK, Without, Spots, Permits
    <3>5. ProbesAccounted'
      BY <1>0, <3>1, <3>2, <3>3, ProbesFinite DEF ProbesAccounted, ProbeInv, CountersOK
    <3>6. PeriodOK'
      BY <3>1, <3>4 DEF ProbeInv, PeriodOK
    <3>7. QED
      BY <3>4, <3>5, <3>6 DEF ProbeInv
  <2>7. QED
    BY <1>2, <2>1, <2>2, <2>4, <2>5, <2>6 DEF Do, Acquire
<1>3. QED
  BY <1>1, <1>2 DEF Next

\* The counters of a half-open breaker follow the probes that are really out,
\* whatever late results come in and whatever operations panic (breaker.go).
THEOREM BreakerProbesAccounted == Spec => []ProbesAccounted
<1>1. ProbeInv => ProbesAccounted
  BY DEF ProbeInv
<1>2. QED
  BY <1>1, ProbeInit, ProbeStep, PTL DEF Spec

\* Late results let at most HalfOpenProbes - 1 probes through beyond the limit.
THEOREM BreakerProbeLoad == Spec => [](Cardinality(Probes) <= 2 * HalfOpenProbes - 1)
<1>1. ProbeInv => Cardinality(Probes) <= 2 * HalfOpenProbes - 1
  <2> SUFFICES ASSUME ProbeInv PROVE Cardinality(Probes) <= 2 * HalfOpenProbes - 1
    OBVIOUS
  <2> USE BreakerAssumption DEF BreakerAssumption
  <2>1. CASE state = "half"
    BY <2>1, ProbesFinite DEF ProbeInv, CountersOK, ProbesAccounted
  <2>2. CASE state # "half"
    BY <2>2, FS_EmptySet DEF ProbeInv, PeriodOK
  <2>3. QED
    BY <2>1, <2>2
<1>2. QED
  BY <1>1, ProbeInit, ProbeStep, PTL DEF Spec

-----------------------------------------------------------------------------
(* What a breaker opens on.                                                *)

\* The outcomes are in the order of their age, so what is cut off is what is not
\* recent, and while the breaker is closed there are no more of them than were
\* reported since it closed.
Evidence ==
  /\ outcomes \in Seq(Outcome)
  /\ reported \in Nat /\ reported <= MinimumRequests
  /\ \A i, j \in DOMAIN outcomes : i <= j => outcomes[j].age <= outcomes[i].age
  /\ state = "closed" => Len(outcomes) <= reported \/ reported = MinimumRequests

\* t is s without what comes before position i, its first recent outcome.
CutAt(s, t, i) ==
  /\ i \in 1..Len(s) /\ FirstRecent(s, i)
  /\ t \in Seq(Outcome) /\ Len(t) = Len(s) - i + 1
  /\ \A k \in 1..Len(t) : t[k] = s[k + i - 1]

\* A set of natural numbers that is not empty has a least member.
LEMMA LeastOf ==
  ASSUME NEW T \in SUBSET Nat, T # {}
  PROVE  \E x \in T : \A y \in T : x <= y
<1> DEFINE R == OpToRel(<, Nat)
<1>1. IsWellFoundedOn(R, Nat)
  BY NatLessThanWellFounded
<1>2. \A x, y \in Nat : <<x, y>> \in R <=> x < y
  BY DEF OpToRel
<1> HIDE DEF R
<1>3. PICK x \in T : \A y \in T : ~(<<y, x>> \in R)
  BY <1>1, WFMin
<1>4. ASSUME NEW y \in T PROVE x <= y
  <2>1. x \in Nat /\ y \in Nat
    OBVIOUS
  <2>2. ~(y < x)
    BY <1>2, <1>3, <2>1
  <2>3. QED
    BY <2>1, <2>2
<1>5. QED
  BY <1>4

\* What Pruned returns when the newest outcome is recent.
LEMMA PrunedIs ==
  ASSUME NEW s \in Seq(Outcome), Len(s) >= 1, Recent(s[Len(s)])
  PROVE  \E i \in 1..Len(s) : CutAt(s, Pruned(s), i)
<1> DEFINE T == {i \in 1..Len(s) : Recent(s[i])}
           first == CHOOSE i \in DOMAIN s : FirstRecent(s, i)
<1>1. Len(s) \in Nat /\ DOMAIN s = 1..Len(s)
  OBVIOUS
<1>2. Len(s) \in T /\ T \subseteq Nat
  BY <1>1
<1>3. PICK x \in T : \A y \in T : x <= y
  BY <1>2, LeastOf
<1>4. x \in DOMAIN s /\ Recent(s[x])
  BY <1>1, <1>3
<1>5. \A j \in 1..(x - 1) : ~Recent(s[j])
  <2>1. SUFFICES ASSUME NEW j \in 1..(x - 1), Recent(s[j]) PROVE FALSE
    OBVIOUS
  <2>2. x \in 1..Len(s)
    BY <1>3
  <2>3. j \in 1..Len(s) /\ ~(x <= j)
    BY <1>1, <2>2
  <2>4. QED
    BY <1>3, <2>1, <2>3
<1>6. first \in DOMAIN s /\ FirstRecent(s, first)
  BY <1>4, <1>5 DEF FirstRecent
<1> HIDE DEF first
<1>7. Pruned(s) = SubSeq(s, first, Len(s))
  BY DEF Pruned, first
<1>8. first \in 1..Len(s)
  BY <1>1, <1>6
<1>9. /\ SubSeq(s, first, Len(s)) \in Seq(Outcome)
      /\ Len(SubSeq(s, first, Len(s))) = Len(s) - first + 1
      /\ \A k \in 1..(Len(s) - first + 1) : SubSeq(s, first, Len(s))[k] = s[k + first - 1]
  BY <1>1, <1>8
<1>10. CutAt(s, Pruned(s), first)
  BY <1>6, <1>7, <1>8, <1>9 DEF CutAt
<1>11. QED
  BY <1>8, <1>10

\* s is the outcomes and a new one, and is cut at i.
Reports(s, i, success) ==
  /\ CutAt(s, outcomes', i)
  /\ Len(s) = Len(outcomes) + 1
  /\ \A k \in 1..Len(outcomes) : s[k] = outcomes[k]
  /\ s[Len(s)].age = 0 /\ s[Len(s)].success = success

\* A report to a closed breaker: the outcomes that stay are the recent ones and the
\* new one.
LEMMA ReportCuts ==
  ASSUME Evidence, NEW c \in Callers, NEW success \in BOOLEAN, recordClosed(c, success)
  PROVE  \E s \in Seq(Outcome) : \E i \in 1..Len(s) : Reports(s, i, success)
<1> DEFINE o == [age |-> 0, success |-> success]
           s == Append(outcomes, o)
<1>1. o \in Outcome /\ o.age = 0 /\ o.success = success
  BY BreakerAssumption DEF Outcome
<1> HIDE DEF o
<1>2. outcomes \in Seq(Outcome)
  BY DEF Evidence
<1>3. /\ s \in Seq(Outcome) /\ Len(s) = Len(outcomes) + 1 /\ Len(outcomes) \in Nat
      /\ s[Len(s)] = o /\ \A k \in 1..Len(outcomes) : s[k] = outcomes[k]
  BY <1>1, <1>2
<1>4. outcomes' = Pruned(s)
  BY DEF recordClosed, o
<1> HIDE DEF s
<1>5. Recent(s[Len(s)]) /\ Len(s) >= 1
  BY <1>1, <1>3, BreakerAssumption DEF Recent
<1>6. PICK i \in 1..Len(s) : CutAt(s, outcomes', i)
  BY <1>3, <1>4, <1>5, PrunedIs
<1>7. Reports(s, i, success)
  BY <1>1, <1>3, <1>6 DEF Reports
<1>8. QED
  BY <1>3, <1>7

\* The evidence of a new breaker.
LEMMA EvidenceInit == Init => Evidence
BY BreakerAssumption DEF Init, Evidence

\* Steps that leave the outcomes alone and do not close the breaker.
LEMMA QuietEvidence ==
  ASSUME Evidence, UNCHANGED <<outcomes, reported>>, state' = "closed" => state = "closed"
  PROVE  Evidence'
BY DEF Evidence

\* A report keeps the evidence in order.
LEMMA ReportEvidence ==
  ASSUME Evidence, NEW c \in Callers, NEW success \in BOOLEAN, recordClosed(c, success)
  PROVE  Evidence'
<1>0. PICK s \in Seq(Outcome) : \E i \in 1..Len(s) : Reports(s, i, success)
  BY ReportCuts
<1>a. PICK i \in 1..Len(s) : Reports(s, i, success)
  BY <1>0
<1>1. /\ CutAt(s, outcomes', i)
      /\ Len(s) = Len(outcomes) + 1
      /\ \A k \in 1..Len(outcomes) : s[k] = outcomes[k]
      /\ s[Len(s)].age = 0 /\ s[Len(s)].success = success
  BY <1>a DEF Reports
<1>2. /\ outcomes' \in Seq(Outcome) /\ Len(outcomes') = Len(s) - i + 1
      /\ DOMAIN outcomes' = 1..Len(outcomes')
      /\ \A k \in 1..Len(outcomes') : outcomes'[k] = s[k + i - 1]
      /\ Len(outcomes) \in Nat /\ DOMAIN outcomes = 1..Len(outcomes) /\ Len(s) \in Nat
  BY <1>1 DEF CutAt, Evidence
<1>3. \A j, k \in 1..Len(s) : j <= k => s[k].age <= s[j].age
  <2>1. SUFFICES ASSUME NEW j \in 1..Len(s), NEW k \in 1..Len(s), j <= k
                 PROVE  s[k].age <= s[j].age
    OBVIOUS
  <2>2. s[j].age \in Nat
    <3>1. s[j] \in Outcome
      OBVIOUS
    <3>2. QED
      BY <3>1, BreakerAssumption DEF Outcome
  <2>3. CASE k = Len(s)
    BY <1>1, <2>2, <2>3
  <2>4. CASE k # Len(s)
    <3>1. j \in 1..Len(outcomes) /\ k \in 1..Len(outcomes)
      BY <1>1, <1>2, <2>1, <2>4
    <3>2. outcomes[k].age <= outcomes[j].age
      BY <1>2, <2>1, <3>1 DEF Evidence
    <3>3. QED
      BY <1>1, <3>1, <3>2
  <2>5. QED
    BY <2>3, <2>4
<1>4. \A j, k \in DOMAIN outcomes' : j <= k => outcomes'[k].age <= outcomes'[j].age
  <2>1. SUFFICES ASSUME NEW j \in 1..Len(outcomes'), NEW k \in 1..Len(outcomes'), j <= k
                 PROVE  outcomes'[k].age <= outcomes'[j].age
    BY <1>2
  <2>2. /\ j + i - 1 \in 1..Len(s) /\ k + i - 1 \in 1..Len(s) /\ j + i - 1 <= k + i - 1
    BY <1>2, <2>1
  <2>3. QED
    BY <1>2, <1>3, <2>2
<1>5. reported' = Lower(reported + 1, MinimumRequests) /\ state = "closed"
  BY DEF recordClosed
<1>6. /\ reported' \in Nat /\ reported' <= MinimumRequests
      /\ Len(outcomes') <= reported' \/ reported' = MinimumRequests
  <2>1. Len(outcomes') <= Len(outcomes) + 1
    BY <1>1, <1>2
  <2>2. /\ reported \in Nat /\ reported <= MinimumRequests /\ MinimumRequests \in Nat
        /\ Len(outcomes) <= reported \/ reported = MinimumRequests
    BY <1>5, BreakerAssumption DEF Evidence
  <2>3. QED
    BY <1>2, <1>5, <2>1, <2>2 DEF Lower
<1>7. QED
  BY <1>2, <1>4, <1>6 DEF Evidence

\* Time passes: the outcomes grow older together.
LEMMA TickEvidence ==
  ASSUME Evidence, Tick
  PROVE  Evidence'
<1> DEFINE Aged(o) == [o EXCEPT !.age = Lower(o.age + 1, RollingWindow + 1)]
<1>1. outcomes \in Seq(Outcome) /\ RollingWindow \in Nat
  BY BreakerAssumption DEF Evidence
<1>2. \A o \in Outcome : /\ Aged(o) \in Outcome
                         /\ Aged(o).age = Lower(o.age + 1, RollingWindow + 1)
  BY <1>1 DEF Outcome, Lower
<1>3. outcomes' = [i \in DOMAIN outcomes |-> Aged(outcomes[i])]
  BY <1>1 DEF Tick, Outcome
<1> HIDE DEF Aged
<1>4. \A i \in DOMAIN outcomes : outcomes[i] \in Outcome
  BY <1>1
<1>5. DOMAIN outcomes = 1..Len(outcomes) /\ Len(outcomes) \in Nat
  BY <1>1
<1>6. outcomes' \in Seq(Outcome) /\ Len(outcomes') = Len(outcomes) /\ DOMAIN outcomes' = DOMAIN outcomes
  BY <1>2, <1>3, <1>4, <1>5
<1>7. \A i, j \in DOMAIN outcomes : i <= j => outcomes'[j].age <= outcomes'[i].age
  <2>1. SUFFICES ASSUME NEW i \in DOMAIN outcomes, NEW j \in DOMAIN outcomes, i <= j
                 PROVE  outcomes'[j].age <= outcomes'[i].age
    OBVIOUS
  <2>2. /\ outcomes'[i].age = Lower(outcomes[i].age + 1, RollingWindow + 1)
        /\ outcomes'[j].age = Lower(outcomes[j].age + 1, RollingWindow + 1)
    BY <1>2, <1>3, <1>4
  <2>3. outcomes[j].age <= outcomes[i].age
    BY <2>1 DEF Evidence
  <2>4. outcomes[i].age \in Nat /\ outcomes[j].age \in Nat
    BY <1>1, <1>4 DEF Outcome
  <2>5. QED
    BY <1>1, <2>2, <2>3, <2>4 DEF Lower
<1>8. UNCHANGED <<state, reported>>
  BY DEF Tick
<1>9. QED
  BY <1>6, <1>7, <1>8 DEF Evidence

\* Every step keeps the evidence in order.
LEMMA EvidenceStep == Evidence /\ [Next]_vars => Evidence'
<1> SUFFICES ASSUME Evidence, [Next]_vars PROVE Evidence'
  OBVIOUS
<1> USE DEF breakerVars, callVars
<1>1. CASE Weather \/ UNCHANGED vars
  BY <1>1, QuietEvidence DEF Weather, vars
<1>2. ASSUME NEW c \in Callers, NEW success \in BOOLEAN, record(c, success) PROVE Evidence'
  <2>1. CASE recordHalfOpen(c, success)
    <3>1. \/ UNCHANGED <<outcomes, reported>> /\ state' # "closed"
          \/ outcomes' = <<>> /\ reported' = 0
      BY <2>1 DEF recordHalfOpen, open
    <3>2. CASE outcomes' = <<>> /\ reported' = 0
      BY <3>2, BreakerAssumption DEF Evidence
    <3>3. QED
      BY <3>1, <3>2, QuietEvidence
  <2>2. CASE recordClosed(c, success)
    BY <2>2, ReportEvidence
  <2>3. CASE recordOpen(c)
    BY <2>3, QuietEvidence DEF recordOpen
  <2>4. QED
    BY <1>2, <2>1, <2>2, <2>3 DEF record
<1>3. ASSUME NEW c \in Callers, Do(c) PROVE Evidence'
  <2>1. CASE Begin(c) \/ Cancelled(c) \/ Acquire(c) \/ waitBackoff(c) \/ Panic(c)
    <3>1. UNCHANGED <<outcomes, reported>> /\ (state' = "closed" => state = "closed")
      BY <2>1 DEF Begin, Cancelled, Acquire, AcquireProbe, AcquireClosed, waitBackoff, Panic
    <3>2. QED
      BY <3>1, QuietEvidence
  <2>2. CASE Succeed(c) \/ \E transient \in BOOLEAN : Fail(c, transient)
    BY <1>2, <2>2 DEF Succeed, Fail
  <2>3. QED
    BY <1>3, <2>1, <2>2 DEF Do
<1>4. QED
  BY <1>1, <1>3, TickEvidence DEF Next
\* The failures among the outcomes that stay are those among the recent ones, and the
\* new one if it is a failure.
LEMMA CountsRecent ==
  ASSUME Evidence, NEW c \in Callers, NEW success \in BOOLEAN, recordClosed(c, success)
  PROVE  /\ Len(outcomes') = Cardinality(RecentOutcomes) + 1
         /\ Len(outcomes') <= Len(outcomes) + 1
         /\ FailureCount(outcomes') = Cardinality(RecentFailures) + (IF success THEN 0 ELSE 1)
<1>0. PICK s \in Seq(Outcome) : \E i \in 1..Len(s) : Reports(s, i, success)
  BY ReportCuts
<1>a. PICK i \in 1..Len(s) : Reports(s, i, success)
  BY <1>0
<1>1. /\ CutAt(s, outcomes', i)
      /\ Len(s) = Len(outcomes) + 1
      /\ \A k \in 1..Len(outcomes) : s[k] = outcomes[k]
      /\ s[Len(s)].age = 0 /\ s[Len(s)].success = success
  BY <1>a DEF Reports
<1>2. /\ outcomes' \in Seq(Outcome) /\ Len(outcomes') = Len(s) - i + 1
      /\ DOMAIN outcomes' = 1..Len(outcomes')
      /\ \A k \in 1..Len(outcomes') : outcomes'[k] = s[k + i - 1]
      /\ Len(outcomes) \in Nat /\ DOMAIN outcomes = 1..Len(outcomes) /\ Len(s) \in Nat
  BY <1>1 DEF CutAt, Evidence
<1>3. RecentOutcomes = i..Len(outcomes)
  <2>1. ASSUME NEW k \in 1..Len(outcomes)
        PROVE  Recent(outcomes[k]) <=> k >= i
    <3>1. k \in 1..Len(s) /\ s[k] = outcomes[k]
      BY <1>1, <1>2
    <3>2. CASE k < i
      <4>1. k \in 1..(i - 1)
        BY <1>2, <3>2
      <4>2. ~Recent(s[k])
        BY <1>1, <4>1 DEF CutAt, FirstRecent
      <4>3. QED
        BY <1>2, <3>1, <3>2, <4>2
    <3>3. CASE k >= i
      <4>1. Recent(s[i]) /\ i \in 1..Len(outcomes) /\ s[i] = outcomes[i]
        BY <1>1, <1>2, <3>3 DEF CutAt, FirstRecent
      <4>2. outcomes[k].age <= outcomes[i].age
        BY <1>2, <3>3, <4>1 DEF Evidence
      <4>3. outcomes[k] \in Outcome /\ outcomes[i] \in Outcome
        BY <1>2, <4>1 DEF Evidence
      <4>4. outcomes[k].age \in Nat /\ outcomes[i].age \in Nat
        BY <4>3, BreakerAssumption DEF Outcome
      <4>5. QED
        BY <3>3, <4>1, <4>2, <4>4, BreakerAssumption DEF Recent
    <3>4. QED
      BY <1>2, <3>2, <3>3
  <2>2. QED
    BY <1>2, <2>1 DEF RecentOutcomes
<1>4. IsFiniteSet(RecentOutcomes) /\ Cardinality(RecentOutcomes) = Len(outcomes) - i + 1
  <2>1. i \in Int /\ Len(outcomes) \in Int /\ i <= Len(outcomes) + 1
    BY <1>1, <1>2
  <2>2. /\ IsFiniteSet(i..Len(outcomes))
        /\ Cardinality(i..Len(outcomes)) =
             IF i > Len(outcomes) THEN 0 ELSE Len(outcomes) - i + 1
    BY <2>1, FS_Interval
  <2>3. Cardinality(i..Len(outcomes)) = Len(outcomes) - i + 1
    BY <2>1, <2>2
  <2>4. QED
    BY <1>3, <2>2, <2>3
<1>5. IsFiniteSet(RecentFailures) /\ Cardinality(RecentFailures) \in Nat
  <2>1. RecentFailures \subseteq RecentOutcomes
    BY DEF RecentFailures
  <2>2. IsFiniteSet(RecentFailures)
    BY <1>4, <2>1, FS_Subset
  <2>3. QED
    BY <2>2, FS_CardinalityType
<1> DEFINE old == RecentFailures \cup (IF success THEN {} ELSE {Len(s)})
           new == {k \in DOMAIN outcomes' : ~outcomes'[k].success}
           f == [k \in old |-> k - i + 1]
<1>6. IsFiniteSet(old) /\ Cardinality(old) = Cardinality(RecentFailures) + (IF success THEN 0 ELSE 1)
  <2>1. CASE success
    BY <1>5, <2>1
  <2>2. CASE ~success
    <3>1. Len(s) \notin RecentFailures
      BY <1>1, <1>2, <1>3 DEF RecentFailures
    <3>2. QED
      BY <1>5, <2>2, <3>1, FS_AddElement
  <2>3. QED
    BY <2>1, <2>2
<1>7. \A k \in 1..Len(s) : k \in old <=> k >= i /\ ~s[k].success
  <2>1. SUFFICES ASSUME NEW k \in 1..Len(s) PROVE k \in old <=> k >= i /\ ~s[k].success
    OBVIOUS
  <2>2. CASE k = Len(s)
    <3>1. k \notin RecentOutcomes /\ k >= i
      BY <1>1, <1>2, <1>3, <2>2
    <3>2. QED
      BY <1>1, <2>2, <3>1 DEF RecentFailures
  <2>3. CASE k # Len(s)
    <3>1. k \in 1..Len(outcomes) /\ s[k] = outcomes[k]
      BY <1>1, <1>2, <2>3
    <3>2. k \in RecentOutcomes <=> k >= i
      BY <1>2, <1>3, <3>1
    <3>3. QED
      BY <2>3, <3>1, <3>2 DEF RecentFailures
  <2>4. QED
    BY <2>2, <2>3
<1>8. old \subseteq 1..Len(s) /\ \A k \in old : k >= i
  <2>1. RecentFailures \subseteq 1..Len(outcomes) /\ \A k \in RecentFailures : k >= i
    BY <1>1, <1>2, <1>3 DEF RecentFailures
  <2>2. RecentFailures \subseteq 1..Len(s) /\ Len(s) \in 1..Len(s) /\ Len(s) >= i
    BY <1>1, <1>2, <2>1
  <2>3. QED
    BY <2>1, <2>2
<1> HIDE DEF old
<1>9. \A k \in old : f[k] \in new
  <2>1. SUFFICES ASSUME NEW k \in old PROVE k - i + 1 \in new
    OBVIOUS
  <2>2. k \in 1..Len(s) /\ k >= i /\ ~s[k].success
    BY <1>7, <1>8
  <2>3. k - i + 1 \in 1..Len(outcomes') /\ (k - i + 1) + i - 1 = k
    BY <1>2, <2>2
  <2>4. outcomes'[k - i + 1] = s[k]
    BY <1>2, <2>3
  <2>5. QED
    BY <1>2, <2>2, <2>3, <2>4
<1>10. \A k \in new : \E j \in old : f[j] = k
  <2>1. SUFFICES ASSUME NEW k \in new PROVE \E j \in old : j - i + 1 = k
    OBVIOUS
  <2>2. k \in 1..Len(outcomes') /\ ~outcomes'[k].success
    BY <1>2
  <2>3. k + i - 1 \in 1..Len(s) /\ k + i - 1 >= i /\ (k + i - 1) - i + 1 = k
    BY <1>2, <2>2
  <2>4. ~s[k + i - 1].success
    BY <1>2, <2>2
  <2>5. k + i - 1 \in old
    BY <1>7, <2>3, <2>4
  <2>6. QED
    BY <2>3, <2>5
<1>11. \A j, k \in old : f[j] = f[k] => j = k
  <2>1. SUFFICES ASSUME NEW j \in old, NEW k \in old, j - i + 1 = k - i + 1 PROVE j = k
    OBVIOUS
  <2>2. j \in Int /\ k \in Int /\ i \in Int
    BY <1>8
  <2>3. QED
    BY <2>1, <2>2
<1>12. ExistsBijection(old, new)
  <2> HIDE DEF new
  <2>1. f \in [old -> new]
    BY <1>9
  <2> HIDE DEF f
  <2>2. f \in Bijection(old, new)
    BY <1>10, <1>11, <2>1 DEF Bijection, Injection, Surjection, IsInjective
  <2>3. QED
    BY <2>2 DEF ExistsBijection
<1>13. Cardinality(new) = Cardinality(old)
  <2> HIDE DEF new
  <2>1. QED
    BY <1>6, <1>12, FS_Bijection
<1>14. FailureCount(outcomes') = Cardinality(RecentFailures) + (IF success THEN 0 ELSE 1)
  BY <1>6, <1>13 DEF FailureCount
<1>15. Len(outcomes') = Cardinality(RecentOutcomes) + 1 /\ Len(outcomes') <= Len(outcomes) + 1
  BY <1>1, <1>2, <1>4
<1>16. QED
  BY <1>14, <1>15

\* record opens a closed breaker only on outcomes of the last rolling window, of which
\* enough are failures, and all of which were reported since it last closed.
THEOREM BreakerOpensOnFreshEvidence == Spec => OpensOnFreshEvidence
<1> DEFINE total == Cardinality(RecentOutcomes) + 1
           Fresh == state = "closed" /\ state' = "open" =>
             /\ Cardinality(RecentOutcomes) + 1 >= MinimumRequests
             /\ reported + 1 >= MinimumRequests
             /\ \E last \in {0, 1} : (Cardinality(RecentFailures) + last) * OutOf
                                     >= Failures * (Cardinality(RecentOutcomes) + 1)
<1>1. ASSUME Evidence, Next, state = "closed", state' = "open"
      PROVE  /\ total >= MinimumRequests /\ reported + 1 >= MinimumRequests
             /\ \E last \in {0, 1} :
                  (Cardinality(RecentFailures) + last) * OutOf >= Failures * total
  <2>1. PICK c \in Callers : \E success \in BOOLEAN : record(c, success)
    BY <1>1 DEF Next, Tick, Weather, Do, Begin, Cancelled, Acquire, AcquireProbe, AcquireClosed,
            Succeed, Fail, Panic, waitBackoff, breakerVars
  <2>2. PICK success \in BOOLEAN : record(c, success)
    BY <2>1
  <2>3. recordClosed(c, success) /\ Trips(outcomes')
    BY <1>1, <2>2 DEF record, recordHalfOpen, recordClosed, recordOpen, breakerVars
  <2>4. /\ Len(outcomes') = total /\ Len(outcomes') <= Len(outcomes) + 1
        /\ FailureCount(outcomes') = Cardinality(RecentFailures) + (IF success THEN 0 ELSE 1)
    BY <1>1, <2>3, CountsRecent
  <2> HIDE DEF total
  <2>5. total >= MinimumRequests /\ FailureCount(outcomes') * OutOf >= Failures * total
    BY <2>3, <2>4 DEF Trips
  <2>6. reported + 1 >= MinimumRequests
    <3>1. /\ outcomes \in Seq(Outcome) /\ reported \in Nat /\ MinimumRequests \in Nat
          /\ Len(outcomes) <= reported \/ reported = MinimumRequests
      BY <1>1, BreakerAssumption DEF Evidence
    <3>2. Len(outcomes) \in Nat /\ Len(outcomes) + 1 >= total /\ total \in Nat
      <4>1. Len(outcomes) \in Nat
        BY <3>1
      <4>2. outcomes' \in Seq(Outcome)
        BY <1>1, <2>3, ReportEvidence DEF Evidence
      <4>3. Len(outcomes') \in Nat
        BY <4>2
      <4>4. QED
        BY <2>4, <4>1, <4>3
    <3>3. QED
      BY <2>5, <3>1, <3>2
  <2>7. QED
    BY <2>4, <2>5, <2>6
<1>2. Evidence /\ [Next]_vars => [Fresh]_vars
  BY <1>1
<1>3. Spec => [][Fresh]_vars
  <2> HIDE DEF Fresh
  <2>1. QED
    BY <1>2, EvidenceInit, EvidenceStep, PTL DEF Spec
<1>4. QED
  BY <1>3 DEF OpensOnFreshEvidence
=============================================================================
