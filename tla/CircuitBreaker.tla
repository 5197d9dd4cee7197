---------------------------- MODULE CircuitBreaker ----------------------------
(***************************************************************************)
(* One dependency of the agent service: the calls made through             *)
(* resilience.Do, with their retries, and the circuit breaker they share.  *)
(*                                                                         *)
(* Time is relative: how long the breaker has been open and how old each   *)
(* recorded outcome is.  Both stop growing one tick after the comparison   *)
(* they are used in is settled, so time itself is unbounded.               *)
(***************************************************************************)
EXTENDS Integers, Sequences, FiniteSets

CONSTANTS
  Callers,             \* goroutines that call the dependency
  Attempts,            \* Policy.Attempts
  RollingWindow, OpenDuration,           \* in ticks
  MinimumRequests, HalfOpenProbes,
  Failures, OutOf,     \* FailureThreshold = Failures / OutOf
  MaxOutcomes,         \* bound of the model: outcomes of one rolling window
  MaxPanics            \* bound of the model: operations that panic

ASSUME BreakerAssumption ==
  /\ IsFiniteSet(Callers)
  /\ Attempts \in Nat \ {0} /\ RollingWindow \in Nat \ {0} /\ OpenDuration \in Nat \ {0}
  /\ MinimumRequests \in Nat \ {0} /\ HalfOpenProbes \in Nat \ {0}
  /\ OutOf \in Nat \ {0} /\ Failures \in 1..OutOf
  /\ MaxOutcomes \in Nat /\ MaxPanics \in Nat

VARIABLES
  state,             \* closed, open or half
  elapsed,           \* now - openedAt, at most OpenDuration
  outcomes,          \* age and success of what was reported while closed
  halfOpenInFlight, halfOpenSuccess,
  at,                \* caller -> where its Do is
  attempt,           \* caller -> number of the attempt
  permit,            \* caller -> its permit: none, of this half-open period, or older
  healthy,           \* does every call succeed?
  panics,
  leaked,            \* history: permits of this half-open period lost to a panic
  reported           \* history: outcomes since the breaker closed, at most MinimumRequests

breakerVars == <<state, elapsed, outcomes, halfOpenInFlight, halfOpenSuccess>>
callVars == <<at, attempt>>
vars == <<state, elapsed, outcomes, halfOpenInFlight, halfOpenSuccess, at, attempt, permit,
          healthy, panics, leaked, reported>>

Lower(a, b) == IF a < b THEN a ELSE b
Outcome == [age : 0..(RollingWindow + 1), success : BOOLEAN]

TypeOK ==
  /\ state \in {"closed", "open", "half"}
  /\ elapsed \in 0..OpenDuration
  /\ outcomes \in Seq(Outcome)
  /\ halfOpenInFlight \in 0..HalfOpenProbes
  /\ halfOpenSuccess \in 0..(HalfOpenProbes - 1)
  /\ at \in [Callers -> {"idle", "attempt", "call", "backoff"}]
  /\ attempt \in [Callers -> 1..Attempts]
  /\ permit \in [Callers -> {"none", "probe", "late"}]
  /\ healthy \in BOOLEAN
  /\ panics \in 0..MaxPanics /\ leaked \in Nat
  /\ reported \in 0..MinimumRequests

Init ==
  /\ state = "closed" /\ elapsed = 0 /\ outcomes = <<>>
  /\ halfOpenInFlight = 0 /\ halfOpenSuccess = 0
  /\ at = [c \in Callers |-> "idle"]
  /\ attempt = [c \in Callers |-> 1]
  /\ permit = [c \in Callers |-> "none"]
  /\ healthy \in BOOLEAN
  /\ panics = 0 /\ leaked = 0 /\ reported = 0

-----------------------------------------------------------------------------
(* The breaker, under its mutex.                                           *)

Recent(o) == o.age <= RollingWindow
\* What came before the first recent outcome is cut off; the newest is recent.
FirstRecent(s, i) == Recent(s[i]) /\ \A j \in 1..(i - 1) : ~Recent(s[j])
Pruned(s) == SubSeq(s, CHOOSE i \in DOMAIN s : FirstRecent(s, i), Len(s))
RecentOutcomes == {i \in DOMAIN outcomes : Recent(outcomes[i])}
FailureCount(s) == Cardinality({i \in DOMAIN s : ~s[i].success})
Trips(s) == /\ Len(s) >= MinimumRequests
            /\ FailureCount(s) * OutOf >= Failures * Len(s)

\* Once the period ends, the permits it gave out are older than the next one.
Older(p) == [c \in Callers |-> IF p[c] = "probe" THEN "late" ELSE p[c]]
Without(p, c) == [p EXCEPT ![c] = "none"]

Ready == state = "open" /\ ~(elapsed < OpenDuration)
Refuses == \/ state = "open" /\ elapsed < OpenDuration
           \/ state = "half" /\ halfOpenInFlight >= HalfOpenProbes

\* An open breaker whose time is up becomes half-open with its first call.
AcquireProbe(c) ==
  /\ state # "closed" /\ ~Refuses
  /\ state' = "half"
  /\ halfOpenInFlight' = (IF Ready THEN 0 ELSE halfOpenInFlight) + 1
  /\ halfOpenSuccess' = IF Ready THEN 0 ELSE halfOpenSuccess
  /\ leaked' = IF Ready THEN 0 ELSE leaked
  /\ permit' = [permit EXCEPT ![c] = "probe"]
  /\ UNCHANGED <<elapsed, outcomes, reported>>

AcquireClosed(c) ==
  /\ state = "closed"
  /\ permit' = [permit EXCEPT ![c] = "late"]
  /\ UNCHANGED <<breakerVars, leaked, reported>>

open(c) ==
  /\ state' = "open" /\ elapsed' = 0
  /\ halfOpenInFlight' = 0 /\ halfOpenSuccess' = 0
  /\ permit' = Without(Older(permit), c)

\* Mutant of recordHalfOpen: a failure only gives its place back.
recordLenient(c, success) ==
  /\ state = "half" /\ permit' = Without(permit, c)
  /\ halfOpenInFlight' = IF halfOpenInFlight > 0 THEN halfOpenInFlight - 1 ELSE 0
  /\ UNCHANGED <<state, elapsed, outcomes, halfOpenSuccess, reported>>

\* Mutant of recordHalfOpen: successes are not counted.
recordUncounted(c, success) ==
  /\ state = "half"
  /\ IF success THEN /\ halfOpenInFlight' = IF halfOpenInFlight > 0 THEN halfOpenInFlight - 1 ELSE 0
                     /\ permit' = Without(permit, c)
                     /\ UNCHANGED <<state, elapsed, halfOpenSuccess>>
                ELSE open(c)
  /\ UNCHANGED <<outcomes, reported>>

\* Mutant of recordHalfOpen: the breaker closes with the outcomes it opened on.
recordKeeps(c, success) ==
  /\ state = "half" /\ UNCHANGED <<elapsed, outcomes>>
  /\ state' = "closed" /\ halfOpenInFlight' = 0 /\ halfOpenSuccess' = 0
  /\ permit' = Without(Older(permit), c) /\ reported' = 0

\* Any permit counts here, also one from before the breaker opened.
recordHalfOpen(c, success) ==
  /\ state = "half"
  /\ \/ /\ ~success
        /\ open(c)
        /\ UNCHANGED <<outcomes, reported>>
     \/ /\ success
        /\ halfOpenInFlight' = IF halfOpenInFlight > 0 THEN halfOpenInFlight - 1 ELSE 0
        /\ \/ /\ halfOpenSuccess + 1 < HalfOpenProbes
              /\ halfOpenSuccess' = halfOpenSuccess + 1
              /\ permit' = Without(permit, c)
              /\ UNCHANGED <<state, outcomes, reported>>
           \/ /\ halfOpenSuccess + 1 >= HalfOpenProbes
              /\ state' = "closed" /\ outcomes' = <<>> /\ halfOpenSuccess' = 0
              /\ permit' = Without(Older(permit), c)
              /\ reported' = 0
        /\ UNCHANGED elapsed

recordClosed(c, success) ==
  /\ state = "closed"
  /\ outcomes' = Pruned(Append(outcomes, [age |-> 0, success |-> success]))
  /\ reported' = Lower(reported + 1, MinimumRequests)
  /\ \/ Trips(outcomes') /\ open(c)
     \/ /\ ~Trips(outcomes')
        /\ permit' = Without(permit, c)
        /\ UNCHANGED <<state, elapsed, halfOpenInFlight, halfOpenSuccess>>

recordOpen(c) ==
  /\ state = "open"
  /\ permit' = Without(permit, c)
  /\ UNCHANGED <<breakerVars, reported>>

record(c, success) ==
  /\ recordHalfOpen(c, success) \/ recordClosed(c, success) \/ recordOpen(c)
  /\ UNCHANGED leaked

-----------------------------------------------------------------------------
(* Do: at most Attempts operations, each under a permit of its own.        *)

Begin(c) ==
  /\ at[c] = "idle"
  /\ Cardinality(RecentOutcomes)
       + Cardinality({d \in Callers : at[d] # "idle"}) < MaxOutcomes
  /\ at' = [at EXCEPT ![c] = "attempt"]
  /\ attempt' = [attempt EXCEPT ![c] = 1]
  /\ UNCHANGED <<breakerVars, permit, healthy, panics, leaked, reported>>

\* The caller's context is done before the attempt or during the backoff.
Cancelled(c) ==
  /\ at[c] \in {"attempt", "backoff"}
  /\ at' = [at EXCEPT ![c] = "idle"]
  /\ UNCHANGED <<breakerVars, attempt, permit, healthy, panics, leaked, reported>>

Acquire(c) ==
  /\ at[c] = "attempt"
  /\ \/ /\ Refuses
        /\ at' = [at EXCEPT ![c] = "idle"]
        /\ UNCHANGED <<breakerVars, permit, leaked, reported>>
     \/ /\ AcquireProbe(c) \/ AcquireClosed(c)
        /\ at' = [at EXCEPT ![c] = "call"]
  /\ UNCHANGED <<attempt, healthy, panics>>

Succeed(c) ==
  /\ at[c] = "call"
  /\ record(c, TRUE)
  /\ at' = [at EXCEPT ![c] = "idle"]
  /\ UNCHANGED <<attempt, healthy, panics>>

\* Also an operation that ran into the attempt's timeout, or whose caller left.
Fail(c, transient) ==
  /\ at[c] = "call" /\ ~healthy
  /\ record(c, FALSE)
  /\ at' = [at EXCEPT ![c] = IF transient /\ attempt[c] < Attempts THEN "backoff" ELSE "idle"]
  /\ UNCHANGED <<attempt, healthy, panics>>

\* Done is not deferred: the permit of an operation that panics stays out.
Panic(c) ==
  /\ at[c] = "call" /\ ~healthy /\ panics < MaxPanics
  /\ panics' = panics + 1
  /\ leaked' = IF permit[c] = "probe" /\ state = "half" THEN leaked + 1 ELSE leaked
  /\ at' = [at EXCEPT ![c] = "idle"]
  /\ permit' = Without(permit, c)
  /\ UNCHANGED <<breakerVars, attempt, healthy, reported>>

\* Mutant of waitBackoff: the attempts are not counted.
waitUncounted(c) ==
  /\ at[c] = "backoff"
  /\ at' = [at EXCEPT ![c] = "attempt"]
  /\ UNCHANGED <<breakerVars, attempt, permit, healthy, panics, leaked, reported>>

waitBackoff(c) ==
  /\ at[c] = "backoff"
  /\ at' = [at EXCEPT ![c] = "attempt"]
  /\ attempt' = [attempt EXCEPT ![c] = @ + 1]
  /\ UNCHANGED <<breakerVars, permit, healthy, panics, leaked, reported>>

Tick ==
  /\ elapsed' = IF state = "open" THEN Lower(elapsed + 1, OpenDuration) ELSE elapsed
  /\ outcomes' = [i \in DOMAIN outcomes |->
                    [outcomes[i] EXCEPT !.age = Lower(@ + 1, RollingWindow + 1)]]
  /\ UNCHANGED <<state, halfOpenInFlight, halfOpenSuccess, callVars, permit, healthy, panics,
                 leaked, reported>>

\* The dependency fails for a while, or recovers.
Weather ==
  /\ healthy' = ~healthy
  /\ UNCHANGED <<breakerVars, callVars, permit, panics, leaked, reported>>

Do(c) ==
  \/ Begin(c) \/ Cancelled(c) \/ Acquire(c) \/ Succeed(c) \/ waitBackoff(c) \/ Panic(c)
  \/ \E transient \in BOOLEAN : Fail(c, transient)

Next == Tick \/ Weather \/ \E c \in Callers : Do(c)
Spec == Init /\ [][Next]_vars

\* Time passes, an operation ends because Configure refuses a policy without a
\* timeout, and a goroutine between two operations runs on.
FairSpec ==
  /\ Spec
  /\ WF_vars(Tick)
  /\ \A c \in Callers :
       /\ WF_vars(Acquire(c)) /\ WF_vars(waitBackoff(c))
       /\ WF_vars(Succeed(c) \/ \E transient \in BOOLEAN : Fail(c, transient))

-----------------------------------------------------------------------------
(* Properties                                                              *)

Probes == {c \in Callers : permit[c] = "probe"}

\* While half-open the breaker's counter never exceeds the probes that are
\* really out (so it does not refuse calls for probes that have all come back),
\* and falls short of them by at most the successes it has counted (so late
\* results of older calls cannot let any number of probes through).
ProbesAccounted ==
  state = "half" =>
    /\ halfOpenInFlight <= Cardinality(Probes) + leaked
    /\ Cardinality(Probes) <= halfOpenInFlight + halfOpenSuccess

RecentFailures == {i \in RecentOutcomes : ~outcomes[i].success}

\* A closed breaker opens only when enough of the outcomes of the last rolling
\* window, all of them and the one just reported, are failures, and never on what
\* was reported before it closed.
OpensOnFreshEvidence ==
  [][state = "closed" /\ state' = "open" =>
       /\ Cardinality(RecentOutcomes) + 1 >= MinimumRequests
       /\ reported + 1 >= MinimumRequests
       /\ \E last \in {0, 1} : (Cardinality(RecentFailures) + last) * OutOf
                               >= Failures * (Cardinality(RecentOutcomes) + 1)]_vars

\* Every Do returns: it runs out of attempts, succeeds, or is refused.
CallsReturn == \A c \in Callers : (at[c] # "idle") ~> (at[c] = "idle")

\* Once the dependency is healthy for good and calls keep coming, the breaker
\* closes and stays closed, unless panics have taken every place of a period.
Recovers ==
  /\ <>[]healthy
  /\ []<><<\E c \in Callers : Acquire(c)>>_vars
  /\ [](leaked < HalfOpenProbes)
  => <>[](state = "closed")
=============================================================================
