---------------------------- MODULE CircuitBreaker ----------------------------
(***************************************************************************)
(* internal/pkg/circuitbreaker/circuitbreaker.go: the three-state breaker  *)
(* and the goroutines that call Execute on it.                             *)
(*                                                                         *)
(* Execute holds cb.mutex from its first to its last line, the protected   *)
(* function included, so a call is two steps: Begin (lock, canExecute,     *)
(* requestCount++) and Return or Panic (fn ends, updateState, unlock); a   *)
(* rejected call is the single step Reject.  Time is kept as ages: the     *)
(* code only compares time.Since(trippedTime) with resetTimeout, so an age *)
(* saturates there; the zero time.Time of a new or reset breaker is older  *)
(* than every timeout.                                                     *)
(***************************************************************************)
EXTENDS Naturals

CONSTANTS
    Callers,           \* goroutines calling Execute
    Nobody,            \* "the mutex is free"
    FailureThreshold,  \* Config.FailureThreshold
    SuccessThreshold,  \* Config.SuccessThreshold
    ResetTimeout,      \* Config.ResetTimeout, in clock ticks
    MaxRequests        \* bound: Execute admits a call while requestCount is below it

\* NewCircuitBreaker validates nothing: zero thresholds and timeouts are legal.
ASSUME ConfigAssumption ==
    /\ FailureThreshold \in Nat
    /\ SuccessThreshold \in Nat
    /\ ResetTimeout \in Nat
    /\ MaxRequests \in Nat
    /\ Nobody \notin Callers

VARIABLES
    state,         \* cb.state
    failureCount,  \* cb.failureCount
    successCount,  \* cb.successCount
    requestCount,  \* cb.requestCount
    totalSuccess,  \* cb.totalSuccess
    totalFailure,  \* cb.totalFailure
    trippedAge,    \* time.Since(cb.trippedTime), saturating at ResetTimeout
    failureAge,    \* time.Since(cb.lastFailure), saturating at ResetTimeout
    mutex,         \* holder of cb.mutex
    gauge          \* the circuit_breaker_state metric

counters == <<failureCount, successCount, requestCount, totalSuccess, totalFailure>>
clocks == <<trippedAge, failureAge>>
vars == <<state, counters, clocks, mutex, gauge>>

State == {"closed", "open", "half-open"}

Init ==
    /\ state = "closed"
    /\ failureCount = 0
    /\ successCount = 0
    /\ requestCount = 0
    /\ totalSuccess = 0
    /\ totalFailure = 0
    /\ trippedAge = ResetTimeout
    /\ failureAge = ResetTimeout
    /\ mutex = Nobody
    /\ gauge = "closed"

-------------------------------------------------------------------------------
(* Execute *)

\* canExecute: would a call be let through in the present state?
canExecute ==
    \/ state = "closed"
    \/ state = "open" /\ trippedAge >= ResetTimeout
    \/ state = "half-open" /\ successCount < SuccessThreshold

\* (Mutant) the probe count of the previous half-open period is kept.
Begin_StaleProbes(c) ==
    /\ mutex = Nobody /\ requestCount < MaxRequests /\ canExecute
    /\ state' = IF state = "open" THEN "half-open" ELSE state
    /\ requestCount' = requestCount + 1 /\ mutex' = c
    /\ UNCHANGED <<failureCount, successCount, totalSuccess, totalFailure, clocks, gauge>>

\* Lock, canExecute answers true (moving Open to HalfOpen), requestCount++;
\* fn is now running with the mutex held.
Begin(c) ==
    /\ mutex = Nobody
    /\ requestCount < MaxRequests
    /\ canExecute
    /\ IF state = "open"
       THEN state' = "half-open" /\ successCount' = 0
       ELSE UNCHANGED <<state, successCount>>
    /\ requestCount' = requestCount + 1
    /\ mutex' = c
    /\ UNCHANGED <<failureCount, totalSuccess, totalFailure, clocks, gauge>>

\* (Mutant) a rejected call restarts the reset timeout.
Reject_Restarts(c) ==
    /\ mutex = Nobody /\ ~canExecute
    /\ trippedAge' = 0
    /\ UNCHANGED <<state, counters, failureAge, mutex, gauge>>

\* canExecute answers false: "circuit breaker is open", nothing changes.
Reject(c) ==
    /\ mutex = Nobody
    /\ ~canExecute
    /\ UNCHANGED vars

\* (Mutant) a failed probe re-opens without restarting the reset timeout.
RecordFailure_NoTripTime ==
    /\ failureCount' = failureCount + 1 /\ totalFailure' = totalFailure + 1
    /\ failureAge' = 0
    /\ IF state = "closed" /\ failureCount' >= FailureThreshold
       THEN state' = "open" /\ trippedAge' = 0
       ELSE /\ state' = IF state = "half-open" THEN "open" ELSE state
            /\ UNCHANGED trippedAge
    /\ UNCHANGED <<successCount, totalSuccess>>

\* updateState on an error.
RecordFailure ==
    /\ failureCount' = failureCount + 1
    /\ totalFailure' = totalFailure + 1
    /\ failureAge' = 0
    /\ IF state = "half-open" \/ (state = "closed" /\ failureCount' >= FailureThreshold)
       THEN state' = "open" /\ trippedAge' = 0
       ELSE UNCHANGED <<state, trippedAge>>
    /\ UNCHANGED <<successCount, totalSuccess>>

\* (Mutant) off by one: the last probe does not close the breaker.
RecordSuccess_Late ==
    /\ totalSuccess' = totalSuccess + 1
    /\ successCount' = IF state = "half-open" THEN successCount + 1 ELSE successCount
    /\ IF state = "half-open" /\ successCount' > SuccessThreshold
       THEN state' = "closed" ELSE UNCHANGED state
    /\ failureCount' = IF state' = "closed" THEN 0 ELSE failureCount
    /\ UNCHANGED <<totalFailure, clocks>>

\* updateState on success.
RecordSuccess ==
    /\ totalSuccess' = totalSuccess + 1
    /\ successCount' = IF state = "half-open" THEN successCount + 1 ELSE successCount
    /\ IF state = "half-open" /\ successCount' >= SuccessThreshold
       THEN state' = "closed"
       ELSE UNCHANGED state
    /\ failureCount' = IF state' = "closed" THEN 0 ELSE failureCount
    /\ UNCHANGED <<totalFailure, clocks>>

\* updateState: counts the request a second time, then records the outcome.
updateState(ok) ==
    /\ requestCount' = requestCount + 1
    /\ IF ok THEN RecordSuccess ELSE RecordFailure

\* (Mutant) the metric is exported before the state is updated.
Return_EarlyGauge(c, ok) ==
    /\ mutex = c
    /\ updateState(ok)
    /\ gauge' = state
    /\ mutex' = Nobody

\* fn returned: update the state and the metric, unlock.
Return(c, ok) ==
    /\ mutex = c
    /\ updateState(ok)
    /\ gauge' = state'
    /\ mutex' = Nobody

\* fn panicked: only the deferred Unlock runs.
Panic(c) ==
    /\ mutex = c
    /\ mutex' = Nobody
    /\ UNCHANGED <<state, counters, clocks, gauge>>

-------------------------------------------------------------------------------
(* Reset and the clock *)

\* Reset: requestCount and the totals survive.
Reset ==
    /\ mutex = Nobody
    /\ state' = "closed"
    /\ failureCount' = 0
    /\ successCount' = 0
    /\ failureAge' = ResetTimeout
    /\ trippedAge' = ResetTimeout
    /\ gauge' = "closed"
    /\ UNCHANGED <<requestCount, totalSuccess, totalFailure, mutex>>

Older(age) == IF age < ResetTimeout THEN age + 1 ELSE age

\* Time passes, also while fn runs.
Tick ==
    /\ trippedAge' = Older(trippedAge)
    /\ failureAge' = Older(failureAge)
    /\ UNCHANGED <<state, counters, mutex, gauge>>

Next ==
    \/ \E c \in Callers : Begin(c) \/ Reject(c) \/ Panic(c)
    \/ \E c \in Callers, ok \in BOOLEAN : Return(c, ok)
    \/ Reset
    \/ Tick

Spec == Init /\ [][Next]_vars

-------------------------------------------------------------------------------
(* Properties *)

\* Every field of the breaker stays in its range.
TypeOK ==
    /\ state \in State
    /\ failureCount \in Nat
    /\ successCount \in Nat
    /\ requestCount \in Nat
    /\ totalSuccess \in Nat
    /\ totalFailure \in Nat
    /\ trippedAge \in 0..ResetTimeout
    /\ failureAge \in 0..ResetTimeout
    /\ mutex \in Callers \cup {Nobody}
    /\ gauge \in State

\* A closed breaker never sits on an exhausted failure budget: whatever the
\* history of trips, probes, panics and resets, the failures it carries are
\* fewer than the threshold that should have opened it.
ClosedBelowThreshold ==
    state = "closed" => failureCount = 0 \/ failureCount < FailureThreshold

\* A half-open breaker can always be probed again, so that it can close or
\* re-open: a panicking probe or a concurrent caller never uses up the probe
\* quota without settling the state.  (A zero SuccessThreshold is excluded: then
\* one panicking probe leaves the breaker half-open and rejecting for good.)
HalfOpenAdmits ==
    state = "half-open" /\ SuccessThreshold > 0 => successCount < SuccessThreshold

\* Outside Closed the last failure is the one that tripped the breaker: no call
\* that was let in earlier records its outcome into an open breaker, although
\* trips, the clock and the callers interleave freely.
NoFailureAfterTrip ==
    state # "closed" => failureAge = trippedAge

\* Between calls the exported metric is the state, except that a probe that
\* panicked leaves "open" exported for a half-open breaker; it never reports a
\* tripped breaker as closed.
GaugeNeverOptimistic ==
    mutex = Nobody /\ gauge # state => gauge = "open" /\ state = "half-open"

\* The breaker leaves Open only by Reset or by the first call at least
\* ResetTimeout after the trip, which finds the reset timeout elapsed.
OpenUntilTimeout ==
    [][state = "open" /\ state' # "open"
         => \/ trippedAge = ResetTimeout /\ state' = "half-open" /\ mutex' # Nobody
            \/ state' = "closed" /\ failureCount' = 0 /\ trippedAge' = ResetTimeout]_vars

\* Fairness: time passes, a running fn ends, and clients keep calling.
Fairness ==
    /\ WF_vars(Tick)
    /\ WF_vars(\E c \in Callers : Begin(c))
    /\ \A c \in Callers : WF_vars(Panic(c) \/ \E ok \in BOOLEAN : Return(c, ok))

FairSpec == Spec /\ Fairness

\* An open breaker is probed (or reset) eventually as long as clients call it:
\* rejected calls do not push the reset timeout back.
OpenIsProbed ==
    state = "open" /\ requestCount < MaxRequests ~> state # "open"
===============================================================================
