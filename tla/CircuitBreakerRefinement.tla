------------------------ MODULE CircuitBreakerRefinement ------------------------
(***************************************************************************)
(* circuitbreaker.go implements the contract of a circuit breaker.         *)
(***************************************************************************)
EXTENDS CircuitBreaker

\* The counters are only meaningful in the mode that reads them; an open breaker
\* is cooled once the reset timeout has elapsed.
Contract == INSTANCE BreakerContract WITH
    TripAfter <- FailureThreshold,
    CloseAfter <- SuccessThreshold,
    mode <- state,
    streak <- IF state = "closed" THEN failureCount ELSE 0,
    probes <- IF state = "half-open" THEN successCount ELSE 0,
    cooled <- state = "open" /\ trippedAge >= ResetTimeout

\* Every behaviour of the breaker, with its callers interleaved, its panics, its
\* clock and its resets, is one of the contract's.
ImplementsContract == Contract!Spec
===============================================================================
