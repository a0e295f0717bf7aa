---------------------------- MODULE BreakerContract ----------------------------
(***************************************************************************)
(* What a circuit breaker promises the code behind it, without callers,    *)
(* mutex, clock or statistics: the three modes, how many consecutive       *)
(* failures trip it, that it must cool down before it is probed, and how   *)
(* many consecutive successful probes close it.  CircuitBreakerRefinement  *)
(* shows that circuitbreaker.go implements it.                             *)
(***************************************************************************)
EXTENDS Naturals

CONSTANTS TripAfter,   \* consecutive failures that trip a closed breaker
          CloseAfter   \* consecutive successful probes that close it again

VARIABLES
    mode,    \* "closed", "open" or "half-open"
    streak,  \* failures in a row of a closed breaker
    probes,  \* successful probes in a row of a half-open breaker
    cooled   \* an open breaker has waited long enough

cvars == <<mode, streak, probes, cooled>>

Init == mode = "closed" /\ streak = 0 /\ probes = 0 /\ ~cooled

\* A failure the closed breaker still tolerates.
Tolerate ==
    /\ mode = "closed" /\ streak + 1 < TripAfter
    /\ streak' = streak + 1
    /\ UNCHANGED <<mode, probes, cooled>>

\* The failure that exhausts the budget, or any failed probe.
Trip ==
    /\ mode = "half-open" \/ (mode = "closed" /\ streak + 1 >= TripAfter)
    /\ mode' = "open" /\ streak' = 0 /\ probes' = 0
    /\ cooled' \in BOOLEAN

\* The reset timeout of an open breaker elapses.
Cool ==
    /\ mode = "open" /\ ~cooled /\ cooled'
    /\ UNCHANGED <<mode, streak, probes>>

\* A call finds the breaker cooled and becomes the first probe.
Probe ==
    /\ mode = "open" /\ cooled
    /\ mode' = "half-open" /\ ~cooled'
    /\ UNCHANGED <<streak, probes>>

\* A success forgives a closed breaker, and counts for a half-open one.
Forgive ==
    /\ mode = "closed" /\ streak' = 0
    /\ UNCHANGED <<mode, probes, cooled>>

Approve ==
    /\ mode = "half-open" /\ probes + 1 < CloseAfter
    /\ probes' = probes + 1
    /\ UNCHANGED <<mode, streak, cooled>>

Close ==
    /\ mode = "half-open" /\ probes + 1 >= CloseAfter
    /\ mode' = "closed" /\ streak' = 0 /\ probes' = 0
    /\ UNCHANGED cooled

\* An operator resets the breaker.
ForceClosed ==
    /\ mode' = "closed" /\ streak' = 0 /\ probes' = 0 /\ ~cooled'

Next == Tolerate \/ Trip \/ Cool \/ Probe \/ Forgive \/ Approve \/ Close \/ ForceClosed

Spec == Init /\ [][Next]_cvars
===============================================================================
