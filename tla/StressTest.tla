------------------------------ MODULE StressTest ------------------------------
(***************************************************************************)
(* internal/pkg/stress/stress.go: Run feeds TotalRequests signals to its   *)
(* workers through a buffered channel, closes it and waits; each worker    *)
(* asks the rate limiter and the circuit breaker, sends its HTTP request   *)
(* outside the breaker, reports the outcome with breaker.Execute, and      *)
(* updates the shared statistics with atomics (CAS loops for the extremes).*)
(* The breaker is module CircuitBreaker, its callers are the workers.      *)
(***************************************************************************)
EXTENDS CircuitBreaker, FiniteSets

CONSTANTS
    TotalRequests,  \* StressTestConfig.TotalRequests
    Latencies,      \* the latencies a request may take
    Day             \* initial minLatency (24h), longer than any latency

Workers == Callers

ASSUME StressAssumption ==
    /\ TotalRequests \in Nat
    /\ Latencies \subseteq 1..Day - 1 /\ Day \in Nat
    /\ IsFiniteSet(Callers)
    /\ MaxRequests >= 2 * TotalRequests  \* the breaker's bound never interferes

VARIABLES
    main,          \* Run: "feeding", "waiting" (channel closed) or "done"
    sent,          \* signals sent by Run
    queue,         \* signals in requestsChan
    pc,            \* where each worker is
    latency,       \* each worker's last measured latency
    ok,            \* and whether that request succeeded
    seen,          \* value loaded by a CAS loop
    successful, failed,                  \* successfulRequests, failedRequests
    latencySum, maxLatency, minLatency

stats == <<successful, failed, latencySum, maxLatency, minLatency>>
locals == <<latency, ok, seen>>
svars == <<vars, main, sent, queue, pc, locals, stats>>

SInit ==
    /\ Init
    /\ main = "feeding" /\ sent = 0 /\ queue = 0
    /\ pc = [w \in Workers |-> "idle"]
    /\ latency = [w \in Workers |-> 0]
    /\ ok = [w \in Workers |-> FALSE]
    /\ seen = [w \in Workers |-> 0]
    /\ successful = 0 /\ failed = 0
    /\ latencySum = 0 /\ maxLatency = 0 /\ minLatency = Day

Goto(w, from, to) == pc[w] = from /\ pc' = [pc EXCEPT ![w] = to]

-------------------------------------------------------------------------------
(* Run *)

\* Run sends one signal; the channel holds TotalRequests, so it never blocks.
Feed ==
    /\ main = "feeding" /\ sent < TotalRequests
    /\ sent' = sent + 1 /\ queue' = queue + 1
    /\ UNCHANGED <<vars, main, pc, locals, stats>>

\* (Mutant) the channel is never closed.
CloseChannel_Never ==
    /\ main = "feeding" /\ sent = TotalRequests
    /\ UNCHANGED svars

CloseChannel ==
    /\ main = "feeding" /\ sent = TotalRequests
    /\ main' = "waiting"
    /\ UNCHANGED <<vars, sent, queue, pc, locals, stats>>

\* (Mutant) Run does not wait for its workers.
Collect_NoWait ==
    /\ main = "waiting"
    /\ main' = "done"
    /\ UNCHANGED <<vars, sent, queue, pc, locals, stats>>

\* wg.Wait returns; from here on Run only computes its result from the stats.
Collect ==
    /\ main = "waiting" /\ \A w \in Workers : pc[w] = "exited"
    /\ main' = "done"
    /\ UNCHANGED <<vars, sent, queue, pc, locals, stats>>

-------------------------------------------------------------------------------
(* worker *)

Receive(w) ==
    /\ Goto(w, "idle", "limit")
    /\ queue > 0 /\ queue' = queue - 1
    /\ UNCHANGED <<vars, main, sent, locals, stats>>

\* The channel is closed and drained.
Exit(w) ==
    /\ Goto(w, "idle", "exited")
    /\ queue = 0 /\ main # "feeding"
    /\ UNCHANGED <<vars, main, sent, queue, locals, stats>>

\* rateLimiter.Allow(): passes or counts the request as failed.
Limit(w) ==
    /\ \/ Goto(w, "limit", "check") /\ UNCHANGED failed
       \/ Goto(w, "limit", "idle") /\ failed' = failed + 1
    /\ UNCHANGED <<vars, main, sent, queue, locals, successful, latencySum, maxLatency, minLatency>>

\* (Mutant) a request refused by the open breaker is not counted.
Check_Uncounted(w) ==
    /\ mutex = Nobody
    /\ IF state = "open" THEN Goto(w, "check", "idle") ELSE Goto(w, "check", "request")
    /\ UNCHANGED <<vars, main, sent, queue, locals, stats>>

\* breaker.IsOpen(), under the breaker's mutex: an open breaker fails the
\* request without asking it whether the reset timeout has elapsed.
Check(w) ==
    /\ mutex = Nobody
    /\ IF state = "open"
       THEN Goto(w, "check", "idle") /\ failed' = failed + 1
       ELSE Goto(w, "check", "request") /\ UNCHANGED failed
    /\ UNCHANGED <<vars, main, sent, queue, locals, successful, latencySum, maxLatency, minLatency>>

\* lb.GetService answers: the mock's list is made with three instances and never
\* changed, so its error exit cannot be taken.  The request is sent and its latency
\* measured, with no lock held.
Request(w) ==
    /\ Goto(w, "request", "record")
    /\ \E l \in Latencies, o \in BOOLEAN :
       latency' = [latency EXCEPT ![w] = l] /\ ok' = [ok EXCEPT ![w] = o]
    /\ UNCHANGED <<vars, main, sent, queue, seen, stats>>

\* breaker.Execute(func() error { return err }): enter or be rejected; the
\* result of Execute is ignored.
Record(w) ==
    /\ \/ Begin(w) /\ Goto(w, "record", "recording")
       \/ Reject(w) /\ Goto(w, "record", "count")
    /\ UNCHANGED <<main, sent, queue, locals, stats>>

Recorded(w) ==
    /\ Return(w, ok[w]) /\ Goto(w, "recording", "count")
    /\ UNCHANGED <<main, sent, queue, locals, stats>>

\* The atomic adds; nobody reads the totals before wg.Wait.
Count(w) ==
    /\ Goto(w, "count", "loadmax")
    /\ successful' = IF ok[w] THEN successful + 1 ELSE successful
    /\ failed' = IF ok[w] THEN failed ELSE failed + 1
    /\ latencySum' = latencySum + latency[w]
    /\ UNCHANGED <<vars, main, sent, queue, locals, maxLatency, minLatency>>

LoadMax(w) ==
    /\ IF latency[w] <= maxLatency THEN Goto(w, "loadmax", "loadmin") ELSE Goto(w, "loadmax", "casmax")
    /\ seen' = [seen EXCEPT ![w] = maxLatency]
    /\ UNCHANGED <<vars, main, sent, queue, latency, ok, stats>>

\* (Mutant) a plain store instead of compare-and-swap.
CasMax_Store(w) ==
    /\ Goto(w, "casmax", "loadmin") /\ maxLatency' = latency[w]
    /\ UNCHANGED <<vars, main, sent, queue, locals, successful, failed, latencySum, minLatency>>

CasMax(w) ==
    /\ IF maxLatency = seen[w]
       THEN Goto(w, "casmax", "loadmin") /\ maxLatency' = latency[w]
       ELSE Goto(w, "casmax", "loadmax") /\ UNCHANGED maxLatency
    /\ UNCHANGED <<vars, main, sent, queue, locals, successful, failed, latencySum, minLatency>>

LoadMin(w) ==
    /\ IF latency[w] >= minLatency THEN Goto(w, "loadmin", "idle") ELSE Goto(w, "loadmin", "casmin")
    /\ seen' = [seen EXCEPT ![w] = minLatency]
    /\ UNCHANGED <<vars, main, sent, queue, latency, ok, stats>>

CasMin(w) ==
    /\ IF minLatency = seen[w]
       THEN Goto(w, "casmin", "idle") /\ minLatency' = latency[w]
       ELSE Goto(w, "casmin", "loadmin") /\ UNCHANGED minLatency
    /\ UNCHANGED <<vars, main, sent, queue, locals, successful, failed, latencySum, maxLatency>>

Worker(w) ==
    \/ Receive(w) \/ Exit(w) \/ Limit(w) \/ Check(w) \/ Request(w)
    \/ Record(w) \/ Recorded(w) \/ Count(w)
    \/ LoadMax(w) \/ CasMax(w) \/ LoadMin(w) \/ CasMin(w)

Clock == Tick /\ UNCHANGED <<main, sent, queue, pc, locals, stats>>

SNext ==
    \/ Feed \/ CloseChannel \/ Collect
    \/ \E w \in Workers : Worker(w)
    \/ Clock

SSpec == SInit /\ [][SNext]_svars

-------------------------------------------------------------------------------
(* Properties *)

Uncounted == {w \in Workers :
    pc[w] \in {"limit", "check", "request", "record", "recording", "count"}}

\* Every signal sent is waiting, being handled, or counted exactly once,
\* whichever way the worker leaves its loop body.
SignalsConserved ==
    sent = queue + Cardinality(Uncounted) + successful + failed

\* Run's TotalRequests is the number it was asked for, and the average it computes
\* over them is not above the longest latency: it reads the totals only after every
\* worker has counted its last request.
ResultComplete ==
    main = "done" => /\ successful + failed = TotalRequests
                     /\ latencySum <= maxLatency * TotalRequests

\* A lost compare-and-swap never loses an extreme: once a worker has left the
\* loops its latency lies between minLatency and maxLatency, whoever else is
\* updating them.
ExtremesCover ==
    \A w \in Workers :
        /\ pc[w] \in {"loadmin", "casmin", "idle", "limit", "check", "request", "exited"}
             => latency[w] <= maxLatency
        /\ pc[w] \in {"idle", "limit", "check", "request", "exited"} /\ latency[w] > 0
             => minLatency <= latency[w]

\* The scheduler runs every goroutine that can run, and time passes.
SFairSpec ==
    /\ SSpec
    /\ WF_svars(Feed \/ CloseChannel \/ Collect)
    /\ \A w \in Workers : WF_svars(Worker(w))

\* The test ends: no worker waits for ever for a signal, for the breaker's mutex
\* or in a CAS loop.
Terminates == <>(main = "done")
===============================================================================
