-------------------------- MODULE CircuitBreakerProofs --------------------------
(***************************************************************************)
(* The breaker's invariants and its refinement, for every set of callers,  *)
(* every pair of thresholds, every reset timeout and every request bound;  *)
(* then the stress tester that uses it, for every set of workers, every    *)
(* number of requests and every set of latencies.                          *)
(***************************************************************************)
EXTENDS CircuitBreakerRefinement, StressTest, FiniteSetTheorems, TLAPS

\* The inductive invariant.  NoFailureAfterTrip and GaugeNeverOptimistic need to
\* know more while a call is running: a running call is never in an open breaker
\* (so its outcome cannot disturb the trip time), and the metric can only lag
\* behind in the half-open state.
Inductive ==
    /\ TypeOK
    /\ ClosedBelowThreshold
    /\ HalfOpenAdmits
    /\ NoFailureAfterTrip
    /\ mutex # Nobody => state # "open"
    /\ gauge # state => gauge = "open" /\ state = "half-open"

\* A new breaker satisfies the inductive invariant.
LEMMA InitInductive == Init => Inductive
BY ConfigAssumption
   DEF Init, Inductive, TypeOK, State, ClosedBelowThreshold, HalfOpenAdmits, NoFailureAfterTrip

\* Letting a call in preserves it: an open breaker has become half-open.
LEMMA BeginInductive ==
    ASSUME Inductive, NEW c \in Callers, Begin(c)
    PROVE  Inductive'
BY ConfigAssumption
   DEF Begin, canExecute, Inductive, TypeOK, State, ClosedBelowThreshold, HalfOpenAdmits,
       NoFailureAfterTrip, clocks

\* Recording a failure preserves it: the failure that trips sets both times.
LEMMA FailureInductive ==
    ASSUME Inductive, NEW c \in Callers, Return(c, FALSE)
    PROVE  Inductive'
<1>1. TypeOK' /\ ClosedBelowThreshold' /\ HalfOpenAdmits' /\ mutex' = Nobody /\ gauge' = state'
  BY ConfigAssumption
     DEF Return, updateState, RecordFailure, Inductive, TypeOK, State, ClosedBelowThreshold,
         HalfOpenAdmits
<1>2. NoFailureAfterTrip'
  BY ConfigAssumption
     DEF Return, updateState, RecordFailure, Inductive, TypeOK, State, NoFailureAfterTrip
<1> QED
  BY <1>1, <1>2 DEF Inductive

\* Recording a success preserves it: only a full set of probes closes.
LEMMA SuccessInductive ==
    ASSUME Inductive, NEW c \in Callers, Return(c, TRUE)
    PROVE  Inductive'
BY ConfigAssumption
   DEF Return, updateState, RecordSuccess, Inductive, TypeOK, State, ClosedBelowThreshold,
       HalfOpenAdmits, NoFailureAfterTrip, clocks

\* A panic only frees the mutex.
LEMMA PanicInductive ==
    ASSUME Inductive, NEW c \in Callers, Panic(c)
    PROVE  Inductive'
BY DEF Panic, Inductive, TypeOK, State, ClosedBelowThreshold, HalfOpenAdmits,
       NoFailureAfterTrip, clocks, counters

\* Both times age together, so they stay equal.
LEMMA TickInductive ==
    ASSUME Inductive, Tick
    PROVE  Inductive'
BY ConfigAssumption
   DEF Tick, Older, Inductive, TypeOK, State, ClosedBelowThreshold, HalfOpenAdmits,
       NoFailureAfterTrip, counters

\* Reset returns to a closed breaker with nothing on it.
LEMMA ResetInductive ==
    ASSUME Inductive, Reset
    PROVE  Inductive'
BY ConfigAssumption
   DEF Reset, Inductive, TypeOK, State, ClosedBelowThreshold, HalfOpenAdmits, NoFailureAfterTrip

\* Every step of the breaker preserves the inductive invariant.
LEMMA NextInductive == Inductive /\ [Next]_vars => Inductive'
<1> SUFFICES ASSUME Inductive, [Next]_vars PROVE Inductive'
  OBVIOUS
<1>1. ASSUME NEW c \in Callers, Begin(c) PROVE Inductive'
  BY <1>1, BeginInductive
<1>2. ASSUME NEW c \in Callers, Reject(c) PROVE Inductive'
  BY <1>2 DEF Reject, vars, counters, clocks, Inductive, TypeOK, State, ClosedBelowThreshold,
              HalfOpenAdmits, NoFailureAfterTrip
<1>3. ASSUME NEW c \in Callers, Panic(c) PROVE Inductive'
  BY <1>3, PanicInductive
<1>4. ASSUME NEW c \in Callers, NEW good \in BOOLEAN, Return(c, good) PROVE Inductive'
  <2>1. CASE good = TRUE
    BY <1>4, <2>1, SuccessInductive
  <2>2. CASE good = FALSE
    BY <1>4, <2>2, FailureInductive
  <2> QED
    BY <2>1, <2>2
<1>5. CASE UNCHANGED vars
  BY <1>5 DEF vars, counters, clocks, Inductive, TypeOK, State, ClosedBelowThreshold,
              HalfOpenAdmits, NoFailureAfterTrip
<1> QED
  BY <1>1, <1>2, <1>3, <1>4, <1>5, TickInductive, ResetInductive DEF Next

\* The inductive invariant holds in every reachable state.
THEOREM Invariance == Spec => []Inductive
BY InitInductive, NextInductive, PTL DEF Spec

\* Type correctness of the breaker.
THEOREM TypeCorrect == Spec => []TypeOK
BY Invariance, PTL DEF Inductive

\* A closed breaker never carries an exhausted failure budget.
THEOREM ClosedBelow == Spec => []ClosedBelowThreshold
BY Invariance, PTL DEF Inductive

\* A half-open breaker can always be probed again.
THEOREM HalfOpenNeverStuck == Spec => []HalfOpenAdmits
BY Invariance, PTL DEF Inductive

\* No outcome is recorded into a tripped breaker.
THEOREM TripIsLastFailure == Spec => []NoFailureAfterTrip
BY Invariance, PTL DEF Inductive

\* The exported metric never shows a tripped breaker as closed.
THEOREM GaugeLag == Spec => []GaugeNeverOptimistic
<1>1. Inductive => GaugeNeverOptimistic
  BY DEF Inductive, GaugeNeverOptimistic
<1> QED
  BY <1>1, Invariance, PTL

-------------------------------------------------------------------------------
(* Action properties and the refinement *)

\* A step from Open leaves it by a first probe or by Reset only.
LEMMA OpenStep ==
    ASSUME Inductive, [Next]_vars, state = "open", state' # "open"
    PROVE  \/ trippedAge = ResetTimeout /\ state' = "half-open" /\ mutex' # Nobody
           \/ state' = "closed" /\ failureCount' = 0 /\ trippedAge' = ResetTimeout
<1>1. ASSUME NEW c \in Callers, NEW good \in BOOLEAN, Return(c, good) PROVE FALSE
  BY <1>1, ConfigAssumption DEF Return, Inductive
<1>2. ASSUME NEW c \in Callers, Begin(c) PROVE trippedAge = ResetTimeout /\ state' = "half-open" /\ mutex' # Nobody
  BY <1>2, ConfigAssumption DEF Begin, canExecute, Inductive, TypeOK
<1>3. CASE Reset
  BY <1>3 DEF Reset
<1>4. ASSUME NEW c \in Callers, Reject(c) \/ Panic(c) PROVE FALSE
  BY <1>4 DEF Reject, Panic, vars
<1>5. CASE Tick \/ UNCHANGED vars
  BY <1>5 DEF Tick, vars
<1> QED
  BY <1>1, <1>2, <1>3, <1>4, <1>5 DEF Next

\* The breaker stays open until the reset timeout has elapsed or it is reset.
THEOREM StaysOpen == Spec => OpenUntilTimeout
<1>1. Inductive /\ [Next]_vars
        => [state = "open" /\ state' # "open"
              => \/ trippedAge = ResetTimeout /\ state' = "half-open" /\ mutex' # Nobody
                 \/ state' = "closed" /\ failureCount' = 0 /\ trippedAge' = ResetTimeout]_vars
  BY OpenStep
<1> QED
  BY <1>1, Invariance, PTL DEF Spec, OpenUntilTimeout

\* The initial breaker is the contract's.
LEMMA InitRefines == Init => Contract!Init
BY DEF Init, Contract!Init

\* Every step of the breaker is a step of the contract or invisible to it.
LEMMA StepRefines ==
    ASSUME Inductive, Inductive', [Next]_vars
    PROVE  [Contract!Next]_(Contract!cvars)
<1> USE ConfigAssumption DEF Inductive, TypeOK, State
<1>1. ASSUME NEW c \in Callers, Begin(c) PROVE Contract!Probe \/ UNCHANGED Contract!cvars
  BY <1>1 DEF Begin, canExecute, Contract!Probe, Contract!cvars, clocks
<1>2. ASSUME NEW c \in Callers, Reject(c) \/ Panic(c) PROVE UNCHANGED Contract!cvars
  BY <1>2 DEF Reject, Panic, Contract!cvars, vars, clocks, counters
<1>3. ASSUME NEW c \in Callers, Return(c, FALSE) PROVE Contract!Tolerate \/ Contract!Trip
  <2> USE <1>3 DEF Return, updateState, RecordFailure
  <2>1. state \in {"closed", "half-open"}
    OBVIOUS
  <2>2. CASE state = "half-open" \/ failureCount' >= FailureThreshold
    <3>1. state' = "open"
      BY <2>1, <2>2
    <3>2. state = "half-open" \/ (state = "closed" /\ failureCount + 1 >= FailureThreshold)
      BY <2>1, <2>2
    <3>3. (state' = "open" /\ trippedAge' >= ResetTimeout) \in BOOLEAN
      OBVIOUS
    <3> QED
      BY <3>1, <3>2, <3>3 DEF Contract!Trip
  <2>3. CASE state = "closed" /\ ~(failureCount' >= FailureThreshold)
    BY <2>3 DEF Contract!Tolerate
  <2> QED
    BY <2>1, <2>2, <2>3
<1>4. ASSUME NEW c \in Callers, Return(c, TRUE)
      PROVE  Contract!Forgive \/ Contract!Approve \/ Contract!Close
  <2> USE <1>4 DEF Return, updateState, RecordSuccess, clocks
  <2>1. CASE state = "closed"
    BY <2>1 DEF Contract!Forgive
  <2>2. CASE state = "half-open"
    BY <2>2 DEF Contract!Approve, Contract!Close
  <2> QED
    BY <2>1, <2>2
<1>5. ASSUME Reset PROVE Contract!ForceClosed
  BY <1>5 DEF Reset, Contract!ForceClosed
<1>6. ASSUME Tick PROVE Contract!Cool \/ UNCHANGED Contract!cvars
  <2> USE <1>6 DEF Tick, Older, counters
  <2>1. CASE state = "open" /\ trippedAge < ResetTimeout /\ trippedAge' >= ResetTimeout
    BY <2>1 DEF Contract!Cool
  <2>2. CASE ~(state = "open" /\ trippedAge < ResetTimeout /\ trippedAge' >= ResetTimeout)
    <3>1. (trippedAge' >= ResetTimeout) = (trippedAge >= ResetTimeout) \/ state # "open"
      BY <2>2
    <3> QED
      BY <3>1 DEF Contract!cvars
  <2> QED
    BY <2>1, <2>2
<1>7. ASSUME UNCHANGED vars PROVE UNCHANGED Contract!cvars
  BY <1>7 DEF vars, counters, clocks, Contract!cvars
<1> QED
  <2>1. ASSUME NEW c \in Callers, NEW good \in BOOLEAN, Return(c, good)
        PROVE  Contract!Next
    BY <2>1, <1>3, <1>4 DEF Contract!Next
  <2> QED
    BY <1>1, <1>2, <1>5, <1>6, <1>7, <2>1 DEF Next, Contract!Next

\* circuitbreaker.go implements the contract of a circuit breaker.
THEOREM Refinement == Spec => ImplementsContract
<1>1. Inductive /\ Inductive' /\ [Next]_vars => [Contract!Next]_(Contract!cvars)
  BY StepRefines
<1> QED
  BY <1>1, InitRefines, Invariance, PTL DEF Spec, ImplementsContract, Contract!Spec
-------------------------------------------------------------------------------
(* The stress tester *)

\* The places where a worker holds a signal it has not counted yet.
Busy == {"limit", "check", "request", "record", "recording", "count"}
Places == Busy \cup {"idle", "loadmax", "casmax", "loadmin", "casmin", "exited"}

StressTypeOK ==
    /\ main \in {"feeding", "waiting", "done"}
    /\ sent \in 0..TotalRequests /\ queue \in Nat
    /\ pc \in [Workers -> Places]
    /\ latency \in [Workers -> Latencies \cup {0}]
    /\ ok \in [Workers -> BOOLEAN]
    /\ seen \in [Workers -> Nat]
    /\ successful \in Nat /\ failed \in Nat /\ latencySum \in Nat
    /\ maxLatency \in Nat /\ minLatency \in Nat

\* A worker about to store an extreme has one that is further out than what it saw.
Improves ==
    \A w \in Workers :
        /\ pc[w] = "casmax" => seen[w] < latency[w]
        /\ pc[w] = "casmin" => latency[w] < seen[w]

\* Run and its workers end in order: all signals, the channel, the workers, Run.
Closing ==
    /\ main # "feeding" => sent = TotalRequests
    /\ \A w \in Workers : pc[w] = "exited" => main # "feeding" /\ queue = 0
    /\ main = "done" => \A w \in Workers : pc[w] = "exited"

\* Whatever is above the longest latency, including the ones that workers are about
\* to store, is above the average.
Longest(m) ==
    /\ maxLatency <= m
    /\ \A w \in Workers : pc[w] \in {"loadmax", "casmax"} => latency[w] <= m

AverageBound == \A m \in Nat : Longest(m) => latencySum <= m * (successful + failed)

Ordered == StressTypeOK /\ Improves /\ ExtremesCover /\ Closing

StressInv == Ordered /\ SignalsConserved /\ AverageBound

\* A step that adds no latency and leaves every longest one longest.
Counted ==
    /\ latencySum' = latencySum /\ successful + failed <= successful' + failed'
    /\ \A m \in Nat : Longest(m)' => Longest(m)

LEMMA StressInit == SInit => StressInv
<1> SUFFICES ASSUME SInit PROVE StressInv
  OBVIOUS
<1>1. StressTypeOK
  BY StressAssumption DEF SInit, StressTypeOK, Places
<1>2. SignalsConserved
  <2>1. Uncounted = {}
    BY DEF Uncounted, SInit
  <2> QED
    BY <2>1, FS_EmptySet DEF SignalsConserved, SInit
<1>3. Improves /\ ExtremesCover /\ Closing
  BY DEF SInit, Improves, ExtremesCover, Closing
<1>4. AverageBound
  BY DEF SInit, AverageBound
<1> QED
  BY <1>1, <1>2, <1>3, <1>4 DEF StressInv, Ordered

\* A worker that moves between places is added to the uncounted signals or taken
\* from them.
LEMMA Moved ==
    ASSUME StressTypeOK, NEW w \in Workers, NEW from, NEW to, Goto(w, from, to)
    PROVE  /\ Cardinality(Uncounted) \in Nat
           /\ Cardinality(Uncounted') =
                Cardinality(Uncounted) + (IF to \in Busy THEN 1 ELSE 0)
                                       - (IF from \in Busy THEN 1 ELSE 0)
<1>1. pc[w] = from /\ pc' = [pc EXCEPT ![w] = to] /\ pc \in [Workers -> Places]
  BY DEF Goto, StressTypeOK
<1>2. IsFiniteSet(Uncounted)
  BY StressAssumption, FS_Subset DEF Uncounted, Workers
<1>3. Uncounted' = IF to \in Busy THEN Uncounted \cup {w} ELSE Uncounted \ {w}
  BY <1>1 DEF Uncounted, Busy
<1>4. w \in Uncounted <=> from \in Busy
  BY <1>1 DEF Uncounted, Busy
<1> HIDE DEF Uncounted, Busy
<1>5. Cardinality(Uncounted) \in Nat
  BY <1>2, FS_CardinalityType
<1>6. /\ Cardinality(Uncounted \cup {w}) =
           IF w \in Uncounted THEN Cardinality(Uncounted) ELSE Cardinality(Uncounted) + 1
      /\ Cardinality(Uncounted \ {w}) =
           IF w \in Uncounted THEN Cardinality(Uncounted) - 1 ELSE Cardinality(Uncounted)
  BY <1>2, FS_AddElement, FS_RemoveElement
<1> QED
  BY <1>3, <1>4, <1>5, <1>6

\* The two ways to leave a request: counted as failed at once, or with its latency.
LEMMA SignalsNext == ASSUME StressInv, [SNext]_svars PROVE SignalsConserved'
<1> USE DEF StressInv, Ordered, StressTypeOK, SignalsConserved
<1>1. ASSUME UNCHANGED pc PROVE Uncounted' = Uncounted
  BY <1>1 DEF Uncounted
<1>2. Cardinality(Uncounted) \in Nat
  <2>1. IsFiniteSet(Uncounted)
    BY StressAssumption, FS_Subset DEF Uncounted, Workers
  <2> QED
    BY <2>1, FS_CardinalityType
<1>3. CASE Feed
  BY <1>1, <1>2, <1>3 DEF Feed, stats
<1>4. CASE CloseChannel \/ Collect \/ Clock \/ UNCHANGED svars
  BY <1>1, <1>4 DEF CloseChannel, Collect, Clock, svars, stats
<1>5. ASSUME NEW w \in Workers, Worker(w) PROVE SignalsConserved'
  <2> USE DEF Busy, stats
  <2>1. CASE Receive(w)
    BY <2>1, <1>2, Moved DEF Receive
  <2>2. CASE Exit(w)
    BY <2>2, <1>2, Moved DEF Exit
  <2>3. CASE Limit(w)
    BY <2>3, <1>2, Moved DEF Limit
  <2>4. CASE Check(w)
    BY <2>4, <1>2, Moved DEF Check
  <2>5. CASE Request(w)
    BY <2>5, <1>2, Moved DEF Request
  <2>6. CASE Record(w)
    BY <2>6, <1>2, Moved DEF Record
  <2>7. CASE Recorded(w)
    BY <2>7, <1>2, Moved DEF Recorded
  <2>8. CASE Count(w)
    BY <2>8, <1>2, Moved DEF Count
  <2>9. CASE LoadMax(w)
    BY <2>9, <1>2, Moved DEF LoadMax
  <2>10. CASE CasMax(w)
    BY <2>10, <1>2, Moved DEF CasMax
  <2>11. CASE LoadMin(w)
    BY <2>11, <1>2, Moved DEF LoadMin
  <2>12. CASE CasMin(w)
    BY <2>12, <1>2, Moved DEF CasMin
  <2> QED
    BY <1>5, <2>1, <2>2, <2>3, <2>4, <2>5, <2>6, <2>7, <2>8, <2>9, <2>10, <2>11, <2>12
    DEF Worker
<1> QED
  BY <1>3, <1>4, <1>5 DEF SNext

\* A bound by a multiple survives an increase of the multiplied total.
LEMMA Multiples ==
    ASSUME NEW m \in Nat, NEW s \in Nat, NEW a \in Nat, NEW b \in Nat, NEW c \in Nat, NEW d \in Nat,
           s <= m * (a + b), a + b <= c + d
    PROVE  s <= m * (c + d)
<1>1. ASSUME NEW x \in Nat, NEW y \in Nat, x <= y PROVE m * x <= m * y
  BY <1>1
<1>2. m * (a + b) \in Nat /\ m * (c + d) \in Nat
  OBVIOUS
<1> QED
  BY <1>1, <1>2

\* The average stays bounded while the sum does not change and what is longest after a
\* step is longest before it.
LEMMA AverageKept ==
    ASSUME StressTypeOK, StressTypeOK', AverageBound, Counted
    PROVE  AverageBound'
<1> SUFFICES ASSUME NEW m \in Nat, Longest(m)'
             PROVE  latencySum' <= m * (successful' + failed')
  BY DEF AverageBound
<1>1. latencySum <= m * (successful + failed) /\ latencySum' = latencySum
  BY DEF AverageBound, Counted
<1>2. successful + failed <= successful' + failed'
  BY DEF Counted
<1>3. /\ successful \in Nat /\ failed \in Nat /\ latencySum \in Nat
      /\ successful' \in Nat /\ failed' \in Nat
  BY DEF StressTypeOK
<1> QED
  BY <1>1, <1>2, <1>3, Multiples

\* The rest of the invariant, for the steps that count and store nothing.
LEMMA QuietNext ==
    ASSUME StressInv, NEW w \in Workers,
           Receive(w) \/ Exit(w) \/ Limit(w) \/ Check(w) \/ Request(w) \/ Record(w) \/ Recorded(w)
    PROVE  Ordered' /\ Counted
<1> USE DEF StressInv, Ordered, StressTypeOK, Goto, Busy, Places, stats, locals
<1>1. CASE Receive(w)
  BY <1>1 DEF Receive, Improves, ExtremesCover, Closing, Counted, Longest
<1>2. CASE Exit(w)
  BY <1>2 DEF Exit, Improves, ExtremesCover, Closing, Counted, Longest
<1>3. CASE Limit(w)
  BY <1>3 DEF Limit, Improves, ExtremesCover, Closing, Counted, Longest
<1>4. CASE Check(w)
  BY <1>4 DEF Check, Improves, ExtremesCover, Closing, Counted, Longest
<1>5. CASE Request(w)
  BY <1>5 DEF Request, Improves, ExtremesCover, Closing, Counted, Longest
<1>6. CASE Record(w)
  BY <1>6 DEF Record, Improves, ExtremesCover, Closing, Counted, Longest
<1>7. CASE Recorded(w)
  BY <1>7 DEF Recorded, Improves, ExtremesCover, Closing, Counted, Longest
<1> QED
  BY <1>1, <1>2, <1>3, <1>4, <1>5, <1>6, <1>7

LEMMA LatencyTyped == StressTypeOK => \A w \in Workers : latency[w] \in Nat
<1>1. Latencies \cup {0} \subseteq Nat
  BY StressAssumption
<1> QED
  BY <1>1 DEF StressTypeOK

\* A counted request adds its latency; the CAS loops move the extremes outwards only.
LEMMA LoopNext ==
    ASSUME StressInv, NEW w \in Workers,
           LoadMax(w) \/ CasMax(w) \/ LoadMin(w) \/ CasMin(w)
    PROVE  Ordered' /\ Counted
<1>t. latency[w] \in Nat /\ \A v \in Workers : latency[v] \in Nat
  BY LatencyTyped DEF StressInv, Ordered
<1> USE DEF StressInv, Ordered, StressTypeOK, Goto, Busy, Places, stats, locals
<1>1. CASE LoadMax(w)
  BY <1>1, <1>t DEF LoadMax, Improves, ExtremesCover, Closing, Counted, Longest
<1>2. CASE CasMax(w)
  BY <1>2, <1>t DEF CasMax, Improves, ExtremesCover, Closing, Counted, Longest
<1>3. CASE LoadMin(w)
  BY <1>3, <1>t DEF LoadMin, Improves, ExtremesCover, Closing, Counted, Longest
<1>4. CASE CasMin(w)
  BY <1>4, <1>t DEF CasMin, Improves, ExtremesCover, Closing, Counted, Longest
<1> QED
  BY <1>1, <1>2, <1>3, <1>4

LEMMA CountNext ==
    ASSUME StressInv, NEW w \in Workers, Count(w)
    PROVE  Ordered' /\ AverageBound'
<1>t. latency[w] \in Nat
  BY LatencyTyped DEF StressInv, Ordered
<1> USE DEF StressInv, Ordered, StressTypeOK, Goto, Busy, Places, stats, locals
<1>1. StressTypeOK'
  BY <1>t DEF Count
<1>2. Improves' /\ ExtremesCover' /\ Closing'
  BY DEF Count, Improves, ExtremesCover, Closing
<1>3. AverageBound'
  <2> SUFFICES ASSUME NEW m \in Nat, Longest(m)'
               PROVE  latencySum' <= m * (successful' + failed')
    BY DEF AverageBound
  <2> DEFINE n == successful + failed
  <2>1. Longest(m) /\ latency[w] <= m
    BY DEF Count, Longest
  <2>2. latencySum <= m * n
    BY <2>1 DEF AverageBound
  <2>3. n \in Nat /\ successful' + failed' = n + 1 /\ latencySum' = latencySum + latency[w]
    BY DEF Count
  <2> HIDE DEF n
  <2>4. m * (n + 1) = m * n + m /\ m * n \in Nat
    BY <2>3
  <2> QED
    BY <2>1, <2>2, <2>3, <2>4, <1>t
<1> QED
  BY <1>1, <1>2, <1>3

LEMMA RunNext ==
    ASSUME StressInv, Feed \/ CloseChannel \/ Collect \/ Clock \/ UNCHANGED svars
    PROVE  Ordered' /\ Counted
<1> USE DEF StressInv, Ordered, StressTypeOK, stats, locals
<1>1. CASE Feed
  BY <1>1, StressAssumption DEF Feed, Improves, ExtremesCover, Closing, Counted, Longest
<1>2. CASE CloseChannel
  BY <1>2 DEF CloseChannel, Improves, ExtremesCover, Closing, Counted, Longest
<1>3. CASE Collect
  BY <1>3 DEF Collect, Improves, ExtremesCover, Closing, Counted, Longest
<1>4. CASE Clock
  BY <1>4 DEF Clock, Improves, ExtremesCover, Closing, Counted, Longest
<1>5. CASE UNCHANGED svars
  BY <1>5 DEF svars, Improves, ExtremesCover, Closing, Counted, Longest
<1> QED
  BY <1>1, <1>2, <1>3, <1>4, <1>5

LEMMA StressNext == StressInv /\ [SNext]_svars => StressInv'
<1> SUFFICES ASSUME StressInv, [SNext]_svars PROVE StressInv'
  OBVIOUS
<1>1. ASSUME NEW w \in Workers, Worker(w)
      PROVE  Ordered' /\ AverageBound'
  BY <1>1, QuietNext, LoopNext, CountNext, AverageKept DEF Worker, StressInv, Ordered
<1>2. CASE Feed \/ CloseChannel \/ Collect \/ Clock \/ UNCHANGED svars
  BY <1>2, RunNext, AverageKept, SignalsNext DEF StressInv, Ordered
<1> QED
  BY <1>1, <1>2, SignalsNext DEF SNext, StressInv

LEMMA StressInvariance == SSpec => []StressInv
<1> QED
  BY StressInit, StressNext, PTL DEF SSpec

\* No signal is lost or counted twice on a worker's ways out of its loop body, for any
\* number of workers and requests.
THEOREM EverySignalCounted == SSpec => []SignalsConserved
<1>1. StressInv => SignalsConserved
  BY DEF StressInv, Ordered
<1> QED
  BY <1>1, StressInvariance, PTL

\* The CAS loops lose no extreme.
THEOREM NoExtremeLost == SSpec => []ExtremesCover
<1>1. StressInv => ExtremesCover
  BY DEF StressInv, Ordered
<1> QED
  BY <1>1, StressInvariance, PTL

\* With at least one worker, the result accounts for every request and its average does
\* not exceed the longest latency; without any, Run returns while its signals are still
\* in the channel.
THEOREM ResultsComplete ==
    ASSUME Workers # {}
    PROVE  SSpec => []ResultComplete
<1>1. StressInv => ResultComplete
  <2> SUFFICES ASSUME StressInv, main = "done"
               PROVE  /\ successful + failed = TotalRequests
                      /\ latencySum <= maxLatency * TotalRequests
    BY DEF ResultComplete
  <2>1. /\ \A w \in Workers : pc[w] = "exited"
        /\ queue = 0 /\ sent = TotalRequests
    BY DEF StressInv, Ordered, Closing
  <2>2. Cardinality(Uncounted) = 0
    BY <2>1, FS_EmptySet DEF Uncounted
  <2>3. successful + failed = TotalRequests
    BY <2>1, <2>2 DEF StressInv, Ordered, StressTypeOK, SignalsConserved
  <2>4. latencySum <= maxLatency * (successful + failed)
    BY <2>1 DEF StressInv, Ordered, StressTypeOK, AverageBound, Longest
  <2> QED
    BY <2>3, <2>4
<1> QED
  BY <1>1, StressInvariance, PTL

\* The stress tester uses its breaker only as the breaker's module says: whatever holds
\* of every breaker holds of this one.
THEOREM BreakerInUse == SSpec => Spec
<1>1. SInit => Init
  BY DEF SInit
<1>2. StressInv /\ [SNext]_svars => [Next]_vars
  <2> SUFFICES ASSUME StressInv, [SNext]_svars PROVE Next \/ UNCHANGED vars
    OBVIOUS
  <2>1. ASSUME NEW w \in Workers, Record(w) PROVE Next
    BY <2>1 DEF Record, Next, Workers
  <2>2. ASSUME NEW w \in Workers, Recorded(w) PROVE Next \/ UNCHANGED vars
    BY <2>2 DEF Recorded, Next, Workers, StressInv, Ordered, StressTypeOK
  <2>3. ASSUME NEW w \in Workers, Worker(w) PROVE Next \/ UNCHANGED vars
    BY <2>1, <2>2, <2>3
    DEF Worker, Receive, Exit, Limit, Check, Request, Count, LoadMax, CasMax, LoadMin, CasMin
  <2> QED
    BY <2>3 DEF SNext, Feed, CloseChannel, Collect, Clock, Next, svars
<1> QED
  BY <1>1, <1>2, StressInvariance, PTL DEF SSpec, Spec
===============================================================================
