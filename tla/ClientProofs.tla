----------------------------- MODULE ClientProofs -----------------------------
(***************************************************************************)
(* What a call of RetryWithConfig answers, for every configuration; and    *)
(* what the load balancer hands out, for any number of callers, instances  *)
(* and calls.                                                              *)
(***************************************************************************)
EXTENDS Retry, LoadBalancer, SequenceTheorems, FiniteSetTheorems, WellFoundedInduction, TLAPS

-------------------------------------------------------------------------------
(* Retries *)

Outcomes == {"failed", "late", "ok"}

RetryTypeOK ==
    /\ config.MaxRetries \in Int
    /\ stage \in {"loop", "fn", "check", "result", "wait", "returned"}
    /\ retries \in Nat
    /\ ctx \in {"live", "canceled"} /\ opCtx \in {"live", "canceled", "deadline"}
    /\ outcomes \in Seq(Outcomes)

\* None of the first n attempts was a success in time.
Unsuccessful(n) == \A m \in 1..n : outcomes[m] # "ok"

\* Before an attempt ends, retries attempts have, none of them well; the loop is left with
\* attempts to go only if there are to be none.
Trying ==
    stage \in {"loop", "fn", "check"} =>
        /\ Len(outcomes) = retries /\ Unsuccessful(retries)
        /\ retries <= config.MaxRetries \/ (stage = "loop" /\ config.MaxRetries < 0 /\ lastErr = "nil")

\* After it, the error says how the last one ended.
Tried ==
    stage \in {"result", "wait"} =>
        /\ Len(outcomes) = retries + 1 /\ Unsuccessful(retries) /\ retries <= config.MaxRetries
        /\ (lastErr = "nil") <=> (outcomes[retries + 1] = "ok")
        /\ stage = "wait" => lastErr # "nil" /\ retries < config.MaxRetries

\* Once the call has returned nothing changes.
Settled == SuccessIsTimely /\ NoEarlySurrender

RetryInv == RetryTypeOK /\ Trying /\ Tried /\ Settled

LEMMA RetryInitInv == RetryInit => RetryInv
<1> SUFFICES ASSUME RetryInit PROVE RetryInv
  OBVIOUS
<1>1. config.MaxRetries \in Int
  BY RetryAssumption DEF RetryInit, DefaultConfig
<1>2. stage = "loop" /\ retries = 0 /\ outcomes = <<>> /\ lastErr = "nil"
  BY DEF RetryInit
<1>3. RetryTypeOK
  BY <1>1, <1>2 DEF RetryTypeOK, RetryInit
<1>4. Trying
  BY <1>1, <1>2 DEF Trying, Unsuccessful
<1> QED
  BY <1>2, <1>3, <1>4 DEF RetryInv, Tried, Settled, SuccessIsTimely, NoEarlySurrender

\* The end of an attempt, where a success that came too late becomes an error.
LEMMA CheckDeadlineInv == RetryInv /\ CheckDeadline => RetryInv'
<1> SUFFICES ASSUME RetryInv, CheckDeadline PROVE RetryInv'
  OBVIOUS
<1> DEFINE outcome == IF lastErr # "nil" THEN "failed" ELSE IF opCtx = "live" THEN "ok" ELSE "late"
<1>1. stage = "check" /\ stage' = "result" /\ UNCHANGED <<config, retries, ctx, opCtx>>
      /\ outcomes' = Append(outcomes, outcome)
  BY DEF CheckDeadline, Goto
<1>2. Len(outcomes) = retries /\ Unsuccessful(retries) /\ retries <= config.MaxRetries
      /\ retries \in Nat /\ outcomes \in Seq(Outcomes) /\ config.MaxRetries \in Int
  BY <1>1 DEF RetryInv, RetryTypeOK, Trying
<1>3. outcome \in Outcomes
  BY DEF Outcomes
<1> HIDE DEF outcome
<1>4. /\ outcomes' \in Seq(Outcomes) /\ Len(outcomes') = retries + 1 /\ outcomes'[retries + 1] = outcome
      /\ \A m \in 1..retries : outcomes'[m] = outcomes[m]
  BY <1>1, <1>2, <1>3
<1>5. (lastErr' = "nil") <=> (outcome = "ok")
  BY DEF outcome, CheckDeadline, RetryInv, RetryTypeOK
<1>6. RetryTypeOK'
  BY <1>1, <1>2, <1>4 DEF RetryTypeOK, RetryInv
<1>7. Unsuccessful(retries)'
  BY <1>1, <1>2, <1>4 DEF Unsuccessful
<1>8. Tried'
  BY <1>1, <1>2, <1>4, <1>5, <1>7 DEF Tried
<1> QED
  BY <1>1, <1>6, <1>8 DEF RetryInv, Trying, Settled, SuccessIsTimely, NoEarlySurrender

LEMMA RetryNextInv == RetryInv /\ [RetryNext]_retryVars => RetryInv'
<1> SUFFICES ASSUME RetryInv, [RetryNext]_retryVars PROVE RetryInv'
  OBVIOUS
<1> USE DEF RetryInv, RetryTypeOK, Trying, Tried, Settled, Unsuccessful, Goto
<1>1. CASE Attempt
  BY <1>1 DEF Attempt, SuccessIsTimely, NoEarlySurrender
<1>2. CASE NoAttempt
  BY <1>2 DEF NoAttempt, SuccessIsTimely, NoEarlySurrender
<1>3. CASE FnReturns
  BY <1>3 DEF FnReturns, SuccessIsTimely, NoEarlySurrender
<1>4. CASE CheckDeadline
  BY <1>4, CheckDeadlineInv
<1>5. CASE Return
  BY <1>5 DEF Return, SuccessIsTimely, NoEarlySurrender
<1>6. CASE Backoff
  BY <1>6 DEF Backoff, SuccessIsTimely, NoEarlySurrender
<1>7. CASE GiveUp
  BY <1>7 DEF GiveUp, SuccessIsTimely, NoEarlySurrender
<1>8. CASE TryAgain
  BY <1>8 DEF TryAgain, SuccessIsTimely, NoEarlySurrender
<1>9. CASE Deadline
  BY <1>9 DEF Deadline, SuccessIsTimely, NoEarlySurrender
<1>10. CASE Fire
  BY <1>10 DEF Fire, SuccessIsTimely, NoEarlySurrender
<1>11. CASE Cancel
  BY <1>11 DEF Cancel, SuccessIsTimely, NoEarlySurrender
<1>12. CASE UNCHANGED retryVars
  BY <1>12 DEF retryVars, SuccessIsTimely, NoEarlySurrender
<1> QED
  BY <1>1, <1>2, <1>3, <1>4, <1>5, <1>6, <1>7, <1>8, <1>9, <1>10, <1>11, <1>12
  DEF RetryNext, Loop

LEMMA RetryInvariance == RetrySpec => []RetryInv
<1> QED
  BY RetryInitInv, RetryNextInv, PTL DEF RetrySpec

\* The caller is told of a success exactly when the last attempt ended well in time.
THEOREM SuccessTold == RetrySpec => []SuccessIsTimely
<1>1. RetryInv => SuccessIsTimely
  BY DEF RetryInv, Settled
<1> QED
  BY <1>1, RetryInvariance, PTL

\* No retry is saved while the caller still waits.
THEOREM AllRetriesUsed == RetrySpec => []NoEarlySurrender
<1>1. RetryInv => NoEarlySurrender
  BY DEF RetryInv, Settled
<1> QED
  BY <1>1, RetryInvariance, PTL

\* A power of two is the number of the sets of so many things.
LEMMA PowerOfTwo == ASSUME NEW n \in Nat PROVE 2 ^ n \in Nat \ {0}
<1>1. IsFiniteSet(1..n) /\ Cardinality(1..n) = n
  BY FS_Interval
<1>2. Cardinality(SUBSET (1..n)) = 2 ^ n /\ IsFiniteSet(SUBSET (1..n))
  BY <1>1, FS_SUBSET
<1>3. Cardinality(SUBSET (1..n)) \in Nat
  BY <1>2, FS_CardinalityType
<1>4. Cardinality(SUBSET (1..n)) # 0
  <2>1. SUBSET (1..n) # {}
    OBVIOUS
  <2> QED
    BY <1>2, <2>1, FS_EmptySet
<1> QED
  BY <1>2, <1>3, <1>4

LEMMA Product == ASSUME NEW a \in Nat, NEW b \in Nat \ {0} PROVE a * b \in Nat /\ a * b >= a
OBVIOUS

LEMMA DoubledUp ==
    ASSUME config.MinInterval \in Nat, retries \in Nat
    PROVE  Doubled(retries) \in Nat /\ Doubled(retries) >= config.MinInterval
BY PowerOfTwo, Product DEF Doubled

LEMMA DoubledKept ==
    ASSUME UNCHANGED <<config, retries>> PROVE Doubled(retries)' = Doubled(retries)
BY DEF Doubled

LEMMA MinOfTwo == ASSUME NEW a \in Int, NEW b \in Int
                  PROVE  Min({a, b}) = IF a <= b THEN a ELSE b
BY DEF Min

WaitTypeOK ==
    /\ config.MinInterval \in Nat /\ config.MaxInterval \in Nat /\ config.MaxJitter \in Nat
    /\ retries \in Nat

Waiting == WaitTypeOK /\ WaitsInRange

LEMMA WaitInit == RetryInit => Waiting
<1> SUFFICES ASSUME RetryInit PROVE Waiting
  OBVIOUS
<1>1. config.MinInterval \in Nat /\ config.MaxInterval \in Nat /\ config.MaxJitter \in Nat
  BY RetryAssumption DEF RetryInit, DefaultConfig
<1> QED
  BY <1>1 DEF RetryInit, Waiting, WaitTypeOK, WaitsInRange

\* What calculateBackoff makes of a doubled interval, when neither it nor the sum leaves
\* the range.
Sums(doubled, most, extra) ==
    {Wrap(Min({base, most}) + jitter) :
        base \in Convert(doubled), jitter \in {j \in 0..extra : j = 0 \/ j < extra}}

LEMMA BackoffInRange ==
    ASSUME NEW least \in Nat, NEW most \in Nat, NEW extra \in Nat, NEW doubled \in Nat,
           least <= doubled, doubled <= MaxInt, most + extra <= MaxInt,
           NEW d \in Sums(doubled, most, extra)
    PROVE  /\ d >= Min({least, most})
           /\ d < most + extra \/ d = most
<1>1. Convert(doubled) = {doubled}
  BY DEF Convert
<1>2. PICK jitter \in 0..extra : d = Wrap(Min({doubled, most}) + jitter) /\ (jitter = 0 \/ jitter < extra)
  BY <1>1 DEF Sums
<1>3. Min({doubled, most}) = IF doubled <= most THEN doubled ELSE most
  BY MinOfTwo
<1>4. Min({least, most}) = IF least <= most THEN least ELSE most
  BY MinOfTwo
<1>5. d = Min({doubled, most}) + jitter
  BY <1>2, <1>3, RetryAssumption DEF Wrap
<1> QED
  BY <1>2, <1>3, <1>4, <1>5

LEMMA WaitNext == Waiting /\ [RetryNext]_retryVars => Waiting'
<1> SUFFICES ASSUME Waiting, [RetryNext]_retryVars PROVE Waiting'
  OBVIOUS
<1>1. CASE Backoff
  <2>1. UNCHANGED <<config, retries>> /\ interval' \in calculateBackoff(retries)
    BY <1>1 DEF Backoff
  <2>2. \A d \in calculateBackoff(retries) :
           Doubled(retries) <= MaxInt /\ config.MaxInterval + config.MaxJitter <= MaxInt =>
              /\ d >= Min({config.MinInterval, config.MaxInterval})
              /\ d < config.MaxInterval + config.MaxJitter \/ d = config.MaxInterval
    <3>1. PICK least, most, extra, doubled : /\ least = config.MinInterval /\ most = config.MaxInterval
                                             /\ extra = config.MaxJitter /\ doubled = Doubled(retries)
      OBVIOUS
    <3>2. least \in Nat /\ most \in Nat /\ extra \in Nat /\ doubled \in Nat /\ least <= doubled
      BY <3>1, DoubledUp DEF Waiting, WaitTypeOK
    <3>3. calculateBackoff(retries) = Sums(doubled, most, extra)
      BY <3>1 DEF calculateBackoff, Sums
    <3>4. doubled <= MaxInt /\ most + extra <= MaxInt => \A d \in Sums(doubled, most, extra) :
             d >= Min({least, most}) /\ (d < most + extra \/ d = most)
      BY <3>2, BackoffInRange
    <3> QED
      BY <3>1, <3>3, <3>4
  <2> QED
    BY <2>1, <2>2, DoubledKept DEF Waiting, WaitTypeOK, WaitsInRange
<1>2. CASE TryAgain
  <2>1. UNCHANGED config /\ retries' = retries + 1 /\ stage' = "loop"
    BY <1>2 DEF TryAgain, Goto
  <2> QED
    BY <2>1 DEF Waiting, WaitTypeOK, WaitsInRange
<1>3. CASE Attempt \/ NoAttempt \/ FnReturns \/ CheckDeadline \/ Return \/ GiveUp
  <2>1. UNCHANGED <<config, retries>> /\ stage' # "wait"
    BY <1>3 DEF Attempt, NoAttempt, FnReturns, CheckDeadline, Return, GiveUp, Goto
  <2> QED
    BY <2>1 DEF Waiting, WaitTypeOK, WaitsInRange
<1>4. CASE Deadline \/ Fire \/ Cancel \/ UNCHANGED retryVars
  <2>1. UNCHANGED <<config, retries, stage, interval>>
    BY <1>4 DEF Deadline, Fire, Cancel, retryVars
  <2> QED
    BY <2>1, DoubledKept DEF Waiting, WaitTypeOK, WaitsInRange
<1> QED
  BY <1>1, <1>2, <1>3, <1>4 DEF RetryNext, Loop

\* However late the attempt, the wait before the next is neither too short nor too long.
THEOREM WaitsBounded == RetrySpec => []WaitsInRange
<1>1. Waiting => WaitsInRange
  BY DEF Waiting
<1> QED
  BY <1>1, WaitInit, WaitNext, PTL DEF RetrySpec

-------------------------------------------------------------------------------
(* Numbers in order *)

\* A set of numbers has a least one.
LEMMA HasLeast ==
    ASSUME NEW S, S \subseteq Nat, S # {}
    PROVE  \E x \in S : \A y \in S : x <= y
<1>1. PICK top \in S : TRUE
  OBVIOUS
<1> DEFINE R == StrictSubsetOrdering(0..top)
           T == {0..y : y \in {z \in S : z <= top}}
<1>2. IsWellFoundedOn(R, SUBSET (0..top))
  <2>1. IsFiniteSet(0..top)
    BY FS_Interval
  <2> QED
    BY <2>1, FS_FiniteSubsetsOfFinite, FS_StrictSubsetOrderingWellFounded
<1>3. T \subseteq SUBSET (0..top) /\ 0..top \in T
  BY <1>1
<1> HIDE DEF R, T
<1>4. PICK s \in T : \A t \in T : <<t, s>> \notin R
  BY <1>2, <1>3, WFMin
<1>5. PICK x \in S : x <= top /\ s = 0..x
  BY <1>4 DEF T
<1>6. ASSUME NEW y \in S PROVE x <= y
  <2> SUFFICES ASSUME y < x PROVE FALSE
    OBVIOUS
  <2>1. y <= top /\ 0..y \in T
    BY <1>5 DEF T
  <2>2. 0..y \subseteq 0..x /\ 0..y # 0..x
    BY <1>5
  <2>3. 0..y \in SUBSET (0..top) /\ 0..x \in SUBSET (0..top)
    BY <1>3, <1>4, <1>5, <2>1
  <2> QED
    BY <1>4, <1>5, <2>1, <2>2, <2>3 DEF R, StrictSubsetOrdering
<1> QED
  BY <1>6

\* A finite set of numbers can be put in order.
Ordered(S, s) == s \in [1..Cardinality(S) -> S] /\ Range(s) = S
                 /\ \A i, j \in DOMAIN s : i < j => s[i] < s[j]

LEMMA LeastFirst ==
    ASSUME NEW S, S \subseteq Nat, IsFiniteSet(S), NEW a \in S, \A y \in S : a <= y,
           NEW t, Ordered(S \ {a}, t)
    PROVE  \E s : Ordered(S, s)
<1> DEFINE n == Cardinality(S)
<1>1. n \in Nat /\ n > 0 /\ Cardinality(S \ {a}) = n - 1
  <2>1. n \in Nat
    BY FS_CardinalityType
  <2>2. n # 0
    BY FS_EmptySet
  <2>3. Cardinality(S \ {a}) = n - 1
    BY FS_RemoveElement
  <2> QED
    BY <2>1, <2>2, <2>3
<1> HIDE DEF n
<1>2. t \in [1..(n - 1) -> S \ {a}] /\ DOMAIN t = 1..(n - 1)
  BY <1>1 DEF Ordered
<1> DEFINE s == [i \in 1..n |-> IF i = 1 THEN a ELSE t[i - 1]]
<1>3. s \in [1..n -> S] /\ DOMAIN s = 1..n
  BY <1>1, <1>2
<1>4. ASSUME NEW x \in S PROVE \E i \in 1..n : s[i] = x
  <2>1. CASE x = a
    BY <2>1, <1>1
  <2>2. CASE x # a
    <3>1. PICK i \in 1..(n - 1) : t[i] = x
      BY <2>2, <1>2 DEF Ordered, Range
    <3>2. i + 1 \in 1..n /\ s[i + 1] = x
      BY <3>1, <1>1
    <3> QED
      BY <3>2
  <2> QED
    BY <2>1, <2>2
<1>5. Range(s) = S
  <2> HIDE DEF s
  <2> QED
    BY <1>3, <1>4 DEF Range
<1>6. ASSUME NEW i \in 1..n, NEW j \in 1..n, i < j PROVE s[i] < s[j]
  <2>1. j - 1 \in 1..(n - 1) /\ s[j] = t[j - 1] /\ s[j] \in S \ {a}
    BY <1>1, <1>2, <1>6
  <2>2. CASE i = 1
    <3>1. s[i] = a
      BY <2>2
    <3> HIDE DEF s
    <3>2. s[j] \in Nat /\ a \in Nat /\ a <= s[j] /\ s[j] # a
      BY <2>1
    <3> QED
      BY <3>1, <3>2
  <2>3. CASE i # 1
    <3>1. i - 1 \in 1..(n - 1) /\ s[i] = t[i - 1] /\ i - 1 < j - 1
      BY <2>3, <1>1, <1>6
    <3> QED
      BY <3>1, <2>1, <1>2 DEF Ordered
  <2> QED
    BY <2>2, <2>3
<1> HIDE DEF s
<1>7. Ordered(S, s)
  BY <1>3, <1>5, <1>6 DEF Ordered, n
<1> QED
  BY <1>7

LEMMA Orderable ==
    ASSUME NEW S, S \subseteq Nat, IsFiniteSet(S)
    PROVE  Ordered(S, InOrder(S))
<1>1. \E s : Ordered(S, s)
  <2> SUFFICES ASSUME ~ \E s : Ordered(S, s) PROVE FALSE
    OBVIOUS
  <2> DEFINE U == {T \in FiniteSubsetsOf(Nat) : ~ \E s : Ordered(T, s)}
             R == StrictSubsetOrdering(Nat)
  <2>1. S \in U
    BY DEF FiniteSubsetsOf
  <2>2. IsWellFoundedOn(R, FiniteSubsetsOf(Nat))
    BY FS_StrictSubsetOrderingWellFounded
  <2> HIDE DEF R
  <2>3. PICK T \in U : \A V \in U : <<V, T>> \notin R
    <3>1. U \subseteq FiniteSubsetsOf(Nat)
      OBVIOUS
    <3> HIDE DEF U
    <3> QED
      BY <3>1, <2>1, <2>2, WFMin
  <2>4. T \subseteq Nat /\ IsFiniteSet(T) /\ ~ \E s : Ordered(T, s)
    BY DEF FiniteSubsetsOf
  <2>5. CASE T = {}
    <3>1. Cardinality(T) = 0
      BY <2>5, FS_EmptySet
    <3>2. Ordered(T, <<>>)
      BY <2>5, <3>1 DEF Ordered, Range
    <3> QED
      BY <2>4, <3>2
  <2>6. CASE T # {}
    <3>1. PICK a \in T : \A y \in T : a <= y
      BY <2>4, <2>6, HasLeast
    <3>2. <<T \ {a}, T>> \in R
      BY <2>4 DEF R, StrictSubsetOrdering
    <3>3. IsFiniteSet(T \ {a})
      BY <2>4, FS_RemoveElement
    <3>4. PICK t : Ordered(T \ {a}, t)
      BY <2>3, <2>4, <3>2, <3>3 DEF FiniteSubsetsOf
    <3> QED
      BY <2>4, <3>1, <3>4, LeastFirst
  <2> QED
    BY <2>5, <2>6
<1>2. \E s \in [1..Cardinality(S) -> S] :
        Range(s) = S /\ \A i, j \in DOMAIN s : i < j => s[i] < s[j]
  BY <1>1 DEF Ordered
<1> QED
  BY <1>2 DEF InOrder, Ordered

-------------------------------------------------------------------------------
(* The list of instances *)

Instance == [address : Addresses, status : {"active", "unhealthy"}]
Places == {"idle", "select", "store", "add"}

BalancerTypeOK ==
    /\ registered \subseteq Addresses
    /\ reply = None \/ reply \subseteq Addresses
    /\ instances \in Seq(Instance)
    /\ pc \in [Callers -> Places] /\ healthy \in [Callers -> Seq(Addresses)]

\* A call keeps the list it read for as long as it has the lock, and no longer.
Choosing ==
    /\ \A c \in Callers : pc[c] # "idle" => healthy[c] = Healthy
    /\ \A c \in Callers : pc[c] = "idle" => healthy[c] = <<>>

\* What failed its last check is listed, and not as active.
Failing ==
    /\ failed \subseteq {instances[i].address : i \in DOMAIN instances}
    /\ \A i \in DOMAIN instances :
          instances[i].status = "active" => instances[i].address \notin failed

ListInv == BalancerTypeOK /\ Choosing /\ Failing

ActivePlaces == {i \in DOMAIN instances : Active(instances[i])}

LEMMA ActiveInOrder ==
    ASSUME instances \in Seq(Instance)
    PROVE  /\ Ordered(ActivePlaces, InOrder(ActivePlaces))
           /\ ActivePlaces \subseteq DOMAIN instances /\ Cardinality(ActivePlaces) \in Nat
<1>1. DOMAIN instances = 1..Len(instances) /\ Len(instances) \in Nat
  OBVIOUS
<1>2. ActivePlaces \subseteq Nat /\ ActivePlaces \subseteq 1..Len(instances)
  BY <1>1 DEF ActivePlaces
<1>3. IsFiniteSet(ActivePlaces)
  <2>1. IsFiniteSet(1..Len(instances))
    BY <1>1, FS_Interval
  <2> QED
    BY <1>2, <2>1, FS_Subset
<1> QED
  BY <1>1, <1>2, <1>3, Orderable, FS_CardinalityType

LEMMA HealthyType ==
    ASSUME instances \in Seq(Instance)
    PROVE  /\ Healthy \in Seq(Addresses)
           /\ \A n \in DOMAIN Healthy : \E i \in ActivePlaces : Healthy[n] = instances[i].address
<1> DEFINE places == InOrder(ActivePlaces)
           m == Cardinality(ActivePlaces)
<1>1. Healthy = [n \in DOMAIN places |-> instances[places[n]].address]
  BY DEF Healthy, ActivePlaces
<1>2. places \in [1..m -> ActivePlaces] /\ DOMAIN places = 1..m
  BY ActiveInOrder DEF Ordered
<1>3. m \in Nat
  BY ActiveInOrder
<1>4. \A i \in ActivePlaces : instances[i].address \in Addresses
  <2>1. \A i \in DOMAIN instances : instances[i] \in Instance
    OBVIOUS
  <2> QED
    BY <2>1, ActiveInOrder DEF Instance
<1> HIDE DEF places, m
<1> QED
  BY <1>1, <1>2, <1>3, <1>4

\* The list l has an instance for every address of S, and no other, with its status.
Lists(l, S, status) ==
    /\ l \in Seq([address : S, status : {status[a] : a \in S}])
    /\ \A i \in DOMAIN l : l[i].status = status[l[i].address]
    /\ \A a \in S : \E i \in DOMAIN l : l[i].address = a

LEMMA ListedInOrder ==
    ASSUME NEW S, S \subseteq Addresses, NEW status, DOMAIN status = S
    PROVE  Lists(Listing(status), S, status)
<1> DEFINE s == InOrder(S)
           m == Cardinality(S)
<1>1. IsFiniteSet(S) /\ S \subseteq Nat
  BY FS_Subset, LoadBalancerAssumption
<1>2. s \in [1..m -> S] /\ DOMAIN s = 1..m /\ \A a \in S : \E i \in 1..m : s[i] = a
  <2>1. s \in [1..m -> S] /\ Range(s) = S
    BY <1>1, Orderable DEF Ordered
  <2> HIDE DEF s, m
  <2> QED
    BY <2>1 DEF Range
<1>3. m \in Nat
  BY <1>1, FS_CardinalityType
<1>4. Listing(status) = [i \in DOMAIN s |-> [address |-> s[i], status |-> status[s[i]]]]
  BY DEF Listing
<1> HIDE DEF s, m
<1> DEFINE l == Listing(status)
<1>5. DOMAIN l = 1..m /\ \A i \in 1..m : l[i] = [address |-> s[i], status |-> status[s[i]]]
  BY <1>2, <1>4
<1>6. \A i \in 1..m : l[i] \in [address : S, status : {status[a] : a \in S}]
  BY <1>2, <1>5
<1>7. l \in Seq([address : S, status : {status[a] : a \in S}])
  <2> DEFINE X == [address : S, status : {status[a] : a \in S}]
  <2>1. l = [i \in 1..m |-> [address |-> s[i], status |-> status[s[i]]]]
    BY <1>2, <1>4
  <2>2. \A i \in 1..m : [address |-> s[i], status |-> status[s[i]]] \in X
    BY <1>2
  <2> HIDE DEF X, l
  <2>3. l \in [1..m -> X]
    BY <2>1, <2>2
  <2>4. l \in Seq(X)
    BY <1>3, <2>3
  <2> QED
    BY <2>4 DEF X
<1> HIDE DEF l
<1>8. \A i \in 1..m : l[i].status = status[l[i].address]
  BY <1>5
<1>9. \A a \in S : \E i \in 1..m : l[i].address = a
  BY <1>2, <1>5
<1> QED
  BY <1>5, <1>7, <1>8, <1>9 DEF l, Lists

LEMMA ListInit == Init => ListInv
<1> SUFFICES ASSUME Init PROVE ListInv
  OBVIOUS
<1> QED
  BY DEF Init, ListInv, BalancerTypeOK, Places, Choosing, Failing

\* The calls change nothing that the list depends on.
LEMMA CallersKeepList ==
    ASSUME ListInv, UNCHANGED <<instances, registered, reply, failed>>,
           pc' \in [Callers -> Places],
           healthy' \in [Callers -> Seq(Addresses)],
           \A c \in Callers : \/ pc'[c] # "idle" /\ healthy'[c] = Healthy
                              \/ pc'[c] = "idle" /\ healthy'[c] = <<>>
    PROVE  ListInv'
<1>1. Healthy' = Healthy
  BY DEF Healthy, Active
<1> QED
  BY <1>1 DEF ListInv, BalancerTypeOK, Choosing, Failing

LEMMA ReleaseKeepsList ==
    ASSUME ListInv, UNCHANGED <<instances, registered, reply, failed>>, NEW c \in Callers, Release(c)
    PROVE  ListInv'
<1>1. pc' \in [Callers -> Places] /\ healthy' \in [Callers -> Seq(Addresses)]
  BY DEF ListInv, BalancerTypeOK, Places, Release
<1>2. \A d \in Callers : \/ pc'[d] # "idle" /\ healthy'[d] = Healthy
                         \/ pc'[d] = "idle" /\ healthy'[d] = <<>>
  BY DEF ListInv, BalancerTypeOK, Choosing, Release
<1> QED
  BY <1>1, <1>2, CallersKeepList

LEMMA CallKeepsList == ASSUME ListInv, NEW c \in Callers, Call(c) PROVE ListInv'
<1>1. pc' \in [Callers -> Places]
  BY DEF ListInv, BalancerTypeOK, Places, Call
<1>2. healthy' \in [Callers -> Seq(Addresses)]
  BY HealthyType DEF ListInv, BalancerTypeOK, Call
<1>3. \A d \in Callers : \/ pc'[d] # "idle" /\ healthy'[d] = Healthy
                         \/ pc'[d] = "idle" /\ healthy'[d] = <<>>
  BY DEF ListInv, BalancerTypeOK, Choosing, Call
<1>4. UNCHANGED <<instances, registered, reply, failed>>
  BY DEF Call, service
<1> QED
  BY <1>1, <1>2, <1>3, <1>4, CallersKeepList

LEMMA FindKeepsList == ASSUME ListInv, NEW c \in Callers, FindIndex(c) \/ StoreIndex(c) PROVE ListInv'
<1>1. UNCHANGED <<instances, registered, reply, failed, healthy>> /\ pc[c] # "idle"
  BY DEF FindIndex, StoreIndex, service
<1>2. pc' \in [Callers -> Places] /\ \A d \in Callers : pc'[d] = "idle" <=> pc[d] = "idle"
  BY DEF ListInv, BalancerTypeOK, Places, FindIndex, StoreIndex
<1>3. \A d \in Callers : \/ pc'[d] # "idle" /\ healthy'[d] = Healthy
                         \/ pc'[d] = "idle" /\ healthy'[d] = <<>>
  BY <1>1, <1>2 DEF ListInv, Choosing
<1> QED
  BY <1>1, <1>2, <1>3, CallersKeepList DEF ListInv, BalancerTypeOK

\* A refresh keeps what is known of the addresses that stay, and lists the others as
\* active: none of those has failed.
LEMMA RebuildKeepsList == ASSUME ListInv, Rebuild PROVE ListInv'
<1> DEFINE status == [a \in reply |-> StatusOf(a)]
           l == Listing(status)
<1>1. reply \subseteq Addresses /\ Locked /\ UNCHANGED <<registered, pc, healthy>> /\ reply' = None
      /\ instances' = l /\ failed' = failed \cap reply
  BY DEF Rebuild, ListInv, BalancerTypeOK, callers
<1>2. ASSUME NEW a \in reply PROVE status[a] \in {"active", "unhealthy"}
                                 /\ (status[a] = "active" => a \notin failed)
  <2> DEFINE places == {i \in DOMAIN instances : instances[i].address = a}
  <2>1. CASE places = {}
    BY <2>1 DEF StatusOf, ListInv, Failing
  <2>2. CASE places # {}
    <3>1. PICK i \in places : status[a] = instances[i].status
      BY <2>2 DEF StatusOf
    <3>2. instances[i] \in Instance /\ instances[i].address = a
      BY <3>1 DEF ListInv, BalancerTypeOK
    <3> QED
      BY <3>1, <3>2 DEF ListInv, Failing, Instance
  <2> QED
    BY <2>1, <2>2
<1>3. /\ l \in Seq([address : reply, status : {status[a] : a \in reply}])
      /\ \A i \in DOMAIN l : l[i].status = status[l[i].address]
      /\ \A a \in reply : \E i \in DOMAIN l : l[i].address = a
  <2>1. DOMAIN status = reply
    OBVIOUS
  <2> HIDE DEF status
  <2>2. Lists(l, reply, status)
    BY <1>1, <2>1, ListedInOrder DEF l
  <2> HIDE DEF l
  <2> QED
    BY <2>2 DEF Lists
<1> HIDE DEF status, l
<1>4. instances' \in Seq(Instance)
  <2> DEFINE X == [address : reply, status : {status[a] : a \in reply}]
  <2>1. X \subseteq Instance
    BY <1>1, <1>2 DEF Instance
  <2>2. l \in Seq(X)
    BY <1>3
  <2> HIDE DEF X
  <2> QED
    BY <1>1, <2>1, <2>2
<1>5. BalancerTypeOK'
  BY <1>1, <1>4 DEF ListInv, BalancerTypeOK
<1>6. Choosing'
  BY <1>1 DEF ListInv, Choosing, Locked, Readers
<1>7. Failing'
  <2> DEFINE X == [address : reply, status : {status[a] : a \in reply}]
  <2>1. l \in Seq(X)
    BY <1>3
  <2>2. \A x \in X : x.address \in reply
    OBVIOUS
  <2> HIDE DEF X
  <2>3. \A i \in DOMAIN l : l[i].address \in reply
    BY <2>1, <2>2
  <2> QED
    BY <1>1, <1>2, <1>3, <2>3 DEF Failing
<1> QED
  BY <1>5, <1>6, <1>7 DEF ListInv

LEMMA HealthCheckKeepsList == ASSUME ListInv, HealthCheck PROVE ListInv'
<1>1. PICK up \in SUBSET Plain :
         /\ instances' = [i \in DOMAIN instances |-> [instances[i] EXCEPT !.status =
                             IF instances[i].address \in up THEN "active" ELSE "unhealthy"]]
         /\ failed' = Range(AddressesOf(instances)) \ up
  BY DEF HealthCheck
<1>2. Locked /\ UNCHANGED <<registered, reply, pc, healthy>>
  BY DEF HealthCheck, callers
<1>3. \A i \in DOMAIN instances : instances[i] \in Instance
  BY DEF ListInv, BalancerTypeOK
<1>4. DOMAIN instances' = DOMAIN instances /\ \A i \in DOMAIN instances :
         /\ instances'[i] \in Instance /\ instances'[i].address = instances[i].address
         /\ instances'[i].status = "active" => instances[i].address \in up
  BY <1>1, <1>3 DEF Instance
<1>5. instances' \in Seq(Instance)
  <2>1. DOMAIN instances = 1..Len(instances) /\ Len(instances) \in Nat
    BY DEF ListInv, BalancerTypeOK
  <2>2. instances' \in [1..Len(instances) -> Instance]
    BY <1>1, <1>4, <2>1
  <2> QED
    BY <2>1, <2>2
<1>6. BalancerTypeOK'
  BY <1>2, <1>5 DEF ListInv, BalancerTypeOK
<1>7. Choosing'
  BY <1>2 DEF ListInv, Choosing, Locked, Readers
<1>8. Failing'
  <2>1. Range(AddressesOf(instances)) = {instances[i].address : i \in DOMAIN instances}
    BY DEF Range, AddressesOf
  <2> QED
    BY <1>1, <1>4, <2>1 DEF Failing
<1> QED
  BY <1>6, <1>7, <1>8 DEF ListInv

LEMMA ListNext == ASSUME ListInv, [Next]_vars PROVE ListInv'
<1>1. ASSUME NEW c \in Callers, Call(c) PROVE ListInv'
  BY <1>1, CallKeepsList
<1>2. ASSUME NEW c \in Callers, Serve(c) PROVE ListInv'
  <2>1. CASE FindIndex(c) \/ StoreIndex(c)
    BY <2>1, FindKeepsList
  <2>2. CASE RandomSelect(c) \/ LeastConnectionsSelect(c) \/ NoTurns(c) \/ Rotate(c)
    <3>1. Release(c)
      BY <2>2 DEF RandomSelect, LeastConnectionsSelect, NoTurns, Rotate
    <3>2. UNCHANGED <<instances, registered, reply, failed>>
      BY <2>2 DEF RandomSelect, LeastConnectionsSelect, NoTurns, Rotate, service
    <3> QED
      BY <3>1, <3>2, ReleaseKeepsList
  <2> QED
    BY <1>2, <2>1, <2>2 DEF Serve
<1>3. CASE Throw \/ Get \/ (\E a \in Addresses : Change(a)) \/ UNCHANGED vars
  <2>1. UNCHANGED <<instances, pc, healthy, failed>>
    BY <1>3 DEF Throw, Get, Change, vars, service, callers
  <2>2. registered' \subseteq Addresses /\ (reply' = None \/ reply' \subseteq Addresses)
    BY <1>3 DEF Throw, Get, Change, vars, service, ListInv, BalancerTypeOK
  <2>3. Healthy' = Healthy
    BY <2>1 DEF Healthy, Active
  <2> QED
    BY <2>1, <2>2, <2>3 DEF ListInv, BalancerTypeOK, Choosing, Failing
<1>4. CASE Rebuild
  BY <1>4, RebuildKeepsList
<1>5. CASE HealthCheck
  BY <1>5, HealthCheckKeepsList
<1> QED
  BY <1>1, <1>2, <1>3, <1>4, <1>5 DEF Next, Live

LEMMA ListInvariance == Spec => []ListInv
<1> QED
  BY ListInit, ListNext, PTL DEF Spec

\* The instance a call chooses is listed and healthy when the call returns.
THEOREM ChoiceIsListed == Spec => []ChoosesFromTheList
<1>1. ListInv => ChoosesFromTheList
  BY DEF ListInv, Choosing, ChoosesFromTheList, Readers
<1> QED
  BY <1>1, ListInvariance, PTL

\* No call is given an instance whose last health check failed.
THEOREM FailedAreLeftOut == Spec => []NoFailedInstance
<1>1. ListInv => NoFailedInstance
  <2> SUFFICES ASSUME ListInv, NEW c \in Callers, NEW a \in Range(healthy[c]) PROVE a \notin failed
    BY DEF NoFailedInstance
  <2>1. PICK n \in DOMAIN healthy[c] : healthy[c][n] = a
    BY DEF Range
  <2>2. pc[c] # "idle" /\ healthy[c] = Healthy
    BY <2>1 DEF ListInv, Choosing
  <2>3. PICK i \in ActivePlaces : a = instances[i].address
    BY <2>1, <2>2, HealthyType DEF ListInv, BalancerTypeOK
  <2> QED
    BY <2>3 DEF ActivePlaces, Active, ListInv, Failing
<1> QED
  BY <1>1, ListInvariance, PTL

-------------------------------------------------------------------------------
(* The round-robin indexes *)

IsList(k) == \E n \in Nat \ {0} : DOMAIN k = 1..n /\ Len(k) = n

LEMMA TurnsIsList ==
    ASSUME BalancerTypeOK, NEW c \in Callers, Turns(c) # <<>>
    PROVE  IsList(Turns(c))
<1>1. healthy[c] \in Seq(Addresses)
  BY DEF BalancerTypeOK
<1>2. CASE balanceType # "weighted-round-robin"
  <2>1. Turns(c) = healthy[c]
    BY <1>2 DEF Turns
  <2>2. Len(healthy[c]) \in Nat \ {0} /\ DOMAIN healthy[c] = 1..Len(healthy[c])
    BY <1>1, <2>1
  <2> QED
    BY <2>1, <2>2 DEF IsList
<1>3. CASE balanceType = "weighted-round-robin"
  <2> DEFINE s == healthy[c]
             n == Cardinality(Copies(s, Len(s)))
             e(m) == s[CHOOSE i \in DOMAIN s : Cardinality(Copies(s, i - 1)) < m
                                                /\ m <= Cardinality(Copies(s, i))]
  <2>1. Turns(c) = [m \in 1..n |-> e(m)]
    BY <1>3 DEF Turns, Weighted
  <2>2. IsFiniteSet(Copies(s, Len(s)))
    <3> DEFINE Of(i) == {i} \X (1..Weight[s[i]])
               P == {Of(i) : i \in 1..Len(s)}
    <3>1. Len(s) \in Nat /\ \A i \in 1..Len(s) : s[i] \in Addresses
      BY <1>1
    <3>2. \A i \in 1..Len(s) : IsFiniteSet(Of(i))
      <4> SUFFICES ASSUME NEW i \in 1..Len(s) PROVE IsFiniteSet(Of(i))
        OBVIOUS
      <4>1. Weight[s[i]] \in Int
        BY <3>1, LoadBalancerAssumption
      <4> DEFINE w == Weight[s[i]]
      <4> HIDE DEF w
      <4>2. IsFiniteSet(1..w)
        BY <4>1, FS_Interval DEF w
      <4>3. IsFiniteSet({i})
        BY FS_Singleton
      <4>4. IsFiniteSet({i} \X (1..w))
        BY <4>2, <4>3, FS_Product
      <4> QED
        BY <4>4 DEF w
    <3>3. IsFiniteSet(1..Len(s))
      BY <3>1, FS_Interval
    <3> HIDE DEF Of, s
    <3>4. IsFiniteSet(P)
      <4> DEFINE f == [i \in 1..Len(s) |-> Of(i)]
      <4>1. f \in Surjection(1..Len(s), P)
        BY DEF Surjection
      <4> HIDE DEF f, P
      <4> QED
        BY <3>3, <4>1, FS_Surjection
    <3>5. \A T \in P : IsFiniteSet(T)
      BY <3>2
    <3>6. Copies(s, Len(s)) = UNION P
      BY DEF Copies, Of
    <3> HIDE DEF P
    <3> QED
      BY <3>4, <3>5, <3>6, FS_UNION
  <2>3. n \in Nat
    BY <2>2, FS_CardinalityType
  <2> DEFINE X == {e(m) : m \in 1..n}
  <2> HIDE DEF n, e
  <2>4. Turns(c) \in [1..n -> X]
    BY <2>1
  <2> HIDE DEF X
  <2>5. Turns(c) \in Seq(X)
    BY <2>3, <2>4
  <2>6. Len(Turns(c)) \in Nat \ {0} /\ DOMAIN Turns(c) = 1..Len(Turns(c))
    BY <2>5
  <2> QED
    BY <2>6 DEF IsList
<1> QED
  BY <1>2, <1>3

-------------------------------------------------------------------------------
\* Every index that something refers to counts: no more than the calls that are over.
Counting ==
    /\ held \in [Callers -> Counters \cup {None}]
    /\ index \in [Counters -> Int \cup {None}]
    /\ \A k \in DOMAIN indexMap : IsList(k) /\ indexMap[k] \in Counters /\ index[indexMap[k]] # None
    /\ \A c \in Callers : pc[c] = "add" => held[c] \in Counters /\ index[held[c]] # None
    /\ \A c \in Callers : pc[c] \in {"store", "add"} => Turns(c) # <<>> /\ Rotates
    /\ calls \in Nat

Unwrapped ==
    /\ Cardinality(Readers) <= calls
    /\ calls <= MaxInt32 => ~panicked /\ \A x \in Counters : index[x] # None =>
          index[x] >= 0 /\ index[x] + Cardinality(Readers) <= calls

CountInv == Counting /\ Unwrapped

LEMMA CountInit == Init => CountInv
<1> SUFFICES ASSUME Init PROVE CountInv
  OBVIOUS
<1>1. Readers = {}
  BY DEF Init, Readers
<1>2. Cardinality(Readers) = 0
  BY <1>1, FS_EmptySet
<1> QED
  BY <1>2 DEF Init, CountInv, Counting, Unwrapped

LEMMA ReadersFinite == IsFiniteSet(Readers) /\ Cardinality(Readers) \in Nat
BY FS_Subset, FS_CardinalityType, LoadBalancerAssumption DEF Readers

\* Of a caller that returns the count of the readers is one less.
LEMMA Leaves ==
    ASSUME BalancerTypeOK, Counting, NEW c \in Callers, pc[c] # "idle", Release(c)
    PROVE  /\ Cardinality(Readers') = Cardinality(Readers) - 1
           /\ held' \in [Callers -> Counters \cup {None}]
           /\ \A d \in Callers : pc'[d] # "idle" => d # c /\ pc'[d] = pc[d]
                                     /\ healthy'[d] = healthy[d] /\ held'[d] = held[d]
<1>1. Readers' = Readers \ {c} /\ c \in Readers
  BY DEF BalancerTypeOK, Readers, Release
<1>2. Cardinality(Readers') = Cardinality(Readers) - 1
  BY <1>1, ReadersFinite, FS_RemoveElement
<1> QED
  BY <1>2 DEF BalancerTypeOK, Counting, Release

LEMMA TurnsKept ==
    ASSUME NEW c, UNCHANGED balanceType, healthy'[c] = healthy[c]
    PROVE  Turns(c)' = Turns(c) /\ Rotates' = Rotates
BY DEF Turns, Rotates

\* A call that returns without an index.
LEMMA ReleaseCounts ==
    ASSUME BalancerTypeOK, CountInv, NEW c \in Callers, pc[c] # "idle", Release(c),
           UNCHANGED <<balanceType, indexMap, index, panicked, calls>>
    PROVE  CountInv'
<1>1. Counting'
  <2>1. \A d \in Callers : pc'[d] \in {"store", "add"} => Turns(d)' # <<>> /\ Rotates'
    BY Leaves, TurnsKept DEF CountInv, Counting
  <2> QED
    BY <2>1, Leaves DEF CountInv, Counting
<1>2. Unwrapped'
  BY Leaves, ReadersFinite DEF CountInv, Counting, Unwrapped
<1> QED
  BY <1>1, <1>2 DEF CountInv

LEMMA CallCounts == ASSUME BalancerTypeOK, CountInv, NEW c \in Callers, Call(c) PROVE CountInv'
<1>1. Readers' = Readers \cup {c} /\ c \notin Readers
  BY DEF BalancerTypeOK, Readers, Call
<1>2. Cardinality(Readers') = Cardinality(Readers) + 1
  BY <1>1, ReadersFinite, FS_AddElement
<1>3. UNCHANGED <<balanceType, indexMap, index, panicked, held>> /\ calls' = calls + 1
  BY DEF Call, service, indexes, history
<1>4. Counting'
  <2>1. \A d \in Callers : pc'[d] \in {"store", "add"} => pc'[d] = pc[d] /\ healthy'[d] = healthy[d]
    BY DEF BalancerTypeOK, Call
  <2>2. \A d \in Callers : pc'[d] \in {"store", "add"} => Turns(d)' # <<>> /\ Rotates'
    BY <1>3, <2>1, TurnsKept DEF CountInv, Counting
  <2> QED
    BY <1>3, <2>1, <2>2 DEF CountInv, Counting
<1>5. Unwrapped'
  BY <1>2, <1>3, ReadersFinite, LoadBalancerAssumption DEF CountInv, Counting, Unwrapped
<1> QED
  BY <1>4, <1>5 DEF CountInv

\* A caller finds the index of its list, and uses that one.
LEMMA FindCounts == ASSUME BalancerTypeOK, CountInv, NEW c \in Callers, FindIndex(c) PROVE CountInv'
<1>1. /\ UNCHANGED <<balanceType, indexMap, index, panicked, calls, healthy>>
      /\ pc[c] = "select" /\ Turns(c) # <<>> /\ Rotates
  BY DEF FindIndex, service, indexes, history, bounds
<1>2. Readers' = Readers
  BY <1>1 DEF BalancerTypeOK, Readers, FindIndex
<1>3. \A d \in Callers : Turns(d)' = Turns(d) /\ Rotates' = Rotates
  BY <1>1, TurnsKept
<1>4. \/ held' = [held EXCEPT ![c] = indexMap[Turns(c)]] /\ Turns(c) \in DOMAIN indexMap
         /\ pc' = [pc EXCEPT ![c] = "add"]
      \/ held' = held /\ pc' = [pc EXCEPT ![c] = "store"]
  BY DEF FindIndex
<1>5. Counting'
  <2>1. held' \in [Callers -> Counters \cup {None}]
    BY <1>4 DEF CountInv, Counting
  <2>2. \A d \in Callers : pc'[d] = "add" => held'[d] \in Counters /\ index[held'[d]] # None
    BY <1>4 DEF BalancerTypeOK, CountInv, Counting
  <2>3. \A d \in Callers : pc'[d] \in {"store", "add"} => Turns(d) # <<>> /\ Rotates
    BY <1>1, <1>4 DEF BalancerTypeOK, CountInv, Counting
  <2> QED
    BY <1>1, <1>3, <2>1, <2>2, <2>3 DEF CountInv, Counting
<1>6. Unwrapped'
  BY <1>1, <1>2 DEF CountInv, Unwrapped
<1> QED
  BY <1>5, <1>6 DEF CountInv

\* A new index has counted nothing.
LEMMA StoreCounts == ASSUME BalancerTypeOK, CountInv, NEW c \in Callers, StoreIndex(c) PROVE CountInv'
<1>1. PICK x \in Free :
        /\ index' = [index EXCEPT ![x] = 0]
        /\ indexMap' = Put(indexMap, Turns(c), x)
        /\ held' = [held EXCEPT ![c] = x]
  BY DEF StoreIndex
<1>2. /\ UNCHANGED <<balanceType, panicked, calls, healthy>>
      /\ pc[c] = "store" /\ pc' = [pc EXCEPT ![c] = "add"]
  BY DEF StoreIndex, service, history, bounds
<1>3. Readers' = Readers
  BY <1>2 DEF BalancerTypeOK, Readers
<1>4. \A d \in Callers : Turns(d)' = Turns(d) /\ Rotates' = Rotates
  BY <1>2, TurnsKept
<1>5. x \in Counters /\ IsList(Turns(c)) /\ Rotates
  BY <1>2, TurnsIsList DEF Free, CountInv, Counting
<1>6. \A y \in Counters : index'[y] = IF y = x THEN 0 ELSE index[y]
  BY <1>1 DEF CountInv, Counting
<1>7. Counting'
  <2>1. held' \in [Callers -> Counters \cup {None}] /\ index' \in [Counters -> Int \cup {None}]
    BY <1>1, <1>5 DEF CountInv, Counting
  <2>2. \A k \in DOMAIN indexMap' : IsList(k) /\ indexMap'[k] \in Counters /\ index'[indexMap'[k]] # None
    BY <1>1, <1>5, <1>6, LoadBalancerAssumption DEF CountInv, Counting, Put
  <2>3. \A d \in Callers : pc'[d] = "add" => held'[d] \in Counters /\ index'[held'[d]] # None
    BY <1>1, <1>2, <1>5, <1>6, LoadBalancerAssumption DEF BalancerTypeOK, CountInv, Counting
  <2>4. \A d \in Callers : pc'[d] \in {"store", "add"} => Turns(d) # <<>> /\ Rotates
    BY <1>2 DEF BalancerTypeOK, CountInv, Counting
  <2> QED
    BY <1>2, <1>4, <2>1, <2>2, <2>3, <2>4 DEF CountInv, Counting
<1>8. Unwrapped'
  BY <1>2, <1>3, <1>6, ReadersFinite DEF CountInv, Counting, Unwrapped
<1> QED
  BY <1>7, <1>8 DEF CountInv

\* The index of a caller that holds the lock is below the number of the calls.
LEMMA AddsOne ==
    ASSUME CountInv, NEW c \in Callers, pc[c] = "add", calls <= MaxInt32
    PROVE  index[held[c]] \in Nat /\ index[held[c]] < MaxInt32
           /\ Add(index[held[c]]) = index[held[c]] + 1
<1>1. c \in Readers /\ Cardinality(Readers) > 0
  <2>1. c \in Readers
    BY DEF Readers
  <2>2. Cardinality(Readers) # 0
    BY <2>1, ReadersFinite, FS_EmptySet
  <2> QED
    BY <2>1, <2>2, ReadersFinite
<1>2. held[c] \in Counters /\ index[held[c]] \in Int
  BY DEF CountInv, Counting
<1>3. index[held[c]] >= 0 /\ index[held[c]] + Cardinality(Readers) <= calls
  BY <1>2 DEF CountInv, Counting, Unwrapped
<1> QED
  BY <1>1, <1>2, <1>3, ReadersFinite, LoadBalancerAssumption DEF Add, CountInv, Counting

LEMMA RotateCounts == ASSUME BalancerTypeOK, CountInv, NEW c \in Callers, Rotate(c) PROVE CountInv'
<1> DEFINE x == held[c]
           current == Add(index[x])
<1>1. /\ pc[c] = "add" /\ Release(c) /\ UNCHANGED <<balanceType, indexMap, calls>>
      /\ index' = [index EXCEPT ![x] = current]
      /\ IF Panics(current, Len(Turns(c))) THEN panicked' = TRUE ELSE panicked' = panicked
  BY DEF Rotate, service, bounds
<1>2. x \in Counters /\ index[x] \in Int /\ current \in Int
  BY <1>1, LoadBalancerAssumption DEF CountInv, Counting, Add
<1>3. calls <= MaxInt32 => current = index[x] + 1 /\ index[x] \in Nat /\ ~Panics(current, Len(Turns(c)))
  BY <1>1, <1>2, AddsOne DEF Panics
<1> HIDE DEF x, current
<1>4. \A y \in Counters : index'[y] = IF y = x THEN current ELSE index[y]
  BY <1>1, <1>2 DEF CountInv, Counting
<1>5. Counting'
  <2>1. \A d \in Callers : pc'[d] \in {"store", "add"} => Turns(d)' # <<>> /\ Rotates'
    BY <1>1, Leaves, TurnsKept DEF CountInv, Counting
  <2>2. index' \in [Counters -> Int \cup {None}]
    BY <1>1, <1>2 DEF CountInv, Counting
  <2>3. \A y \in Counters : index[y] # None => index'[y] # None
    BY <1>2, <1>4, LoadBalancerAssumption
  <2> QED
    BY <1>1, <2>1, <2>2, <2>3, Leaves DEF CountInv, Counting
<1>6. Unwrapped'
  <2>1. Cardinality(Readers') = Cardinality(Readers) - 1
    BY <1>1, Leaves DEF CountInv
  <2>2. index[x] # None
    BY <1>2, LoadBalancerAssumption
  <2> QED
    BY <1>1, <1>2, <1>3, <1>4, <2>1, <2>2, ReadersFinite DEF CountInv, Counting, Unwrapped
<1> QED
  BY <1>5, <1>6 DEF CountInv

LEMMA CountNext == ASSUME BalancerTypeOK, CountInv, [Next]_vars PROVE CountInv'
<1>1. ASSUME NEW c \in Callers, Call(c) PROVE CountInv'
  BY <1>1, CallCounts
<1>2. ASSUME NEW c \in Callers, Serve(c) PROVE CountInv'
  <2>1. CASE RandomSelect(c) \/ LeastConnectionsSelect(c) \/ NoTurns(c)
    <3>1. pc[c] # "idle" /\ Release(c) /\ UNCHANGED <<balanceType, indexMap, index, panicked, calls>>
      BY <2>1 DEF RandomSelect, LeastConnectionsSelect, NoTurns, service, indexes, bounds, history
    <3> QED
      BY <3>1, ReleaseCounts
  <2> QED
    BY <1>2, <2>1, FindCounts, StoreCounts, RotateCounts DEF Serve
<1>3. CASE Throw \/ Get \/ Rebuild \/ HealthCheck \/ (\E a \in Addresses : Change(a)) \/ UNCHANGED vars
  <2>1. UNCHANGED <<balanceType, indexMap, index, panicked, calls, pc, healthy, held>>
    BY <1>3 DEF Throw, Get, Rebuild, HealthCheck, Change, vars, service, indexes, callers, history, bounds
  <2>2. Readers' = Readers
    BY <2>1 DEF Readers
  <2>3. \A d \in Callers : Turns(d)' = Turns(d) /\ Rotates' = Rotates
    BY <2>1, TurnsKept
  <2> QED
    BY <2>1, <2>2, <2>3 DEF CountInv, Counting, Unwrapped
<1> QED
  BY <1>1, <1>2, <1>3 DEF Next, Live

LEMMA CountInvariance == Spec => []CountInv
<1>1. ListInv => BalancerTypeOK
  BY DEF ListInv
<1> QED
  BY <1>1, CountInit, CountNext, ListInvariance, PTL DEF Spec

\* No index wraps, and no call panics, in the first MaxInt32 calls.
THEOREM NoEarlyPanic == Spec => []PanicsOnlyAfterWrap
<1>1. CountInv => PanicsOnlyAfterWrap
  BY LoadBalancerAssumption DEF CountInv, Counting, Unwrapped, PanicsOnlyAfterWrap
<1> QED
  BY <1>1, CountInvariance, PTL

-------------------------------------------------------------------------------
(* The turns of the instances *)

\* The indexes x of S that have passed place i of their list in the present turn, when
\* x has counted f[x].
Ahead(S, f, len, i) == {x \in S : i <= f[x] % len}

LEMMA AheadFinite ==
    ASSUME NEW S, NEW f, NEW len, NEW i, IsFiniteSet(S)
    PROVE  IsFiniteSet(Ahead(S, f, len, i)) /\ Cardinality(Ahead(S, f, len, i)) \in 0..Cardinality(S)
<1>1. Ahead(S, f, len, i) \in SUBSET S
  BY DEF Ahead
<1>2. IsFiniteSet(Ahead(S, f, len, i)) /\ Cardinality(Ahead(S, f, len, i)) <= Cardinality(S)
  BY <1>1, FS_Subset
<1> QED
  BY <1>2, FS_CardinalityType

\* An index that is dropped was at most one place ahead.
LEMMA DropOne ==
    ASSUME NEW S, NEW y, NEW f, NEW len, IsFiniteSet(S), y \in S
    PROVE  /\ Cardinality(S \ {y}) = Cardinality(S) - 1
           /\ \A i : /\ Cardinality(Ahead(S \ {y}, f, len, i)) <= Cardinality(Ahead(S, f, len, i))
                     /\ Cardinality(Ahead(S, f, len, i)) <= Cardinality(Ahead(S \ {y}, f, len, i)) + 1
<1>1. Cardinality(S \ {y}) = Cardinality(S) - 1
  BY FS_RemoveElement
<1>2. ASSUME NEW i
      PROVE  /\ Cardinality(Ahead(S \ {y}, f, len, i)) <= Cardinality(Ahead(S, f, len, i))
             /\ Cardinality(Ahead(S, f, len, i)) <= Cardinality(Ahead(S \ {y}, f, len, i)) + 1
  <2> DEFINE A == Ahead(S, f, len, i)
  <2>1. Ahead(S \ {y}, f, len, i) = A \ {y}
    BY DEF Ahead
  <2>2. IsFiniteSet(A) /\ Cardinality(A) \in Nat
    BY AheadFinite, FS_CardinalityType
  <2> HIDE DEF A
  <2>3. Cardinality(A \ {y}) = IF y \in A THEN Cardinality(A) - 1 ELSE Cardinality(A)
    BY <2>2, FS_RemoveElement
  <2>4. Cardinality(A \ {y}) <= Cardinality(A) /\ Cardinality(A) <= Cardinality(A \ {y}) + 1
    BY <2>2, <2>3
  <2>5. /\ Cardinality(Ahead(S \ {y}, f, len, i)) <= Cardinality(A)
        /\ Cardinality(A) <= Cardinality(Ahead(S \ {y}, f, len, i)) + 1
    BY <2>1, <2>4
  <2> QED
    BY <2>5 DEF A
<1> QED
  BY <1>1, <1>2

\* An index that is new has passed no place.
LEMMA AddFresh ==
    ASSUME NEW S, NEW x, NEW f, NEW g, NEW len \in Nat \ {0}, IsFiniteSet(S), x \notin S,
           g[x] = 0, \A y \in S : g[y] = f[y]
    PROVE  /\ Cardinality(S \cup {x}) = Cardinality(S) + 1
           /\ \A i \in 1..len : Ahead(S \cup {x}, g, len, i) = Ahead(S, f, len, i)
<1>1. Cardinality(S \cup {x}) = Cardinality(S) + 1
  BY FS_AddElement
<1>2. 0 % len = 0
  OBVIOUS
<1> QED
  BY <1>1, <1>2 DEF Ahead

\* The remainder of the next number.
LEMMA NextRemainder ==
    ASSUME NEW n \in Nat, NEW len \in Nat \ {0}
    PROVE  /\ n % len \in 0..(len - 1)
           /\ (n + 1) % len = IF n % len = len - 1 THEN 0 ELSE (n % len) + 1
<1> DEFINE q == n \div len
           r == n % len
<1>1. q \in Nat /\ r \in 0..(len - 1) /\ n = len * q + r
  OBVIOUS
<1> HIDE DEF q, r
<1>2. CASE r = len - 1
  <2>1. n + 1 = len * (q + 1)
    BY <1>1, <1>2
  <2>2. (n + 1) % len = 0
    BY <1>1, <2>1
  <2> QED
    BY <1>1, <1>2, <2>2 DEF r
<1>3. CASE r # len - 1
  <2>1. n + 1 = len * q + (r + 1) /\ r + 1 \in 0..(len - 1)
    BY <1>1, <1>3
  <2>2. (n + 1) % len = r + 1
    BY <1>1, <2>1
  <2> QED
    BY <1>1, <1>3, <2>2 DEF r
<1> QED
  BY <1>2, <1>3

\* An index that takes its next place p: the others keep their distances, and it passes
\* p, or starts a new turn.
LEMMA TakePlace ==
    ASSUME NEW S, NEW x, NEW f, NEW g, NEW len \in Nat \ {0}, IsFiniteSet(S), x \in S,
           f[x] \in Nat, g[x] = f[x] + 1, \A y \in S \ {x} : g[y] = f[y]
    PROVE  \E w \in {0, 1} : \A i \in 1..len :
              Cardinality(Ahead(S, g, len, i)) =
                  Cardinality(Ahead(S, f, len, i)) + (IF i = (f[x] % len) + 1 THEN 1 ELSE 0) - w
<1> DEFINE r == f[x] % len
           w == IF r = len - 1 THEN 1 ELSE 0
<1>1. r \in 0..(len - 1) /\ g[x] % len = IF r = len - 1 THEN 0 ELSE r + 1
  BY NextRemainder
<1>2. ASSUME NEW i \in 1..len
      PROVE  Cardinality(Ahead(S, g, len, i)) =
                 Cardinality(Ahead(S, f, len, i)) + (IF i = r + 1 THEN 1 ELSE 0) - w
  <2> DEFINE A == Ahead(S, f, len, i)
             B == Ahead(S, g, len, i)
  <2>1. IsFiniteSet(A) /\ Cardinality(A) \in Nat
    BY AheadFinite, FS_CardinalityType
  <2>2. A \ {x} = B \ {x}
    BY DEF Ahead
  <2>3. x \in A <=> i <= r
    BY DEF Ahead
  <2>4. x \in B <=> i <= g[x] % len
    BY DEF Ahead
  <2> HIDE DEF A, B, r
  <2>5. CASE r = len - 1
    <3>1. x \notin B
      BY <1>1, <2>4, <2>5
    <3>2. B = A \ {x}
      BY <2>2, <3>1
    <3>3. Cardinality(B) = IF x \in A THEN Cardinality(A) - 1 ELSE Cardinality(A)
      BY <2>1, <3>2, FS_RemoveElement
    <3> QED
      BY <1>1, <2>1, <2>3, <2>5, <3>3 DEF A, B
  <2>6. CASE r # len - 1
    <3>1. CASE i = r + 1
      <4>1. x \in B /\ x \notin A
        BY <1>1, <2>3, <2>4, <2>6, <3>1
      <4>2. B = A \cup {x}
        BY <2>2, <4>1
      <4>3. Cardinality(B) = Cardinality(A) + 1
        BY <2>1, <4>1, <4>2, FS_AddElement
      <4> QED
        BY <2>1, <2>6, <3>1, <4>3 DEF A, B
    <3>2. CASE i # r + 1
      <4>1. x \in B <=> x \in A
        BY <1>1, <2>3, <2>4, <2>6, <3>2
      <4>2. B = A
        BY <2>2, <4>1
      <4> QED
        BY <2>1, <2>6, <3>2, <4>2 DEF A, B
    <3> QED
      BY <3>1, <3>2
  <2> QED
    BY <2>5, <2>6
<1> QED
  BY <1>2

-------------------------------------------------------------------------------
\* The indexes that count the turns of the list k, the callers about to make one more,
\* and how often its places were chosen.
Sharers(k) == {x \in Counters :
    \/ k \in DOMAIN indexMap /\ indexMap[k] = x
    \/ \E c \in Callers : pc[c] = "add" /\ Turns(c) = k /\ held[c] = x}
Makers(k) == {c \in Callers : pc[c] = "store" /\ Turns(c) = k}
Tally(k, i) == IF k \in DOMAIN picks THEN picks[k][i] ELSE 0

\* With d indexes of k gone, one place is ahead of another by one turn for each of
\* them, and by what the indexes in use say.
Even(k, d) ==
    /\ d + Cardinality(Sharers(k)) + Cardinality(Makers(k)) <= Cardinality(Callers)
    /\ \A i, j \in DOMAIN k : Tally(k, i) - Tally(k, j) <=
          d + Cardinality(Ahead(Sharers(k), index, Len(k), i))
            - Cardinality(Ahead(Sharers(k), index, Len(k), j))

Unshared == \A k, l \in DOMAIN indexMap : \A x \in Sharers(k) : x \in Sharers(l) => k = l
Mapped   == \A c \in Callers : pc[c] = "add" => Turns(c) \in DOMAIN indexMap
Tallied  == \A k \in DOMAIN picks : k \in DOMAIN indexMap /\ \A j \in DOMAIN k : picks[k][j] \in Int
Evenly   == \A k \in DOMAIN indexMap : \E d \in Nat : Even(k, d)

Counted   == Rotates /\ calls <= MaxInt32
SpreadInv == Counted => Unshared /\ Mapped /\ Tallied /\ Evenly

Base == BalancerTypeOK /\ CountInv

LEMMA SpreadInit == Init => SpreadInv
BY DEF Init, SpreadInv, Unshared, Mapped, Tallied, Evenly

\* The numbers that the bound is made of.
LEMMA SpreadNumbers ==
    ASSUME Base, NEW k
    PROVE  /\ IsFiniteSet(Sharers(k)) /\ Cardinality(Sharers(k)) \in Nat
           /\ IsFiniteSet(Makers(k)) /\ Cardinality(Makers(k)) \in Nat
           /\ Cardinality(Callers) \in Nat
<1>1. Sharers(k) \in SUBSET Counters /\ Makers(k) \in SUBSET Callers
  BY DEF Sharers, Makers
<1> QED
  BY <1>1, FS_Subset, FS_CardinalityType, LoadBalancerAssumption

\* A step that leaves the indexes of a list and its tally alone.
LEMMA EvenKept ==
    ASSUME Base, NEW k, NEW d \in Nat, Even(k, d),
           Sharers(k)' = Sharers(k), Makers(k)' \subseteq Makers(k),
           \A x \in Sharers(k) : index'[x] = index[x],
           \A i \in DOMAIN k : Tally(k, i)' = Tally(k, i)
    PROVE  Even(k, d)'
<1>1. Cardinality(Makers(k)') \in Nat /\ Cardinality(Makers(k)') <= Cardinality(Makers(k))
  <2>1. IsFiniteSet(Makers(k))
    BY SpreadNumbers
  <2> DEFINE M == Makers(k)
             N == Makers(k)'
  <2> HIDE DEF M, N
  <2>2. IsFiniteSet(N) /\ Cardinality(N) <= Cardinality(M)
    BY <2>1, FS_Subset DEF M, N
  <2> QED
    BY <2>2, FS_CardinalityType DEF M, N
<1>2. \A i : Ahead(Sharers(k), index', Len(k), i) = Ahead(Sharers(k), index, Len(k), i)
  BY DEF Ahead
<1>3. d + Cardinality(Sharers(k)') + Cardinality(Makers(k)') <= Cardinality(Callers)
  BY <1>1, SpreadNumbers DEF Even
<1>4. \A i, j \in DOMAIN k : Tally(k, i)' - Tally(k, j)' <=
          d + Cardinality(Ahead(Sharers(k)', index', Len(k), i))
            - Cardinality(Ahead(Sharers(k)', index', Len(k), j))
  BY <1>2 DEF Even
<1> QED
  BY <1>3, <1>4 DEF Even

LEMMA SpreadKept ==
    ASSUME Base, Base', SpreadInv, Counted' => Counted, UNCHANGED <<indexMap, index>>,
           \A k : Sharers(k)' = Sharers(k),
           \A k \in DOMAIN indexMap : Makers(k)' \subseteq Makers(k),
           \A c \in Callers : pc'[c] = "add" => pc[c] = "add" \/ Turns(c)' \in DOMAIN indexMap,
           \A c \in Callers : pc'[c] = "add" /\ pc[c] = "add" => Turns(c)' = Turns(c),
           Counted' => picks' = picks
    PROVE  SpreadInv'
<1> SUFFICES ASSUME Counted' PROVE (Unshared /\ Mapped /\ Tallied /\ Evenly)'
  BY DEF SpreadInv
<1>1. Unshared /\ Mapped /\ Tallied /\ Evenly /\ picks' = picks
  BY DEF SpreadInv
<1>2. Unshared'
  BY <1>1 DEF Unshared
<1>3. Mapped'
  BY <1>1 DEF Mapped
<1>4. Tallied'
  BY <1>1 DEF Tallied
<1>5. Evenly'
  <2> SUFFICES ASSUME NEW k \in DOMAIN indexMap PROVE \E d \in Nat : Even(k, d)'
    BY DEF Evenly
  <2>1. PICK d \in Nat : Even(k, d)
    BY <1>1 DEF Evenly
  <2>2. \A i \in DOMAIN k : Tally(k, i)' = Tally(k, i)
    BY <1>1 DEF Tally
  <2>3. Even(k, d)'
    BY <2>1, <2>2, EvenKept
  <2> QED
    BY <2>3
<1> QED
  BY <1>2, <1>3, <1>4, <1>5

\* A step after which no caller is newly at work on an index, or about to make one.
LEMMA QuietSpread ==
    ASSUME Base, Base', SpreadInv, UNCHANGED <<balanceType, indexMap, index>>,
           \A c \in Callers : pc'[c] \in {"add", "store"} <=> pc[c] \in {"add", "store"},
           \A c \in Callers : pc[c] \in {"add", "store"} =>
               pc'[c] = pc[c] /\ healthy'[c] = healthy[c] /\ held'[c] = held[c],
           calls' \in {calls, calls + 1}, Counted' => picks' = picks
    PROVE  SpreadInv'
<1>1. Counted' => Counted
  BY LoadBalancerAssumption DEF Counted, Rotates, Base, CountInv, Counting
<1>2. \A c \in Callers : pc[c] \in {"add", "store"} => Turns(c)' = Turns(c)
  BY TurnsKept
<1>3. \A k : Sharers(k)' = Sharers(k) /\ Makers(k)' = Makers(k)
  BY <1>2 DEF Sharers, Makers
<1> QED
  BY <1>1, <1>2, <1>3, SpreadKept

LEMMA FindSpread == ASSUME Base, Base', SpreadInv, NEW c \in Callers, FindIndex(c) PROVE SpreadInv'
<1>1. /\ UNCHANGED <<balanceType, indexMap, index, picks, calls, healthy>>
      /\ pc[c] = "select" /\ Turns(c) # <<>> /\ Rotates
  BY DEF FindIndex, service, indexes, history, bounds
<1>2. \A d \in Callers : Turns(d)' = Turns(d) /\ Rotates' = Rotates
  BY <1>1, TurnsKept
<1>3. Counted' => Counted
  BY <1>1, <1>2 DEF Counted
<1>4. \A d \in Callers \ {c} : pc'[d] = pc[d] /\ held'[d] = held[d]
  BY DEF FindIndex, Base, BalancerTypeOK, CountInv, Counting
<1>5. CASE Turns(c) \in DOMAIN indexMap
  <2>1. pc'[c] = "add" /\ held'[c] = indexMap[Turns(c)]
    BY <1>5 DEF FindIndex, Base, BalancerTypeOK, CountInv, Counting
  <2>2. \A k : Sharers(k)' = Sharers(k) /\ Makers(k)' = Makers(k)
    BY <1>1, <1>2, <1>4, <1>5, <2>1 DEF Sharers, Makers
  <2> QED
    BY <1>1, <1>2, <1>3, <1>4, <1>5, <2>1, <2>2, SpreadKept
<1>6. CASE Turns(c) \notin DOMAIN indexMap
  <2>1. pc'[c] = "store" /\ held'[c] = held[c]
    BY <1>6 DEF FindIndex, Base, BalancerTypeOK, CountInv, Counting
  <2>2. \A k : Sharers(k)' = Sharers(k)
    BY <1>1, <1>2, <1>4, <2>1 DEF Sharers
  <2>3. \A k \in DOMAIN indexMap : Makers(k)' = Makers(k)
    BY <1>1, <1>2, <1>4, <1>6, <2>1 DEF Makers
  <2> QED
    BY <1>1, <1>2, <1>3, <1>4, <2>1, <2>2, <2>3, SpreadKept
<1> QED
  BY <1>5, <1>6

\* In use, an index has a number of its own.
LEMMA InUse ==
    ASSUME Base, NEW k, NEW x \in Sharers(k), calls <= MaxInt32
    PROVE  x \in Counters /\ index[x] \in Nat
<1>1. x \in Counters /\ index[x] # None
  BY DEF Base, CountInv, Counting, Sharers
<1> QED
  BY <1>1 DEF Base, CountInv, Counting, Unwrapped

LEMMA FreeIsUnused ==
    ASSUME Base, NEW x \in Free, NEW k
    PROVE  x \notin Sharers(k)
<1> SUFFICES ASSUME x \in Sharers(k) PROVE FALSE
  OBVIOUS
<1>1. x \in Counters /\ index[x] # None
  BY DEF Base, CountInv, Counting, Sharers
<1>2. x \in Range(indexMap) \cup Range(held)
  BY DEF Sharers, Range, Base, CountInv, Counting
<1> QED
  BY <1>1, <1>2 DEF Free

\* A caller makes an index for its list, in the place of the one that another may have
\* made since it looked.
LEMMA StoreSpread == ASSUME Base, Base', SpreadInv, NEW c \in Callers, StoreIndex(c) PROVE SpreadInv'
<1>0. PICK k : k = Turns(c)
  OBVIOUS
<1>1. PICK x \in Free :
        /\ index' = [index EXCEPT ![x] = 0]
        /\ indexMap' = Put(indexMap, k, x)
        /\ held' = [held EXCEPT ![c] = x]
  BY <1>0 DEF StoreIndex
<1>2. /\ UNCHANGED <<balanceType, picks, calls, healthy>>
      /\ pc[c] = "store" /\ pc' = [pc EXCEPT ![c] = "add"]
  BY DEF StoreIndex, service, history, bounds
<1>3. \A d \in Callers : Turns(d)' = Turns(d) /\ Rotates' = Rotates
  BY <1>2, TurnsKept
<1> SUFFICES ASSUME Counted' PROVE (Unshared /\ Mapped /\ Tallied /\ Evenly)'
  BY DEF SpreadInv
<1>4. Counted /\ Unshared /\ Mapped /\ Tallied /\ Evenly /\ calls <= MaxInt32
  BY <1>2, <1>3 DEF SpreadInv, Counted
<1>5. x \in Counters /\ (\A y \in Counters : index'[y] = IF y = x THEN 0 ELSE index[y])
      /\ (\A l : x \notin Sharers(l)) /\ IsList(k)
  BY <1>0, <1>1, <1>2, FreeIsUnused, TurnsIsList DEF Free, Base, CountInv, Counting
<1>6. /\ DOMAIN indexMap' = DOMAIN indexMap \cup {k} /\ indexMap'[k] = x
      /\ \A l \in DOMAIN indexMap : l # k => indexMap'[l] = indexMap[l]
  BY <1>1 DEF Put
<1>7. /\ pc'[c] = "add" /\ held'[c] = x
      /\ \A d \in Callers \ {c} : pc'[d] = pc[d] /\ held'[d] = held[d]
  BY <1>1, <1>2, <1>5 DEF Base, BalancerTypeOK, CountInv, Counting
<1>8. \A l : l # k => Sharers(l)' = Sharers(l) /\ Makers(l)' = Makers(l)
  BY <1>0, <1>2, <1>3, <1>6, <1>7 DEF Sharers, Makers
<1>9. /\ x \in Sharers(k)' /\ Sharers(k)' \subseteq Sharers(k) \cup {x}
      /\ \A y \in Sharers(k) : y \in Sharers(k)' \/ (k \in DOMAIN indexMap /\ y = indexMap[k])
  BY <1>0, <1>2, <1>3, <1>5, <1>6, <1>7 DEF Sharers
<1>10. Makers(k)' = Makers(k) \ {c} /\ c \in Makers(k)
  BY <1>0, <1>2, <1>3, <1>7 DEF Makers
<1> DEFINE S == Sharers(k)
           T == Sharers(k)'
           U == T \ {x}
<1>21. k \notin DOMAIN indexMap => S = {}
  BY <1>4 DEF Sharers, Mapped
<1>11. Unshared'
  <2>1. ASSUME NEW l \in DOMAIN indexMap, l # k, NEW y \in T PROVE y \notin Sharers(l)
    BY <1>4, <1>5, <1>9, <1>21, <2>1 DEF Unshared
  <2>2. ASSUME NEW l \in DOMAIN indexMap, NEW m \in DOMAIN indexMap, NEW y \in Sharers(l),
               y \in Sharers(m)
        PROVE  l = m
    BY <1>4, <2>2 DEF Unshared
  <2> SUFFICES ASSUME NEW l \in DOMAIN indexMap', NEW m \in DOMAIN indexMap', l # m,
                      NEW y \in Sharers(l)', y \in Sharers(m)'
               PROVE  FALSE
    BY DEF Unshared
  <2>3. CASE l # k /\ m # k
    BY <1>6, <1>8, <2>2, <2>3
  <2>4. CASE l = k
    BY <1>6, <1>8, <2>1, <2>4
  <2>5. CASE m = k
    BY <1>6, <1>8, <2>1, <2>5
  <2> QED
    BY <2>3, <2>4, <2>5
<1>12. Mapped'
  BY <1>0, <1>3, <1>4, <1>6, <1>7 DEF Mapped
<1>13. Tallied'
  BY <1>2, <1>4, <1>6 DEF Tallied
<1>14. ASSUME NEW l \in DOMAIN indexMap, l # k PROVE \E d \in Nat : Even(l, d)'
  <2>1. PICK d \in Nat : Even(l, d)
    BY <1>4 DEF Evenly
  <2>2. \A y \in Sharers(l) : index'[y] = index[y]
    <3>1. \A y \in Sharers(l) : y \in Counters
      BY DEF Sharers
    <3> QED
      BY <1>5, <3>1
  <2>3. \A i \in DOMAIN l : Tally(l, i)' = Tally(l, i)
    BY <1>2 DEF Tally
  <2>4. Even(l, d)'
    BY <1>8, <1>14, <2>1, <2>2, <2>3, EvenKept
  <2> QED
    BY <2>4
<1>15. PICK len \in Nat \ {0} : DOMAIN k = 1..len /\ Len(k) = len
  BY <1>5 DEF IsList
<1>16. IsFiniteSet(S) /\ IsFiniteSet(U) /\ U \subseteq S /\ x \notin U /\ T = U \cup {x}
  <2>1. U \subseteq S /\ x \notin U /\ T = U \cup {x}
    BY <1>9
  <2>2. IsFiniteSet(S)
    BY SpreadNumbers
  <2> HIDE DEF S, T, U
  <2> QED
    BY <2>1, <2>2, FS_Subset
<1>17. /\ Cardinality(T) = Cardinality(U) + 1
       /\ \A i \in 1..len : Ahead(T, index', len, i) = Ahead(U, index, len, i)
  <2>1. index'[x] = 0 /\ \A y \in U : index'[y] = index[y]
    <3>1. \A y \in U : y \in Counters /\ y # x
      BY <1>16 DEF Sharers
    <3> QED
      BY <1>5, <3>1
  <2> HIDE DEF S, T, U
  <2> QED
    BY <1>16, <2>1, AddFresh
<1>18. Cardinality(Makers(k)') = Cardinality(Makers(k)) - 1
  BY <1>10, SpreadNumbers, FS_RemoveElement
<1>19. \E d \in Nat : Even(k, d)'
  <2>0. \A i \in DOMAIN k : Tally(k, i)' = Tally(k, i)
    BY <1>2 DEF Tally
  <2>n. Cardinality(S) \in Nat /\ Cardinality(Makers(k)) \in Nat /\ Cardinality(U) \in Nat
        /\ Cardinality(Callers) \in Nat
    BY <1>16, SpreadNumbers, FS_CardinalityType
  <2>1. CASE k \notin DOMAIN indexMap
    <3>1. S = {} /\ U = {} /\ Cardinality(T) = 1
      BY <1>16, <1>17, <1>21, <2>1, FS_EmptySet
    <3>2. Cardinality(Makers(k)) <= Cardinality(Callers)
      <4>1. Makers(k) \in SUBSET Callers
        BY DEF Makers
      <4> QED
        BY <4>1, FS_Subset, LoadBalancerAssumption
    <3>3. \A i \in DOMAIN k : Tally(k, i)' = 0
      BY <1>2, <1>4, <2>1 DEF Tally, Tallied
    <3>4. \A i \in 1..len : Cardinality(Ahead(T, index', len, i)) = 0
      <4>1. \A i \in 1..len : Ahead(U, index, len, i) = {}
        BY <3>1 DEF Ahead
      <4> QED
        BY <1>17, <4>1, FS_EmptySet
    <3>5. Even(k, 0)'
      BY <1>15, <1>18, <2>n, <3>1, <3>2, <3>3, <3>4 DEF Even
    <3> QED
      BY <3>5
  <2>2. CASE k \in DOMAIN indexMap
    <3>1. PICK d \in Nat : Even(k, d)
      BY <1>4, <2>2 DEF Evenly
    <3>2. PICK e \in {0, 1} :
             /\ Cardinality(U) = Cardinality(S) - e
             /\ \A i : /\ Cardinality(Ahead(U, index, len, i)) <= Cardinality(Ahead(S, index, len, i))
                       /\ Cardinality(Ahead(S, index, len, i)) <= Cardinality(Ahead(U, index, len, i)) + e
      <4> DEFINE old == indexMap[k]
      <4>1. old \in S
        BY <2>2 DEF Sharers, Base, CountInv, Counting
      <4>2. \A i : Cardinality(Ahead(S, index, len, i)) \in Nat
        BY <1>16, AheadFinite
      <4> HIDE DEF old
      <4>3. CASE old \in U
        <5>1. U = S
          BY <1>5, <1>9, <1>16, <4>3 DEF old
        <5> HIDE DEF S, U
        <5>2. /\ Cardinality(U) = Cardinality(S) - 0
              /\ \A i : /\ Cardinality(Ahead(U, index, len, i)) <= Cardinality(Ahead(S, index, len, i))
                        /\ Cardinality(Ahead(S, index, len, i)) <= Cardinality(Ahead(U, index, len, i)) + 0
          BY <2>n, <4>2, <5>1
        <5> QED
          BY <5>2
      <4>4. CASE old \notin U
        <5>1. U = S \ {old}
          BY <1>5, <1>9, <1>16, <4>4 DEF old
        <5> HIDE DEF S, U
        <5>2. /\ Cardinality(U) = Cardinality(S) - 1
              /\ \A i : /\ Cardinality(Ahead(U, index, len, i)) <= Cardinality(Ahead(S, index, len, i))
                        /\ Cardinality(Ahead(S, index, len, i)) <= Cardinality(Ahead(U, index, len, i)) + 1
          BY <1>16, <4>1, <5>1, DropOne
        <5> QED
          BY <5>2
      <4> QED
        BY <4>3, <4>4
    <3>3. (d + e) + Cardinality(T) + Cardinality(Makers(k)') <= Cardinality(Callers)
      BY <1>17, <1>18, <2>n, <3>1, <3>2 DEF Even
    <3>4. \A i, j \in DOMAIN k : Tally(k, i)' - Tally(k, j)' <= (d + e)
             + Cardinality(Ahead(T, index', Len(k), i)) - Cardinality(Ahead(T, index', Len(k), j))
      <4> SUFFICES ASSUME NEW i \in 1..len, NEW j \in 1..len
                   PROVE  Tally(k, i)' - Tally(k, j)' <= (d + e)
                            + Cardinality(Ahead(T, index', len, i)) - Cardinality(Ahead(T, index', len, j))
        BY <1>15
      <4>1. Tally(k, i) - Tally(k, j) <=
               d + Cardinality(Ahead(S, index, len, i)) - Cardinality(Ahead(S, index, len, j))
        BY <1>15, <3>1 DEF Even
      <4>2. Tally(k, i) \in Int /\ Tally(k, j) \in Int
        BY <1>4, <1>15 DEF Tally, Tallied
      <4>3. /\ Cardinality(Ahead(S, index, len, i)) \in Nat /\ Cardinality(Ahead(S, index, len, j)) \in Nat
            /\ Cardinality(Ahead(U, index, len, i)) \in Nat /\ Cardinality(Ahead(U, index, len, j)) \in Nat
        BY <1>16, AheadFinite, FS_CardinalityType
      <4>4. /\ Ahead(T, index', len, i) = Ahead(U, index, len, i)
            /\ Ahead(T, index', len, j) = Ahead(U, index, len, j)
            /\ Tally(k, i)' = Tally(k, i) /\ Tally(k, j)' = Tally(k, j)
        BY <1>15, <1>17, <2>0
      <4> HIDE DEF S, T, U
      <4> QED
        BY <3>2, <4>1, <4>2, <4>3, <4>4
    <3>5. Even(k, d + e)'
      BY <3>3, <3>4 DEF Even
    <3>6. d + e \in Nat
      OBVIOUS
    <3> QED
      BY <3>5, <3>6
  <2> QED
    BY <2>1, <2>2
<1>20. Evenly'
  BY <1>6, <1>14, <1>19 DEF Evenly
<1> QED
  BY <1>11, <1>12, <1>13, <1>20

\* A caller takes the next place its index gives, and lets go of the index.
LEMMA RotateSpread == ASSUME Base, Base', SpreadInv, NEW c \in Callers, Rotate(c) PROVE SpreadInv'
<1> SUFFICES ASSUME Counted' PROVE (Unshared /\ Mapped /\ Tallied /\ Evenly)'
  BY DEF SpreadInv
<1>0. PICK k, x : k = Turns(c) /\ x = held[c]
  OBVIOUS
<1>1. pc[c] = "add" /\ Release(c) /\ UNCHANGED <<balanceType, indexMap, calls>>
  BY DEF Rotate, service, bounds
<1>2. Counted /\ Unshared /\ Mapped /\ Tallied /\ Evenly /\ calls <= MaxInt32
  BY <1>1 DEF SpreadInv, Counted, Rotates
<1>3. /\ x \in Sharers(k) /\ x \in Counters /\ k \in DOMAIN indexMap /\ index[x] \in Nat
      /\ Add(index[x]) = index[x] + 1
  <2>1. x \in Sharers(k) /\ x \in Counters
    BY <1>0, <1>1 DEF Sharers, Base, CountInv, Counting
  <2>2. index[x] \in Nat /\ Add(index[x]) = index[x] + 1
    BY <1>0, <1>1, <1>2, AddsOne DEF Base
  <2> QED
    BY <1>0, <1>1, <1>2, <2>1, <2>2 DEF Mapped
<1>4. PICK len \in Nat \ {0} : DOMAIN k = 1..len /\ Len(k) = len
  BY <1>3 DEF IsList, Base, CountInv, Counting
<1>5. PICK p : p = (index[x] % len) + 1
  OBVIOUS
<1>6. /\ \A y \in Counters : index'[y] = IF y = x THEN index[x] + 1 ELSE index[y]
      /\ picks' = Put(picks, k, [j \in DOMAIN k |-> Tally(k, j) + (IF j = p THEN 1 ELSE 0)])
  <2>1. ~Panics(index[x] + 1, len)
    BY <1>3 DEF Panics
  <2>2. Chosen(index[x] + 1, len) = p
    BY <1>3, <1>5 DEF Chosen
  <2>3. index' = [index EXCEPT ![x] = index[x] + 1]
    BY <1>0, <1>3 DEF Rotate
  <2>4. Count(k, p)
    BY <1>0, <1>3, <1>4, <2>1, <2>2 DEF Rotate
  <2> QED
    BY <1>3, <2>3, <2>4 DEF Count, Tally, Base, CountInv, Counting
<1>7. \A l : l # k => (\A i : Tally(l, i)' = Tally(l, i))
  BY <1>6 DEF Tally, Put
<1>8. \A i \in 1..len : Tally(k, i)' = Tally(k, i) + (IF i = p THEN 1 ELSE 0)
  BY <1>4, <1>6 DEF Tally, Put
<1>9. /\ pc'[c] = "idle"
      /\ \A d \in Callers \ {c} : pc'[d] = pc[d] /\ held'[d] = held[d] /\ Turns(d)' = Turns(d)
  <2>1. \A d \in Callers \ {c} : pc'[d] = pc[d] /\ held'[d] = held[d] /\ healthy'[d] = healthy[d]
    BY <1>1 DEF Release, Base, BalancerTypeOK, CountInv, Counting
  <2>2. pc'[c] = "idle"
    BY <1>1 DEF Release, Base, BalancerTypeOK
  <2> QED
    BY <1>1, <2>1, <2>2, TurnsKept
<1>10. \A l : Makers(l)' = Makers(l)
  BY <1>1, <1>9 DEF Makers
<1>11. \A l : l # k => Sharers(l)' = Sharers(l)
  BY <1>0, <1>1, <1>9 DEF Sharers
<1>12. Sharers(k)' = Sharers(k) \/ Sharers(k)' = Sharers(k) \ {x}
  BY <1>0, <1>1, <1>9 DEF Sharers
<1>13. Unshared'
  BY <1>1, <1>2, <1>11, <1>12 DEF Unshared
<1>14. Mapped'
  BY <1>1, <1>2, <1>9 DEF Mapped
<1>15. Tallied'
  <2>1. \A j \in DOMAIN k : Tally(k, j) \in Int
    BY <1>2 DEF Tally, Tallied
  <2> QED
    BY <1>1, <1>2, <1>3, <1>6, <2>1 DEF Tallied, Put
<1>16. ASSUME NEW l \in DOMAIN indexMap, l # k PROVE \E d \in Nat : Even(l, d)'
  <2>1. PICK d \in Nat : Even(l, d)
    BY <1>2 DEF Evenly
  <2>2. \A y \in Sharers(l) : index'[y] = index[y]
    <3>1. \A y \in Sharers(l) : y \in Counters /\ y # x
      BY <1>2, <1>3, <1>16 DEF Sharers, Unshared
    <3> QED
      BY <1>6, <3>1
  <2>3. Even(l, d)'
    BY <1>7, <1>10, <1>11, <1>16, <2>1, <2>2, EvenKept
  <2> QED
    BY <2>3
<1>17. \E d \in Nat : Even(k, d)'
  <2> DEFINE S == Sharers(k)
             T == Sharers(k)'
             A(i) == Cardinality(Ahead(S, index, len, i))
             B(i) == Cardinality(Ahead(S, index', len, i))
             C(i) == Cardinality(Ahead(T, index', len, i))
  <2>1. PICK d \in Nat : Even(k, d)
    BY <1>2, <1>3 DEF Evenly
  <2>2. /\ IsFiniteSet(S) /\ Cardinality(S) \in Nat /\ Cardinality(Callers) \in Nat
        /\ Cardinality(Makers(k)) \in Nat /\ IsFiniteSet(T)
    <3>1. IsFiniteSet(S) /\ T \in SUBSET S
      BY <1>12, SpreadNumbers
    <3> HIDE DEF S, T
    <3>2. IsFiniteSet(T)
      BY <3>1, FS_Subset
    <3> QED
      BY <3>1, <3>2, SpreadNumbers DEF S
  <2>3. PICK w \in {0, 1} : \A i \in 1..len : B(i) = A(i) + (IF i = p THEN 1 ELSE 0) - w
    <3>1. x \in S /\ index'[x] = index[x] + 1 /\ \A y \in S \ {x} : index'[y] = index[y]
      BY <1>3, <1>6 DEF Sharers
    <3> HIDE DEF S
    <3>2. \E w \in {0, 1} : \A i \in 1..len :
             Cardinality(Ahead(S, index', len, i)) = Cardinality(Ahead(S, index, len, i))
                + (IF i = (index[x] % len) + 1 THEN 1 ELSE 0) - w
      BY <1>3, <2>2, <3>1, TakePlace
    <3> QED
      BY <1>5, <3>2
  <2>4. \A i : A(i) \in Nat /\ B(i) \in Nat /\ C(i) \in Nat
    BY <2>2, AheadFinite, FS_CardinalityType
  <2>5. PICK e \in {0, 1} : /\ Cardinality(T) = Cardinality(S) - e
                            /\ \A i : C(i) <= B(i) /\ B(i) <= C(i) + e
    <3>1. CASE T = S
      <4>1. Cardinality(T) = Cardinality(S) - 0 /\ \A i : C(i) <= B(i) /\ B(i) <= C(i) + 0
        BY <2>2, <2>4, <3>1
      <4> QED
        BY <4>1
    <3>2. CASE T = S \ {x}
      <4>1. x \in S
        BY <1>3
      <4> HIDE DEF S, T
      <4>2. Cardinality(T) = Cardinality(S) - 1 /\ \A i : C(i) <= B(i) /\ B(i) <= C(i) + 1
        BY <2>2, <3>2, <4>1, DropOne
      <4> QED
        BY <4>2
    <3> QED
      BY <1>12, <3>1, <3>2
  <2>6. (d + e) + Cardinality(T) + Cardinality(Makers(k)') <= Cardinality(Callers)
    BY <1>10, <2>1, <2>2, <2>5 DEF Even
  <2>7. \A i, j \in DOMAIN k : Tally(k, i)' - Tally(k, j)' <= (d + e)
           + Cardinality(Ahead(T, index', Len(k), i)) - Cardinality(Ahead(T, index', Len(k), j))
    <3> SUFFICES ASSUME NEW i \in 1..len, NEW j \in 1..len
                 PROVE  Tally(k, i)' - Tally(k, j)' <= (d + e) + C(i) - C(j)
      BY <1>4
    <3>1. Tally(k, i) - Tally(k, j) <= d + A(i) - A(j)
      BY <1>4, <2>1 DEF Even
    <3>2. Tally(k, i) \in Int /\ Tally(k, j) \in Int
      BY <1>2, <1>4 DEF Tally, Tallied
    <3>3. /\ Tally(k, i)' = Tally(k, i) + (IF i = p THEN 1 ELSE 0)
          /\ Tally(k, j)' = Tally(k, j) + (IF j = p THEN 1 ELSE 0)
      BY <1>8
    <3>4. /\ B(i) = A(i) + (IF i = p THEN 1 ELSE 0) - w
          /\ B(j) = A(j) + (IF j = p THEN 1 ELSE 0) - w
      BY <2>3
    <3> HIDE DEF S, T, A, B, C
    <3> QED
      BY <2>4, <2>5, <3>1, <3>2, <3>3, <3>4
  <2>8. Even(k, d + e)' /\ d + e \in Nat
    BY <2>6, <2>7 DEF Even
  <2> QED
    BY <2>8
<1>18. Evenly'
  BY <1>1, <1>16, <1>17 DEF Evenly
<1> QED
  BY <1>13, <1>14, <1>15, <1>18

LEMMA SpreadNext == ASSUME Base, Base', SpreadInv, [Next]_vars PROVE SpreadInv'
<1>1. ASSUME NEW c \in Callers, Call(c) PROVE SpreadInv'
  <2>1. /\ UNCHANGED <<balanceType, indexMap, index, picks, held>> /\ calls' = calls + 1
        /\ pc[c] = "idle" /\ pc'[c] = "select"
        /\ \A d \in Callers \ {c} : pc'[d] = pc[d] /\ healthy'[d] = healthy[d]
    BY <1>1 DEF Call, service, indexes, history, Base, BalancerTypeOK
  <2> QED
    BY <2>1, QuietSpread
<1>2. ASSUME NEW c \in Callers, Serve(c) PROVE SpreadInv'
  <2>1. CASE RandomSelect(c) \/ LeastConnectionsSelect(c)
    BY <2>1 DEF RandomSelect, LeastConnectionsSelect, service, SpreadInv, Counted, Rotates
  <2>2. CASE NoTurns(c)
    <3>1. /\ UNCHANGED <<balanceType, indexMap, index, picks, calls>>
          /\ pc[c] = "select" /\ pc'[c] = "idle"
          /\ \A d \in Callers \ {c} : pc'[d] = pc[d] /\ healthy'[d] = healthy[d] /\ held'[d] = held[d]
      BY <2>2 DEF NoTurns, Release, service, indexes, history, bounds, Base, BalancerTypeOK, CountInv, Counting
    <3> QED
      BY <3>1, QuietSpread
  <2> QED
    BY <1>2, <2>1, <2>2, FindSpread, StoreSpread, RotateSpread DEF Serve
<1>3. CASE Throw \/ Get \/ Rebuild \/ HealthCheck \/ (\E a \in Addresses : Change(a)) \/ UNCHANGED vars
  <2>1. UNCHANGED <<balanceType, indexMap, index, picks, calls, pc, healthy, held>>
    BY <1>3 DEF Throw, Get, Rebuild, HealthCheck, Change, vars, service, indexes, callers, history, bounds
  <2> QED
    BY <2>1, QuietSpread
<1> QED
  BY <1>1, <1>2, <1>3 DEF Next, Live

\* Round robin gives every place of a list its turn, but for one turn for each caller.
THEOREM TurnsAreEven == Spec => []EvenSpread
<1>1. ListInv /\ CountInv => Base
  BY DEF ListInv, Base
<1>2. SpreadInv /\ Base => EvenSpread
  <2> SUFFICES ASSUME SpreadInv, Base, Rotates, calls <= MaxInt32, NEW k \in DOMAIN picks,
                      NEW i \in DOMAIN k, NEW j \in DOMAIN k
               PROVE  picks[k][i] - picks[k][j] <= Cardinality(Callers)
    BY DEF EvenSpread
  <2>1. PICK d \in Nat : Even(k, d) /\ picks[k][i] \in Int /\ picks[k][j] \in Int
    BY DEF SpreadInv, Counted, Evenly, Tallied
  <2>2. /\ Cardinality(Ahead(Sharers(k), index, Len(k), i)) \in 0..Cardinality(Sharers(k))
        /\ Cardinality(Ahead(Sharers(k), index, Len(k), j)) \in 0..Cardinality(Sharers(k))
    BY SpreadNumbers, AheadFinite
  <2>3. picks[k][i] - picks[k][j] <=
          d + Cardinality(Ahead(Sharers(k), index, Len(k), i))
            - Cardinality(Ahead(Sharers(k), index, Len(k), j))
    BY <2>1 DEF Even, Tally
  <2>4. d + Cardinality(Sharers(k)) + Cardinality(Makers(k)) <= Cardinality(Callers)
    BY <2>1 DEF Even
  <2> QED
    BY <2>1, <2>2, <2>3, <2>4, SpreadNumbers
<1> QED
  BY <1>1, <1>2, SpreadInit, SpreadNext, ListInvariance, CountInvariance, PTL DEF Spec
===============================================================================
