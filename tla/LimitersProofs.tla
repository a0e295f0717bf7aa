---------------------------- MODULE LimitersProofs ----------------------------
(***************************************************************************)
(* The sliding window and the buckets of module Limiters keep their        *)
(* bounds and refuse only for a cause, for any requests, headers, limits,  *)
(* windows, rates and bursts.                                              *)
(***************************************************************************)
EXTENDS Limiters, TLAPS, FiniteSetTheorems

TypeOK ==
    /\ kind \in {"token", "leaky", "window"}
    /\ now \in Nat
    /\ buckets \in [Keys -> Nat \cup {Nothing}]
    /\ records \in [Keys -> SUBSET Nat]
    /\ at \in [Requests -> {"off", "found", "passed", "refused"}]
    /\ log \in [Keys -> Seq(Nat)]

\* Grants are logged in the order of their times, none of them later than now.
Sorted ==
    \A k \in Keys : \A i, j \in 1..Len(log[k]) :
        i <= j => log[k][i] <= log[k][j] /\ log[k][j] <= now

\* What the window has forgotten is as old as the window.
Remembered ==
    kind = "window" => \A k \in Keys :
        /\ records[k] \subseteq 1..Len(log[k])
        /\ \A i \in (1..Len(log[k])) \ records[k] : log[k][i] <= now - Window

\* What a bucket holds and has given since any of its grants is no more than it can
\* hold and has earned since; before it is made it has given nothing.
Balance ==
    kind # "window" => \A k \in Keys :
        /\ buckets[k] <= Capacity
        /\ buckets[k] = Nothing => log[k] = <<>>
        /\ \A i \in 1..Len(log[k]) :
              buckets[k] + (Len(log[k]) - i + 1) <= Capacity + Rate * (now - log[k][i])

WindowInv == TypeOK /\ Sorted /\ Remembered /\ WindowBound
BucketInv == TypeOK /\ Sorted /\ Balance /\ BucketBound

\* The leaky bucket of a key that has one: since some time, at which it was full, what it
\* has given and still holds is no less than it held and has earned.
SpentBy(k) == \E t \in 0..now : GrantsSince(k, t) + buckets[k] >= Burst + Rate * (now - t)
Spent == kind = "leaky" => \A k \in Keys : buckets[k] # Nothing => SpentBy(k)

CauseInv == TypeOK /\ Sorted /\ Remembered /\ WindowBound /\ Spent

-------------------------------------------------------------------------------
(* Constants, and what a grant adds to the log *)

LEMMA KeyTyped ==
    ASSUME NEW r \in Requests
    PROVE  KeyOf(r) \in Keys
BY LimitersAssumption DEF KeyOf, IPOf, UserOf, extractIP, Keys, HeaderNames

LEMMA Constants == {Limit, Window, Rate, Burst, Slack, Capacity} \subseteq Nat
BY LimitersAssumption DEF Capacity

LEMMA PassLogs ==
    ASSUME TypeOK, NEW r \in Requests, Pass(r)
    PROVE  /\ at' \in [Requests -> {"off", "found", "passed", "refused"}]
           /\ log' \in [Keys -> Seq(Nat)]
           /\ Len(log'[KeyOf(r)]) = Len(log[KeyOf(r)]) + 1
           /\ log'[KeyOf(r)][Len(log[KeyOf(r)]) + 1] = now
           /\ \A i \in 1..Len(log[KeyOf(r)]) : log'[KeyOf(r)][i] = log[KeyOf(r)][i]
           /\ \A k \in Keys \ {KeyOf(r)} : log'[k] = log[k]
BY KeyTyped DEF TypeOK, Pass

LEMMA PassSorted ==
    ASSUME TypeOK, Sorted, NEW r \in Requests, Pass(r), now' = now
    PROVE  Sorted'
<1> SUFFICES ASSUME NEW k \in Keys,
                    NEW i \in 1..Len(log'[k]), NEW j \in 1..Len(log'[k]), i <= j
             PROVE  log'[k][i] <= log'[k][j] /\ log'[k][j] <= now
  BY DEF Sorted
<1>1. CASE k # KeyOf(r)
  BY <1>1, PassLogs DEF Sorted
<1>2. CASE k = KeyOf(r) /\ j \in 1..Len(log[k])
  <2>1. i \in 1..Len(log[k])
    BY <1>2, PassLogs DEF TypeOK
  <2> QED
    BY <1>2, <2>1, PassLogs DEF Sorted
<1>3. CASE k = KeyOf(r) /\ j \notin 1..Len(log[k])
  <2>1. j = Len(log[k]) + 1 /\ log'[k][j] = now
    BY <1>3, PassLogs DEF TypeOK
  <2>2. CASE i = j
    BY <2>1, <2>2 DEF TypeOK
  <2>3. CASE i # j
    <3>1. i \in 1..Len(log[k])
      BY <2>1, <2>3 DEF TypeOK
    <3>2. log'[k][i] = log[k][i] /\ log[k][i] <= now
      BY <1>3, <3>1, PassLogs DEF Sorted
    <3> QED
      BY <2>1, <3>2 DEF TypeOK
  <2> QED
    BY <2>2, <2>3
<1> QED
  BY <1>1, <1>2, <1>3

LEMMA BaseInit == Init => TypeOK /\ Sorted
<1> SUFFICES ASSUME Init PROVE TypeOK /\ Sorted
  OBVIOUS
<1>1. TypeOK
  BY DEF Init, TypeOK, Nothing
<1>2. \A k \in Keys : Len(log[k]) = 0
  BY DEF Init
<1> QED
  BY <1>1, <1>2 DEF Sorted

LEMMA BaseStep == TypeOK /\ Sorted /\ [Next]_vars => TypeOK' /\ Sorted'
<1> SUFFICES ASSUME TypeOK, Sorted, [Next]_vars PROVE TypeOK' /\ Sorted'
  OBVIOUS
<1>1. CASE Tick
  <2>1. TypeOK'
    <3>1. \A k \in Keys : Earned(k) \in Nat \cup {Nothing}
      BY Constants DEF TypeOK, Earned, Nothing
    <3> QED
      BY <1>1, <3>1 DEF TypeOK, Tick
  <2>2. Sorted'
    BY <1>1 DEF Tick, TypeOK, Sorted
  <2> QED
    BY <2>1, <2>2
<1>2. ASSUME NEW r \in Requests, TokenAllow(r) PROVE TypeOK' /\ Sorted'
  <2>1. buckets' \in [Keys -> Nat \cup {Nothing}]
    BY <1>2 DEF TokenAllow, TypeOK, Nothing, Keys
  <2> QED
    BY <1>2, <2>1, PassLogs, PassSorted DEF TokenAllow, TypeOK
<1>3. ASSUME NEW r \in Requests, LeakyFind(r) PROVE TypeOK' /\ Sorted'
  BY <1>3, KeyTyped, Constants DEF LeakyFind, TypeOK, Sorted
<1>4. ASSUME NEW r \in Requests, LeakyAllow(r) PROVE TypeOK' /\ Sorted'
  <2>1. CASE Abort(r) /\ UNCHANGED buckets
    BY <1>4, <2>1 DEF LeakyAllow, Abort, TypeOK, Sorted
  <2>2. CASE /\ Pass(r) /\ buckets[KeyOf(r)] > 0
             /\ buckets' = [buckets EXCEPT ![KeyOf(r)] = @ - 1]
    <3>1. buckets' \in [Keys -> Nat \cup {Nothing}]
      BY <2>2, KeyTyped DEF TypeOK, Nothing
    <3> QED
      BY <1>4, <2>2, <3>1, PassLogs, PassSorted DEF LeakyAllow, TypeOK
  <2> QED
    BY <1>4, <2>1, <2>2 DEF LeakyAllow
<1>5. ASSUME NEW r \in Requests, WindowAllow(r) PROVE TypeOK' /\ Sorted'
  <2>1. CASE Abort(r) /\ UNCHANGED records
    BY <1>5, <2>1 DEF WindowAllow, Abort, TypeOK, Sorted
  <2>2. CASE /\ Pass(r)
             /\ records' = [records EXCEPT ![KeyOf(r)] =
                               Valid(KeyOf(r)) \cup {Len(log[KeyOf(r)]) + 1}]
    <3>1. records' \in [Keys -> SUBSET Nat]
      <4>1. Valid(KeyOf(r)) \subseteq Nat /\ Len(log[KeyOf(r)]) + 1 \in Nat
        BY KeyTyped DEF TypeOK, Valid
      <4> QED
        BY <2>2, <4>1 DEF TypeOK
    <3> QED
      BY <1>5, <2>2, <3>1, PassLogs, PassSorted DEF WindowAllow, TypeOK
  <2> QED
    BY <1>5, <2>1, <2>2 DEF WindowAllow
<1>6. CASE UNCHANGED vars
  BY <1>6 DEF vars, TypeOK, Sorted
<1> QED
  BY <1>1, <1>2, <1>3, <1>4, <1>5, <1>6 DEF Next, AllowWithKey

-------------------------------------------------------------------------------
(* The sliding window *)

\* A request is let through: had the grant Limit before it been younger than the
\* window, that one and all after it would be remembered, Limit of them.
LEMMA WindowPass ==
    ASSUME WindowInv, NEW r \in Requests, kind = "window",
           Cardinality(Valid(KeyOf(r))) < Limit,
           records' = [records EXCEPT ![KeyOf(r)] =
                          Valid(KeyOf(r)) \cup {Len(log[KeyOf(r)]) + 1}],
           Pass(r), UNCHANGED <<kind, by, now, buckets>>
    PROVE  Remembered' /\ WindowBound'
<1> DEFINE k == KeyOf(r)
           n == Len(log[k])
<1>k. k \in Keys /\ n \in Nat /\ log[k] \in Seq(Nat)
  BY KeyTyped DEF WindowInv, TypeOK
<1>n. Limit \in Nat /\ Window \in Nat /\ now \in Nat
  BY Constants DEF WindowInv, TypeOK
<1>v. Valid(k) \subseteq 1..n /\ Valid(k) = {i \in 1..n : log[k][i] > now - Window}
  BY <1>k, <1>n DEF WindowInv, Remembered, Valid, TypeOK
<1>f. IsFiniteSet(Valid(k))
  <2>1. IsFiniteSet(1..n)
    BY <1>k, FS_Interval
  <2> QED
    BY <2>1, <1>v, FS_Subset
<1>r. records'[k] = Valid(k) \cup {n + 1} /\ \A q \in Keys \ {k} : records'[q] = records[q]
  BY <1>k DEF WindowInv, TypeOK
<1>l. /\ Len(log'[k]) = n + 1 /\ log'[k][n + 1] = now
      /\ \A i \in 1..n : log'[k][i] = log[k][i]
      /\ \A q \in Keys \ {k} : log'[q] = log[q]
  BY PassLogs DEF WindowInv
<1>1. Remembered'
  <2> SUFFICES ASSUME NEW q \in Keys
               PROVE  /\ records'[q] \subseteq 1..Len(log'[q])
                      /\ \A i \in (1..Len(log'[q])) \ records'[q] : log'[q][i] <= now - Window
    BY DEF Remembered
  <2>1. CASE q # k
    BY <2>1, <1>r, <1>l DEF WindowInv, Remembered
  <2>2. CASE q = k
    <3>1. records'[k] \subseteq 1..(n + 1)
      BY <1>r, <1>v, <1>k
    <3>2. ASSUME NEW i \in 1..(n + 1), i \notin records'[k]
          PROVE  log'[k][i] <= now - Window
      <4>1. i \in 1..n /\ i \notin Valid(k)
        BY <3>2, <1>r, <1>k
      <4>2. log[k][i] \in Nat /\ log'[k][i] = log[k][i]
        BY <4>1, <1>k, <1>l
      <4> QED
        BY <4>1, <4>2, <1>v, <1>n
    <3> QED
      BY <2>2, <3>1, <3>2, <1>l
  <2> QED
    BY <2>1, <2>2
<1>2. WindowBound'
  <2> SUFFICES ASSUME NEW q \in Keys, NEW i \in 1..Len(log'[q]), i + Limit <= Len(log'[q])
               PROVE  log'[q][i + Limit] - log'[q][i] >= Window
    BY DEF WindowBound
  <2>1. CASE q # k
    BY <2>1, <1>l DEF WindowInv, WindowBound
  <2>2. CASE q = k /\ i + Limit <= n
    <3>1. i \in 1..n /\ i + Limit \in 1..n
      BY <2>2, <1>n, <1>k, <1>l
    <3> QED
      BY <3>1, <2>2, <1>l DEF WindowInv, WindowBound
  <2>3. CASE q = k /\ i + Limit = n + 1
    <3>1. Limit > 0
      <4>1. Cardinality(Valid(k)) \in Nat /\ Cardinality(Valid(k)) < Limit
        BY <1>f, FS_CardinalityType
      <4> QED
        BY <4>1, <1>n
    <3>2. i \in 1..n /\ log[k][i] \in Nat
      BY <2>3, <3>1, <1>k, <1>n
    <3>3. log[k][i] <= now - Window
      <4> SUFFICES ASSUME log[k][i] > now - Window PROVE FALSE
        BY <3>2, <1>n
      <4>1. ASSUME NEW j \in i..n PROVE j \in Valid(k)
        <5>1. j \in 1..n /\ i <= j /\ log[k][j] \in Nat
          BY <3>2, <1>k
        <5>2. log[k][i] <= log[k][j]
          BY <5>1, <3>2, <1>k DEF WindowInv, Sorted
        <5> QED
          BY <5>1, <5>2, <3>2, <1>n, <1>v
      <4>2. i..n \subseteq Valid(k)
        BY <4>1
      <4>3. Cardinality(i..n) <= Cardinality(Valid(k))
        BY <4>2, <1>f, FS_Subset
      <4>4. i \in Int /\ n \in Int /\ i <= n /\ n - i + 1 = Limit
        BY <2>3, <3>2, <1>k, <1>n
      <4>5. Cardinality(i..n) = Limit
        <5>1. Cardinality(i..n) = IF i > n THEN 0 ELSE n - i + 1
          BY <4>4, FS_Interval
        <5> QED
          BY <4>4, <5>1
      <4>6. Cardinality(Valid(k)) \in Nat /\ Cardinality(Valid(k)) < Limit
        BY <1>f, FS_CardinalityType
      <4> QED
        BY <4>3, <4>5, <4>6, <1>n
    <3>4. log'[k][i] = log[k][i] /\ log'[k][i + Limit] = now
      BY <2>3, <3>2, <1>l
    <3> QED
      BY <2>3, <3>2, <3>3, <3>4, <1>n
  <2> QED
    BY <2>1, <2>2, <2>3, <1>l, <1>k, <1>n
<1> QED
  BY <1>1, <1>2

LEMMA WindowStep == WindowInv /\ [Next]_vars => WindowInv'
<1> SUFFICES ASSUME WindowInv, [Next]_vars PROVE Remembered' /\ WindowBound'
  BY BaseStep DEF WindowInv
<1>1. CASE Tick
  <2> SUFFICES ASSUME kind = "window" PROVE Remembered'
    BY <1>1 DEF Tick, WindowInv, WindowBound, Remembered
  <2>1. \A k \in Keys : \A i \in 1..Len(log[k]) : log[k][i] \in Nat
    BY DEF WindowInv, TypeOK
  <2> QED
    BY <1>1, <2>1, Constants DEF Tick, WindowInv, TypeOK, Remembered
<1>2. ASSUME NEW r \in Requests, kind # "window", kind' = kind
      PROVE  Remembered' /\ WindowBound'
  BY <1>2 DEF Remembered, WindowBound
<1>3. ASSUME NEW r \in Requests, WindowAllow(r) PROVE Remembered' /\ WindowBound'
  <2>1. CASE /\ Cardinality(Valid(KeyOf(r))) < Limit /\ Pass(r)
             /\ records' = [records EXCEPT ![KeyOf(r)] =
                               Valid(KeyOf(r)) \cup {Len(log[KeyOf(r)]) + 1}]
    <3>1. kind = "window" /\ UNCHANGED <<kind, by, now, buckets>>
      BY <1>3 DEF WindowAllow
    <3> QED
      BY <2>1, <3>1, WindowPass
  <2>2. CASE Abort(r) /\ UNCHANGED records
    BY <1>3, <2>2 DEF WindowAllow, Abort, WindowInv, Remembered, WindowBound
  <2> QED
    BY <1>3, <2>1, <2>2 DEF WindowAllow
<1>4. CASE UNCHANGED vars
  BY <1>4 DEF vars, WindowInv, Remembered, WindowBound
<1> QED
  BY <1>1, <1>2, <1>3, <1>4 DEF Next, AllowWithKey, TokenAllow, LeakyFind, LeakyAllow

\* No time as long as the window has more than Limit grants of one key.
THEOREM WindowKept == Spec => []WindowBound
<1>1. Init => WindowInv
  <2> SUFFICES ASSUME Init PROVE Remembered /\ WindowBound
    BY BaseInit DEF WindowInv
  <2>1. \A k \in Keys : Len(log[k]) = 0 /\ records[k] = {}
    BY DEF Init
  <2> QED
    BY <2>1 DEF Remembered, WindowBound
<1>2. WindowInv => WindowBound
  BY DEF WindowInv
<1> QED
  BY <1>1, <1>2, WindowStep, PTL DEF Spec

-------------------------------------------------------------------------------
(* The buckets *)

LEMMA RateTimes ==
    ASSUME NEW t \in Nat
    PROVE  Rate * t \in Nat /\ Rate * (t + 1) = Rate * t + Rate
<1>1. Rate \in Nat
  BY Constants
<1> QED
  BY <1>1

\* A token is taken: it was in the bucket, so the balance had room for one more.
LEMMA BucketPass ==
    ASSUME BucketInv, NEW r \in Requests, kind # "window", buckets[KeyOf(r)] > 0,
           buckets' = [buckets EXCEPT ![KeyOf(r)] = @ - 1],
           Pass(r), UNCHANGED <<kind, now>>
    PROVE  Balance' /\ BucketBound'
<1> DEFINE k == KeyOf(r)
           n == Len(log[k])
<1>k. k \in Keys /\ n \in Nat /\ log[k] \in Seq(Nat) /\ now \in Nat
  BY KeyTyped DEF BucketInv, TypeOK
<1>n. Capacity \in Nat /\ Rate \in Nat /\ Capacity' = Capacity
  BY Constants DEF Capacity
<1>b. /\ buckets[k] \in Nat /\ buckets[k] <= Capacity /\ buckets'[k] = buckets[k] - 1
      /\ \A q \in Keys \ {k} : buckets'[q] = buckets[q]
  BY <1>k DEF BucketInv, TypeOK, Balance, Nothing
<1>l. /\ Len(log'[k]) = n + 1 /\ log'[k][n + 1] = now
      /\ \A i \in 1..n : log'[k][i] = log[k][i]
      /\ \A q \in Keys \ {k} : log'[q] = log[q]
  BY PassLogs DEF BucketInv
<1>t. \A i \in 1..n : log[k][i] \in Nat /\ now - log[k][i] \in Nat
  BY <1>k DEF BucketInv, Sorted
<1>e. \A i \in 1..n : /\ Rate * (now - log[k][i]) \in Nat
                       /\ buckets[k] + (n - i + 1) <= Capacity + Rate * (now - log[k][i])
  BY <1>t, <1>k, RateTimes DEF BucketInv, Balance
<1>z. Rate * (now - now) = 0
  BY <1>n, <1>k
<1>1. Balance'
  <2> SUFFICES ASSUME NEW q \in Keys
               PROVE  /\ buckets'[q] <= Capacity
                      /\ buckets'[q] = Nothing => log'[q] = <<>>
                      /\ \A i \in 1..Len(log'[q]) :
                            buckets'[q] + (Len(log'[q]) - i + 1)
                                <= Capacity + Rate * (now - log'[q][i])
    BY <1>n DEF Balance
  <2>1. CASE q # k
    BY <2>1, <1>b, <1>l DEF BucketInv, Balance
  <2>2. CASE q = k
    <3>1. buckets'[k] <= Capacity /\ buckets'[k] # Nothing
      BY <1>b, <1>n DEF Nothing
    <3>2. ASSUME NEW i \in 1..n
          PROVE  buckets'[k] + ((n + 1) - i + 1) <= Capacity + Rate * (now - log'[k][i])
      <4>1. log'[k][i] = log[k][i]
        BY <1>l
      <4>2. buckets[k] + (n - i + 1) <= Capacity + Rate * (now - log'[k][i])
        BY <4>1, <1>e
      <4>3. buckets'[k] + ((n + 1) - i + 1) = buckets[k] + (n - i + 1)
        BY <1>b, <1>k
      <4> QED
        BY <4>2, <4>3
    <3>3. buckets'[k] + ((n + 1) - (n + 1) + 1) <= Capacity + Rate * (now - log'[k][n + 1])
      BY <1>b, <1>n, <1>l, <1>k, <1>z
    <3>4. 1..(n + 1) = 1..n \cup {n + 1}
      BY <1>k
    <3> QED
      BY <2>2, <3>1, <3>2, <3>3, <3>4, <1>l
  <2> QED
    BY <2>1, <2>2
<1>2. BucketBound'
  <2> SUFFICES ASSUME NEW q \in Keys,
                      NEW i \in 1..Len(log'[q]), NEW j \in 1..Len(log'[q]), i <= j
               PROVE  j - i + 1 <= Capacity + Rate * (log'[q][j] - log'[q][i])
    BY <1>n DEF BucketBound
  <2>1. CASE q # k
    BY <2>1, <1>l DEF BucketInv, BucketBound
  <2>2. CASE q = k /\ j <= n
    <3>1. i \in 1..n /\ j \in 1..n
      BY <2>2, <1>k, <1>l
    <3> QED
      BY <2>2, <3>1, <1>l DEF BucketInv, BucketBound
  <2>3. CASE q = k /\ j = n + 1 /\ i <= n
    <3>1. i \in 1..n /\ log'[k][i] = log[k][i] /\ log'[k][j] = now
      BY <2>3, <1>k, <1>l
    <3>2. buckets[k] + (n - i + 1) <= Capacity + Rate * (log'[k][j] - log'[k][i])
      BY <3>1, <1>e
    <3>3. Rate * (log'[k][j] - log'[k][i]) \in Nat
      BY <3>1, <1>e
    <3>4. buckets[k] >= 1
      BY <1>b
    <3> DEFINE x == Rate * (log'[k][j] - log'[k][i])
    <3>5. x \in Nat /\ buckets[k] + (n - i + 1) <= Capacity + x
      BY <3>2, <3>3
    <3>6. buckets[k] \in Nat /\ i \in Nat /\ n \in Nat /\ Capacity \in Nat
      BY <3>1, <1>b, <1>n, <1>k
    <3> HIDE DEF k, n, x
    <3>7. (n + 1) - i + 1 <= Capacity + x
      BY <3>4, <3>5, <3>6
    <3> QED
      BY <2>3, <3>7 DEF x
  <2>4. CASE q = k /\ j = n + 1 /\ i = n + 1
    <3>1. Rate * (log'[k][j] - log'[k][i]) = 0
      BY <2>4, <1>l, <1>z
    <3>2. 1 <= Capacity
      BY <1>b, <1>n
    <3>3. j - i + 1 = 1
      BY <2>4, <1>k
    <3> QED
      BY <2>4, <3>1, <3>2, <3>3, <1>n
  <2> QED
    BY <2>1, <2>2, <2>3, <2>4, <1>l, <1>k
<1> QED
  BY <1>1, <1>2

LEMMA BucketStep == BucketInv /\ [Next]_vars => BucketInv'
<1> SUFFICES ASSUME BucketInv, [Next]_vars PROVE Balance' /\ BucketBound'
  BY BaseStep DEF BucketInv
<1>n. Capacity \in Nat /\ Rate \in Nat /\ now \in Nat
  BY Constants DEF BucketInv, TypeOK
<1>1. CASE Tick
  <2> SUFFICES ASSUME kind # "window" PROVE Balance'
    BY <1>1 DEF Tick, BucketInv, BucketBound, Balance, Capacity
  <2>1. ASSUME NEW k \in Keys
        PROVE  /\ Earned(k) <= Capacity
               /\ Earned(k) = Nothing => buckets[k] = Nothing
               /\ buckets[k] # Nothing => Earned(k) <= buckets[k] + Rate
    BY <1>n DEF Earned, BucketInv, TypeOK, Balance, Nothing
  <2>2. ASSUME NEW k \in Keys, NEW i \in 1..Len(log[k])
        PROVE  Earned(k) + (Len(log[k]) - i + 1) <= Capacity + Rate * ((now + 1) - log[k][i])
    <3>1. log[k] # <<>> /\ Len(log[k]) \in Nat /\ log[k][i] \in Nat
      BY DEF BucketInv, TypeOK
    <3>2. buckets[k] \in Nat
      BY <3>1 DEF BucketInv, Balance, TypeOK
    <3>3. log[k][i] <= now
      BY DEF BucketInv, Sorted
    <3>4. now - log[k][i] \in Nat /\ (now + 1) - log[k][i] = (now - log[k][i]) + 1
      BY <3>1, <3>3, <1>n
    <3>5. /\ Rate * (now - log[k][i]) \in Nat
          /\ Rate * ((now + 1) - log[k][i]) = Rate * (now - log[k][i]) + Rate
      BY <3>4, RateTimes
    <3>6. buckets[k] + (Len(log[k]) - i + 1) <= Capacity + Rate * (now - log[k][i])
      BY DEF BucketInv, Balance
    <3>7. Earned(k) \in Nat /\ Earned(k) <= buckets[k] + Rate
      BY <2>1, <3>2, <1>n DEF Earned, Nothing
    <3>8. Len(log[k]) - i + 1 \in Nat
      BY <3>1
    <3> DEFINE x == Rate * (now - log[k][i])
               m == Len(log[k]) - i + 1
               e == Earned(k)
    <3>9. /\ x \in Nat /\ m \in Nat /\ e \in Nat
          /\ buckets[k] + m <= Capacity + x /\ e <= buckets[k] + Rate
      BY <3>5, <3>6, <3>7, <3>8
    <3> HIDE DEF x, m, e
    <3>10. e + m <= Capacity + (x + Rate)
      BY <3>2, <3>9, <1>n
    <3> QED
      BY <3>5, <3>10 DEF x, m, e
  <2>3. /\ Capacity' = Capacity /\ log' = log /\ now' = now + 1
        /\ \A k \in Keys : buckets'[k] = Earned(k)
    BY <1>1 DEF Tick, Capacity
  <2>4. \A k \in Keys : buckets[k] = Nothing => log[k] = <<>>
    BY DEF BucketInv, Balance
  <2> QED
    BY <2>1, <2>2, <2>3, <2>4 DEF Balance
<1>2. ASSUME NEW r \in Requests, TokenAllow(r) PROVE Balance' /\ BucketBound'
  <2>1. KeyOf(r) = Shared
    BY <1>2 DEF TokenAllow, KeyOf
  <2> QED
    BY <1>2, <2>1, BucketPass DEF TokenAllow
<1>3. ASSUME NEW r \in Requests, LeakyFind(r) PROVE Balance' /\ BucketBound'
  <2>1. Capacity = Burst /\ Capacity' = Capacity
    BY <1>3 DEF LeakyFind, Capacity
  <2>2. BucketBound'
    BY <1>3, <2>1 DEF LeakyFind, BucketInv, BucketBound
  <2>3. ASSUME NEW k \in Keys
        PROVE  buckets'[k] = buckets[k] \/ (buckets[k] = Nothing /\ buckets'[k] = Capacity)
    BY <1>3, <2>1 DEF LeakyFind, BucketInv, TypeOK
  <2>4. Balance'
    <3> SUFFICES ASSUME NEW k \in Keys
                 PROVE  /\ buckets'[k] <= Capacity
                        /\ buckets'[k] = Nothing => log[k] = <<>>
                        /\ \A i \in 1..Len(log[k]) :
                              buckets'[k] + (Len(log[k]) - i + 1)
                                  <= Capacity + Rate * (now - log[k][i])
      BY <1>3, <2>1 DEF LeakyFind, Balance
    <3>1. CASE buckets'[k] = buckets[k]
      BY <1>3, <3>1 DEF LeakyFind, BucketInv, Balance
    <3>2. CASE buckets[k] = Nothing /\ buckets'[k] = Capacity
      BY <1>3, <3>2, <1>n DEF LeakyFind, BucketInv, Balance
    <3> QED
      BY <2>3, <3>1, <3>2
  <2> QED
    BY <2>2, <2>4
<1>4. ASSUME NEW r \in Requests, LeakyAllow(r) PROVE Balance' /\ BucketBound'
  <2>1. CASE Abort(r) /\ UNCHANGED buckets
    BY <1>4, <2>1 DEF LeakyAllow, Abort, BucketInv, Balance, BucketBound, Capacity
  <2>2. CASE /\ Pass(r) /\ buckets[KeyOf(r)] > 0
             /\ buckets' = [buckets EXCEPT ![KeyOf(r)] = @ - 1]
    BY <1>4, <2>2, BucketPass DEF LeakyAllow
  <2> QED
    BY <1>4, <2>1, <2>2 DEF LeakyAllow
<1>5. ASSUME NEW r \in Requests, WindowAllow(r) PROVE Balance' /\ BucketBound'
  BY <1>5 DEF WindowAllow, Balance, BucketBound
<1>6. CASE UNCHANGED vars
  BY <1>6 DEF vars, BucketInv, Balance, BucketBound, Capacity
<1> QED
  BY <1>1, <1>2, <1>3, <1>4, <1>5, <1>6 DEF Next, AllowWithKey

\* From any grant of a bucket to any later one there are no more of them than the
\* bucket holds and has earned in between.
THEOREM BucketsKept == Spec => []BucketBound
<1>1. Init => BucketInv
  <2> SUFFICES ASSUME Init PROVE Balance /\ BucketBound
    BY BaseInit DEF BucketInv
  <2>1. \A k \in Keys : log[k] = <<>> /\ Len(log[k]) = 0 /\ buckets[k] <= Capacity
    BY Constants, LimitersAssumption DEF Init, Capacity, Nothing
  <2> QED
    BY <2>1 DEF Balance, BucketBound
<1>2. BucketInv => BucketBound
  BY DEF BucketInv
<1> QED
  BY <1>1, <1>2, BucketStep, PTL DEF Spec
-------------------------------------------------------------------------------
(* Refusals *)

\* The grants since a time are among those of the log: there are finitely many.
LEMMA GrantsCounted ==
    ASSUME TypeOK, NEW k \in Keys, NEW t \in Int
    PROVE  /\ IsFiniteSet({i \in 1..Len(log[k]) : log[k][i] >= t})
           /\ GrantsSince(k, t) \in Nat
<1>1. Len(log[k]) \in Nat
  BY DEF TypeOK
<1>2. IsFiniteSet(1..Len(log[k]))
  BY <1>1, FS_Interval
<1>3. {i \in 1..Len(log[k]) : log[k][i] >= t} \subseteq 1..Len(log[k])
  OBVIOUS
<1>4. IsFiniteSet({i \in 1..Len(log[k]) : log[k][i] >= t})
  BY <1>2, <1>3, FS_Subset
<1> QED
  BY <1>4, FS_CardinalityType DEF GrantsSince

LEMMA GrantsTyped == TypeOK => \A k \in Keys : \A t \in Int : GrantsSince(k, t) \in Nat
BY GrantsCounted

\* A grant is one more since any time that has come.
LEMMA PassCounts ==
    ASSUME TypeOK, NEW r \in Requests, Pass(r), NEW k \in Keys, k = KeyOf(r),
           NEW t \in 0..now
    PROVE  GrantsSince(k, t)' = GrantsSince(k, t) + 1
<1> DEFINE n == Len(log[k])
           Old == {i \in 1..n : log[k][i] >= t}
           New == {i \in 1..Len(log'[k]) : log'[k][i] >= t}
<1>1. n \in Nat /\ now \in Nat /\ t \in Int /\ t <= now
  BY DEF TypeOK
<1>2. /\ Len(log'[k]) = n + 1 /\ log'[k][n + 1] = now
      /\ \A i \in 1..n : log'[k][i] = log[k][i]
  BY PassLogs
<1>3. New = Old \cup {n + 1} /\ n + 1 \notin Old
  <2>1. 1..(n + 1) = 1..n \cup {n + 1} /\ n + 1 \notin 1..n
    BY <1>1
  <2> HIDE DEF n
  <2> QED
    BY <1>1, <1>2, <2>1
<1>4. IsFiniteSet(Old) /\ GrantsSince(k, t) = Cardinality(Old)
  BY <1>1, GrantsCounted DEF GrantsSince
<1>5. Cardinality(New) = Cardinality(Old) + 1
  <2> HIDE DEF Old, New
  <2> QED
    BY <1>3, <1>4, FS_AddElement
<1>6. GrantsSince(k, t)' = Cardinality(New)
  BY DEF GrantsSince
<1> QED
  BY <1>4, <1>5, <1>6
\* A bucket that is full has spent nothing since now.
FullUnspent == \A k \in Keys : buckets[k] = Burst => SpentBy(k)

LEMMA FullSpent == TypeOK => FullUnspent
<1> SUFFICES ASSUME TypeOK, NEW k \in Keys, buckets[k] = Burst PROVE SpentBy(k)
  BY DEF FullUnspent
<1>1. now \in Int /\ now \in 0..now /\ Burst \in Nat /\ Rate * (now - now) = 0
  BY Constants DEF TypeOK
<1>2. PICK g \in Nat : g = GrantsSince(k, now)
  BY <1>1, GrantsTyped
<1>3. g + Burst >= Burst + Rate * (now - now)
  BY <1>1, <1>2
<1> QED
  BY <1>1, <1>2, <1>3 DEF SpentBy

LEMMA FullSpentNext == TypeOK' => FullUnspent'
BY FullSpent, PTL

LEMMA AddBoth ==
    ASSUME NEW g \in Nat, NEW b \in Nat, NEW c \in Nat, NEW x \in Nat, NEW y \in Nat,
           g + b >= c + x
    PROVE  g + (b + y) >= c + (x + y)
OBVIOUS

\* A token that is taken is a grant; a tick earns what it may.
LEMMA SpentStep == TypeOK /\ Sorted /\ Spent /\ [Next]_vars => Spent'
<1> SUFFICES ASSUME TypeOK, Sorted, Spent, [Next]_vars, kind' = "leaky",
                    NEW k \in Keys, buckets'[k] # Nothing
             PROVE  SpentBy(k)'
  BY DEF Spent
<1>0. kind = "leaky" /\ TypeOK' /\ (buckets[k] # Nothing => SpentBy(k))
  BY BaseStep DEF Next, vars, Tick, AllowWithKey, TokenAllow, LeakyFind, LeakyAllow,
                  WindowAllow, Spent
<1>n. now \in Nat /\ Burst \in Nat /\ Rate \in Nat /\ buckets[k] \in Nat \cup {Nothing}
  BY Constants DEF TypeOK
<1>1. CASE Tick
  <2>1. /\ buckets'[k] = Earned(k) /\ now' = now + 1 /\ log' = log
        /\ Capacity = Burst
    BY <1>1, <1>0 DEF Tick, Capacity
  <2>2. CASE buckets'[k] = Burst
    BY <2>2, <1>0, FullSpentNext DEF FullUnspent
  <2>3. CASE buckets'[k] # Burst
    <3>1. buckets[k] \in Nat /\ buckets'[k] = buckets[k] + Rate
      BY <2>1, <2>3, <1>n DEF Earned, Nothing
    <3>2. PICK t \in 0..now : GrantsSince(k, t) + buckets[k] >= Burst + Rate * (now - t)
      BY <3>1, <1>0 DEF SpentBy, Nothing
    <3>3. GrantsSince(k, t)' = GrantsSince(k, t)
      BY <2>1 DEF GrantsSince
    <3>4. t \in 0..now' /\ now - t \in Nat /\ now' - t = (now - t) + 1
      BY <2>1, <1>n
    <3>5. Rate * (now - t) \in Nat /\ Rate * (now' - t) = Rate * (now - t) + Rate
      BY <3>4, RateTimes
    <3>6. GrantsSince(k, t) \in Nat
      BY GrantsTyped
    <3>7. GrantsSince(k, t) + buckets'[k] >= Burst + Rate * (now' - t)
      BY <3>1, <3>2, <3>5, <3>6, <1>n, AddBoth
    <3> QED
      BY <3>3, <3>4, <3>7 DEF SpentBy
  <2> QED
    BY <2>2, <2>3
<1>2. ASSUME NEW r \in Requests, LeakyFind(r) PROVE SpentBy(k)'
  <2>1. now' = now /\ log' = log /\ \/ buckets'[k] = buckets[k] \/ buckets'[k] = Burst
    BY <1>2 DEF LeakyFind, TypeOK
  <2>2. CASE buckets'[k] = Burst
    BY <2>2, <1>0, FullSpentNext DEF FullUnspent
  <2>3. CASE buckets'[k] = buckets[k]
    BY <2>1, <2>3, <1>0 DEF SpentBy, GrantsSince
  <2> QED
    BY <2>1, <2>2, <2>3
<1>3. ASSUME NEW r \in Requests, LeakyAllow(r) PROVE SpentBy(k)'
  <2>1. CASE Abort(r) /\ UNCHANGED buckets
    BY <1>3, <2>1, <1>0 DEF LeakyAllow, Abort, SpentBy, GrantsSince
  <2>2. CASE /\ Pass(r) /\ buckets[KeyOf(r)] > 0
             /\ buckets' = [buckets EXCEPT ![KeyOf(r)] = @ - 1]
    <3>1. CASE k # KeyOf(r)
      <4>1. buckets'[k] = buckets[k] /\ log'[k] = log[k] /\ now' = now
        BY <1>3, <2>2, <3>1, PassLogs DEF LeakyAllow, TypeOK
      <4>2. \A t : GrantsSince(k, t)' = GrantsSince(k, t)
        BY <4>1 DEF GrantsSince
      <4> QED
        BY <4>1, <4>2, <1>0 DEF SpentBy
    <3>2. CASE k = KeyOf(r)
      <4>1. now' = now /\ buckets[k] \in Nat /\ buckets'[k] = buckets[k] - 1
        BY <1>3, <2>2, <3>2, <1>n DEF LeakyAllow, TypeOK, Nothing
      <4>2. PICK t \in 0..now : GrantsSince(k, t) + buckets[k] >= Burst + Rate * (now - t)
        BY <4>1, <1>0 DEF SpentBy, Nothing
      <4>3. GrantsSince(k, t)' = GrantsSince(k, t) + 1 /\ GrantsSince(k, t) \in Nat
        BY <2>2, <3>2, PassCounts, GrantsTyped
      <4>4. (GrantsSince(k, t) + 1) + buckets'[k] >= Burst + Rate * (now - t)
        <5>1. (GrantsSince(k, t) + 1) + buckets'[k] = GrantsSince(k, t) + buckets[k]
          BY <4>1, <4>3
        <5> QED
          BY <5>1, <4>2
      <4> QED
        BY <4>1, <4>3, <4>4 DEF SpentBy
    <3> QED
      BY <3>1, <3>2
  <2> QED
    BY <1>3, <2>1, <2>2 DEF LeakyAllow
<1>4. CASE UNCHANGED vars
  BY <1>4, <1>0 DEF vars, SpentBy, GrantsSince
<1>5. ASSUME NEW r \in Requests, TokenAllow(r) \/ WindowAllow(r) PROVE FALSE
  BY <1>5, <1>0 DEF TokenAllow, WindowAllow
<1> QED
  BY <1>1, <1>2, <1>3, <1>4, <1>5 DEF Next, AllowWithKey
\* A window that refuses remembers only grants that are younger than it.
LEMMA WindowCause ==
    ASSUME TypeOK, Remembered, NEW r \in Requests, WindowAllow(r), Abort(r),
           Cardinality(Valid(KeyOf(r))) >= Limit
    PROVE  GrantsSince(KeyOf(r), now - Window + 1) >= Limit
<1> DEFINE k == KeyOf(r)
           t == now - Window + 1
           Young == {i \in 1..Len(log[k]) : log[k][i] >= t}
<1>1. k \in Keys /\ now \in Nat /\ Window \in Nat /\ Limit \in Nat /\ t \in Int /\ log[k] \in Seq(Nat)
  BY KeyTyped, Constants DEF TypeOK
<1>2. Valid(k) \subseteq Young
  <2>1. records[k] \subseteq 1..Len(log[k])
    BY <1>1 DEF WindowAllow, Remembered
  <2> SUFFICES ASSUME NEW i \in records[k], log[k][i] > now - Window PROVE i \in Young
    BY DEF Valid
  <2>2. i \in 1..Len(log[k]) /\ log[k][i] \in Nat
    BY <2>1, <1>1
  <2> QED
    BY <2>2, <1>1
<1>3. IsFiniteSet(Young)
  BY <1>1, GrantsCounted
<1>4. /\ Cardinality(Valid(k)) <= Cardinality(Young)
      /\ Cardinality(Valid(k)) \in Nat /\ Cardinality(Young) \in Nat
  BY <1>2, <1>3, FS_Subset, FS_CardinalityType
<1> QED
  BY <1>1, <1>4 DEF GrantsSince

\* A step that refuses has a cause.
LEMMA RefusalStep ==
    ASSUME CauseInv, [Next]_vars, NEW r \in Requests, at'[r] = "refused", at[r] # "refused"
    PROVE  IF kind = "window" THEN GrantsSince(KeyOf(r), now - Window + 1) >= Limit
           ELSE \E t \in 0..now : GrantsSince(KeyOf(r), t) >= Burst + Rate * (now - t)
<1>1. PICK q \in Requests : AllowWithKey(q)
  BY DEF Next, Tick, vars
<1>2. CASE WindowAllow(q)
  <2>1. q = r /\ Abort(r) /\ Cardinality(Valid(KeyOf(r))) >= Limit
    BY <1>2 DEF WindowAllow, Pass, Abort, CauseInv, TypeOK
  <2> QED
    BY <1>2, <2>1, WindowCause DEF CauseInv, WindowAllow
<1>3. CASE LeakyAllow(q)
  <2>1. q = r /\ buckets[KeyOf(r)] = 0 /\ kind = "leaky"
    BY <1>3 DEF LeakyAllow, Pass, Abort, CauseInv, TypeOK
  <2>2. PICK t \in 0..now :
            GrantsSince(KeyOf(r), t) + buckets[KeyOf(r)] >= Burst + Rate * (now - t)
    BY <2>1, KeyTyped DEF CauseInv, Spent, SpentBy, Nothing
  <2>3. PICK g \in Nat : g = GrantsSince(KeyOf(r), t)
    BY KeyTyped, GrantsTyped DEF CauseInv, TypeOK
  <2>4. g + 0 = g
    BY <2>3
  <2> QED
    BY <2>1, <2>2, <2>3, <2>4
<1>4. CASE TokenAllow(q) \/ LeakyFind(q)
  BY <1>4 DEF TokenAllow, LeakyFind, Pass, CauseInv, TypeOK
<1> QED
  BY <1>1, <1>2, <1>3, <1>4 DEF AllowWithKey

LEMMA CauseStep == CauseInv /\ [Next]_vars => CauseInv'
BY WindowStep, SpentStep DEF CauseInv, WindowInv

\* A request is refused only for grants that its key has had.
THEOREM RefusalsCaused == Spec => RefusedForCause
<1>1. Init => CauseInv
  <2> SUFFICES ASSUME Init PROVE Remembered /\ WindowBound /\ Spent
    BY BaseInit DEF CauseInv
  <2>1. \A k \in Keys : Len(log[k]) = 0 /\ records[k] = {}
    BY DEF Init
  <2>2. kind = "leaky" => \A k \in Keys : buckets[k] = Nothing
    BY DEF Init
  <2> QED
    BY <2>1, <2>2 DEF Remembered, WindowBound, Spent
<1>2. CauseInv /\ [Next]_vars =>
        [\A r \in Requests : at'[r] = "refused" /\ at[r] # "refused" =>
          IF kind = "window" THEN GrantsSince(KeyOf(r), now - Window + 1) >= Limit
          ELSE \E t \in 0..now : GrantsSince(KeyOf(r), t) >= Burst + Rate * (now - t)]_vars
  BY RefusalStep
<1> QED
  BY <1>1, <1>2, CauseStep, PTL DEF Spec, RefusedForCause
===============================================================================
