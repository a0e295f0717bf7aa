------------------------------- MODULE Limiters -------------------------------
(***************************************************************************)
(* internal/pkg/ratelimit/ratelimit.go: the three limiters that can stand  *)
(* behind RateLimitMiddlewareWithIP and RateLimitMiddlewareWithUser, and   *)
(* the key these find for a request.                                       *)
(*                                                                         *)
(* The sliding window asks and answers under one mutex; the leaky bucket   *)
(* finds the limiter of a key under its mutex and asks it after; the token *)
(* bucket is one for all keys and makes a request wait.  Take of           *)
(* go.uber.org/ratelimit and Allow of golang.org/x/time/rate are token     *)
(* buckets; a tick is a time in which a bucket earns whole tokens.         *)
(***************************************************************************)
EXTENDS Integers, FiniteSets, Sequences

CONSTANTS
    Requests,
    Names,       \* addresses and user ids
    Blank,       \* an absent header, an empty address: the empty string
    Anonymous,   \* the user of a request that names none
    Shared,      \* the one bucket of TokenBucketLimiter
    Header,      \* what each request carries under each of HeaderNames
    RemoteAddr,  \* host and port each request comes from
    Limit, Window,       \* SlidingWindowLimiter
    Rate,                \* tokens a tick earns
    Burst, Slack,        \* tokens a leaky bucket holds; a token bucket holds one more than Slack
    MaxTime              \* bound: ticks while no request waits

HeaderNames == {"X-Forwarded-For", "X-Real-IP", "User-ID"}
Keys == Names \cup {Blank, Anonymous, Shared}

ASSUME LimitersAssumption ==
    /\ Shared \notin Names \cup {Blank, Anonymous}
    /\ Header \in [Requests -> [HeaderNames -> Names \cup {Blank}]]
    /\ RemoteAddr \in [Requests -> [ip : Names \cup {Blank}, port : Nat]]
    /\ {Limit, Window, Rate, Burst, Slack, MaxTime} \subseteq Nat

VARIABLES
    kind,     \* the limiter in use
    by,       \* the middleware in use
    now,
    buckets,  \* tokens of each key's bucket, Nothing before it is made
    records,  \* the grants of each key that are remembered, by their number
    at,       \* where each request is
    log       \* history: the times of each key's grants

vars == <<kind, by, now, buckets, records, at, log>>

Nothing == -1

Capacity == IF kind = "token" THEN Slack + 1 ELSE Burst

Init ==
    /\ kind \in {"token", "leaky", "window"} /\ by \in {"ip", "user"}
    /\ now = 0
    /\ buckets = [k \in Keys |-> IF kind = "token" /\ k = Shared THEN 1 ELSE Nothing]
    /\ records = [k \in Keys |-> {}]
    /\ at = [r \in Requests |-> "off"]
    /\ log = [k \in Keys |-> <<>>]

-------------------------------------------------------------------------------
(* The key of a request *)

\* The port is cut off.
extractIP(addr) == addr.ip

IPOf(r) ==
    IF Header[r]["X-Forwarded-For"] # Blank THEN Header[r]["X-Forwarded-For"]
    ELSE IF Header[r]["X-Real-IP"] # Blank THEN Header[r]["X-Real-IP"]
    ELSE extractIP(RemoteAddr[r])

UserOf(r) == IF Header[r]["User-ID"] # Blank THEN Header[r]["User-ID"] ELSE Anonymous

\* TokenBucketLimiter ignores the key it is given.
KeyOf(r) == IF kind = "token" THEN Shared ELSE IF by = "ip" THEN IPOf(r) ELSE UserOf(r)

\* The handler goes on, or answers 429.
Pass(r) ==
    /\ at' = [at EXCEPT ![r] = "passed"]
    /\ log' = [log EXCEPT ![KeyOf(r)] = Append(@, now)]
Abort(r) == at' = [at EXCEPT ![r] = "refused"] /\ UNCHANGED log

-------------------------------------------------------------------------------
(* The limiters *)

\* TokenBucketLimiter: a request waits for its token, and is never refused.
TokenAllow(r) ==
    /\ kind = "token" /\ at[r] = "off" /\ buckets[Shared] > 0
    /\ buckets' = [buckets EXCEPT ![Shared] = @ - 1]
    /\ Pass(r)
    /\ UNCHANGED <<kind, by, now, records>>

\* (Mutant) a fresh bucket replaces the one that is there.
LeakyFind_Fresh(r) ==
    /\ kind = "leaky" /\ at[r] = "off"
    /\ buckets' = [buckets EXCEPT ![KeyOf(r)] = Burst]
    /\ at' = [at EXCEPT ![r] = "found"]
    /\ UNCHANGED <<kind, by, now, records, log>>

\* LeakyBucketLimiter: the bucket of the key is found, or made full ...
LeakyFind(r) ==
    /\ kind = "leaky" /\ at[r] = "off"
    /\ buckets' = [buckets EXCEPT ![KeyOf(r)] = IF @ = Nothing THEN Burst ELSE @]
    /\ at' = [at EXCEPT ![r] = "found"]
    /\ UNCHANGED <<kind, by, now, records, log>>

\* ... and asked, outside of the lock.
LeakyAllow(r) ==
    /\ kind = "leaky" /\ at[r] = "found"
    /\ \/ /\ buckets[KeyOf(r)] > 0
          /\ buckets' = [buckets EXCEPT ![KeyOf(r)] = @ - 1]
          /\ Pass(r)
       \/ /\ buckets[KeyOf(r)] = 0 /\ Abort(r)
          /\ UNCHANGED buckets
    /\ UNCHANGED <<kind, by, now, records>>

\* (Mutant) a record as old as the window is kept.
Valid_Inclusive(k) == {i \in records[k] : log[k][i] >= now - Window}

\* (Mutant) a record is dropped before it is as old as the window.
Valid_TooEarly(k) == {i \in records[k] : log[k][i] > now - Window + 1}

\* The records that are younger than the window.
Valid(k) == {i \in records[k] : log[k][i] > now - Window}

\* SlidingWindowLimiter: a refused request stores nothing, not even the records
\* without the old ones.
WindowAllow(r) ==
    /\ kind = "window" /\ at[r] = "off"
    /\ LET k == KeyOf(r) IN
       \/ /\ Cardinality(Valid(k)) < Limit
          /\ records' = [records EXCEPT ![k] = Valid(k) \cup {Len(log[k]) + 1}]
          /\ Pass(r)
       \/ /\ Cardinality(Valid(k)) >= Limit /\ Abort(r)
          /\ UNCHANGED records
    /\ UNCHANGED <<kind, by, now, buckets>>

Waiting == {r \in Requests : kind = "token" /\ at[r] = "off" /\ buckets[Shared] = 0}

Earned(k) ==
    IF buckets[k] = Nothing THEN Nothing
    ELSE IF buckets[k] + Rate <= Capacity THEN buckets[k] + Rate ELSE Capacity

Tick ==
    /\ now < MaxTime \/ Waiting # {}
    /\ now' = now + 1
    /\ buckets' = [k \in Keys |-> Earned(k)]
    /\ UNCHANGED <<kind, by, records, at, log>>

AllowWithKey(r) == TokenAllow(r) \/ LeakyFind(r) \/ LeakyAllow(r) \/ WindowAllow(r)

Next == Tick \/ \E r \in Requests : AllowWithKey(r)

Spec == Init /\ [][Next]_vars

-------------------------------------------------------------------------------
(* Properties *)

\* However requests fall on the edges of windows, no time as long as the window, its
\* end left out, has more than Limit grants of one key (SlidingWindowLimiter).
WindowBound ==
    kind = "window" => \A k \in Keys : \A i \in 1..Len(log[k]) :
        i + Limit <= Len(log[k]) => log[k][i + Limit] - log[k][i] >= Window

\* From any grant of a bucket to any later one there are no more of them than the
\* bucket holds and what it has earned in between, however first requests race
\* (LeakyBucketLimiter, TokenBucketLimiter).
BucketBound ==
    kind # "window" => \A k \in Keys : \A i, j \in 1..Len(log[k]) :
        i <= j => j - i + 1 <= Capacity + Rate * (log[k][j] - log[k][i])

GrantsSince(k, t) == Cardinality({i \in 1..Len(log[k]) : log[k][i] >= t})

\* A request is refused only for grants that its key has had: Limit of them younger
\* than the window, or all that the bucket could give since some time.
RefusedForCause ==
    [][\A r \in Requests : at'[r] = "refused" /\ at[r] # "refused" =>
          IF kind = "window" THEN GrantsSince(KeyOf(r), now - Window + 1) >= Limit
          ELSE \E t \in 0..now : GrantsSince(KeyOf(r), t) >= Burst + Rate * (now - t)]_vars
===============================================================================
