---------------------------- MODULE PipelineProofs ----------------------------
(***************************************************************************)
(* No limiter lets more requests through than it has tokens for, alone or  *)
(* inside the pipeline; the guards of the routes hold; contexts are never  *)
(* shared; each request is answered once and as its handlers decided: for  *)
(* any requests, addresses, users, rates, bursts, routes and tokens,       *)
(* whatever handlers abort or panic.                                       *)
(***************************************************************************)
EXTENDS Pipeline, TLAPS, SequenceTheorems

\* What the bound rests on: a key's limiter was made for that key, so keys do not
\* share one; a request asks the limiter of its key; and what a bucket holds and
\* has given away never exceeds its burst and what it has earned.
OwnLimiter == \A k \in Keys : limiterOf[k] # None => madeFor[limiterOf[k]] = k

AsksItsOwn ==
    \A r \in Requests :
        limiter[r] \in Objects =>
            at[r] \in {"ip", "user"} /\ limiterOf[Key(r, at[r])] = limiter[r]

Balance ==
    \A k \in Keys :
        IF limiterOf[k] = None THEN granted[k] = 0
        ELSE tokens[limiterOf[k]] + granted[k] <= Burst(k) + ticks * RPS(k)

Inductive ==
    /\ RateLimitTypeOK
    /\ limiterOf[Global] = Global
    /\ OwnLimiter /\ AsksItsOwn /\ Balance

-------------------------------------------------------------------------------
(* Constants *)

LEMMA ConfigTyped ==
    ASSUME NEW k \in Keys
    PROVE  Burst(k) \in Nat /\ RPS(k) \in Nat
BY RateLimitAssumption DEF Burst, RPS

LEMMA KeyTyped ==
    ASSUME NEW r \in Requests, NEW c
    PROVE  Key(r, c) \in Keys
BY RateLimitAssumption DEF Key, Keys

LEMMA Multiples ==
    ASSUME NEW t \in Nat, NEW n \in Nat
    PROVE  t * n \in Nat /\ (t + 1) * n = t * n + n
OBVIOUS

LEMMA AfterTyped ==
    ASSUME NEW c
    PROVE  /\ After(c) \in {"ip", "user", "passed"}
           /\ FromGlobal \in {"global", "ip", "user", "passed"}
BY DEF After, FromGlobal, FromIP, FromUser

-------------------------------------------------------------------------------
(* The inductive invariant *)

\* At the start only the global limiter exists, with a full bucket.
LEMMA InitInductive == RateLimitInit => Inductive
<1> SUFFICES ASSUME RateLimitInit PROVE Inductive
  OBVIOUS
<1>1. RateLimitTypeOK
  BY RateLimitAssumption DEF RateLimitInit, RateLimitTypeOK, Keys, Objects
<1>2. limiterOf[Global] = Global /\ OwnLimiter /\ AsksItsOwn
  BY RateLimitAssumption DEF RateLimitInit, OwnLimiter, AsksItsOwn, Keys, Objects
<1>3. Balance
  <2> SUFFICES ASSUME NEW k \in Keys, k = Global
               PROVE  tokens[Global] + granted[k] <= Burst(k) + ticks * RPS(k)
    BY RateLimitAssumption DEF RateLimitInit, Balance, Keys, Objects
  <2>1. tokens[Global] = Burst(k) /\ granted[k] = 0 /\ ticks = 0
    BY DEF RateLimitInit, Burst, Objects, Keys
  <2> QED
    BY <2>1, ConfigTyped
<1> QED
  BY <1>1, <1>2, <1>3 DEF Inductive

LEMMA EnterInductive ==
    ASSUME Inductive, NEW r \in Requests, Enter(r)
    PROVE  Inductive'
BY RateLimitAssumption, AfterTyped
   DEF Enter, limits, Inductive, RateLimitTypeOK, OwnLimiter, AsksItsOwn, Balance

LEMMA LookupInductive ==
    ASSUME Inductive, NEW r \in Requests, Lookup(r)
    PROVE  Inductive'
<1>1. Key(r, at[r]) \in Keys
  BY KeyTyped
<1>2. /\ UNCHANGED <<limiterOf, madeFor, tokens, ticks, granted, at>>
      /\ \A q \in Requests \ {r} : limiter'[q] = limiter[q]
      /\ limiter' \in [Requests -> Objects \cup {None, Missing}]
      /\ limiter'[r] \in Objects => limiter'[r] = limiterOf[Key(r, at[r])] /\ at[r] \in {"ip", "user"}
  BY <1>1, RateLimitAssumption DEF Lookup, limits, Inductive, RateLimitTypeOK
<1>3. AsksItsOwn'
  BY <1>2 DEF Inductive, AsksItsOwn, Key
<1> QED
  BY <1>2, <1>3 DEF Inductive, RateLimitTypeOK, OwnLimiter, Balance

\* The second look under the write lock keeps the map one-to-one: a limiter is made
\* for a key that has none, out of an object that serves no key.
LEMMA CreateInductive ==
    ASSUME Inductive, NEW r \in Requests, Create(r)
    PROVE  Inductive'
<1> DEFINE k == Key(r, at[r])
<1>1. k \in Keys /\ at[r] \in {"ip", "user"} /\ limiter[r] = Missing
      /\ UNCHANGED <<at, ticks, granted>>
  BY KeyTyped DEF Create
<1>2. CASE limiterOf[k] # None
  <2>1. limiter' = [limiter EXCEPT ![r] = limiterOf[k]] /\ UNCHANGED <<limiterOf, madeFor, tokens>>
    BY <1>2 DEF Create
  <2> QED
    BY <1>1, <2>1 DEF Inductive, RateLimitTypeOK, OwnLimiter, AsksItsOwn, Balance, Key
<1>3. CASE limiterOf[k] = None
  <2>1. PICK l \in Limiters : NewLimiter(l, k) /\ limiter' = [limiter EXCEPT ![r] = l]
    BY <1>3 DEF Create
  <2>2. l \in Objects /\ l # None /\ Burst(k) \in Nat /\ RPS(k) \in Nat
    BY <1>1, RateLimitAssumption, ConfigTyped DEF Objects
  <2>3. /\ madeFor[l] = None
        /\ madeFor' = [madeFor EXCEPT ![l] = k]
        /\ tokens' = [tokens EXCEPT ![l] = Burst(k)]
        /\ limiterOf' = [limiterOf EXCEPT ![k] = l]
    BY <2>1 DEF NewLimiter
  <2>4. RateLimitTypeOK'
    BY <1>1, <2>1, <2>2, <2>3 DEF Inductive, RateLimitTypeOK
  <2>5. /\ limiterOf'[k] = l /\ madeFor'[l] = k /\ tokens'[l] = Burst(k)
        /\ \A j \in Keys \ {k} : limiterOf'[j] = limiterOf[j]
        /\ \A o \in Objects \ {l} : madeFor'[o] = madeFor[o] /\ tokens'[o] = tokens[o]
    BY <1>1, <2>2, <2>3 DEF Inductive, RateLimitTypeOK
  <2>6. \A j \in Keys : limiterOf[j] # l /\ limiterOf[j] \in Objects \cup {None}
    <3> SUFFICES ASSUME NEW j \in Keys PROVE limiterOf[j] # l
      BY DEF Inductive, RateLimitTypeOK
    <3>1. j # None
      BY RateLimitAssumption DEF Keys
    <3> QED
      BY <2>2, <2>3, <3>1 DEF Inductive, OwnLimiter
  <2>7. limiterOf'[Global] = Global /\ OwnLimiter'
    <3>1. k # Global /\ Global \in Keys
      BY <1>3, RateLimitAssumption DEF Inductive, Keys
    <3> QED
      BY <2>5, <2>6, <3>1 DEF Inductive, OwnLimiter
  <2>8. AsksItsOwn'
    <3> SUFFICES ASSUME NEW q \in Requests, limiter'[q] \in Objects
                 PROVE  at[q] \in {"ip", "user"} /\ limiterOf'[Key(q, at[q])] = limiter'[q]
      BY <1>1 DEF AsksItsOwn, Key
    <3>1. CASE q = r
      BY <1>1, <2>1, <2>5, <3>1 DEF Inductive, RateLimitTypeOK
    <3>2. CASE q # r
      <4>1. limiter'[q] = limiter[q] /\ Key(q, at[q]) \in Keys
        BY <2>1, <3>2, KeyTyped DEF Inductive, RateLimitTypeOK
      <4>2. at[q] \in {"ip", "user"} /\ limiterOf[Key(q, at[q])] = limiter[q]
        BY <4>1 DEF Inductive, AsksItsOwn
      <4>3. Key(q, at[q]) # k
        BY <1>3, <4>1, <4>2, RateLimitAssumption
      <4> QED
        BY <2>5, <4>1, <4>2, <4>3
    <3> QED
      BY <3>1, <3>2
  <2>9. Balance'
    <3> SUFFICES ASSUME NEW j \in Keys
                 PROVE  IF limiterOf'[j] = None THEN granted[j] = 0
                        ELSE tokens'[limiterOf'[j]] + granted[j] <= Burst(j) + ticks * RPS(j)
      BY <1>1 DEF Balance, Burst, RPS
    <3>1. CASE j = k
      <4>1. granted[k] = 0 /\ ticks * RPS(k) \in Nat
        BY <1>1, <1>3, <2>2, Multiples DEF Inductive, Balance, RateLimitTypeOK
      <4> QED
        BY <2>2, <2>5, <3>1, <4>1
    <3>2. CASE j # k
      BY <2>5, <2>6, <3>2 DEF Inductive, Balance
    <3> QED
      BY <3>1, <3>2
  <2> QED
    BY <2>4, <2>7, <2>8, <2>9 DEF Inductive
<1> QED
  BY <1>2, <1>3

\* A request takes its token from the bucket of the key it is counted for.
LEMMA AdmitInductive ==
    ASSUME Inductive, NEW r \in Requests, Admit(r)
    PROVE  Inductive'
<1> DEFINE k == Key(r, at[r])
           l == Held(r)
<1>1. k \in Keys /\ l \in Objects /\ limiterOf[k] = l /\ l # None
  <2>1. k \in Keys /\ l \in Objects
    BY KeyTyped DEF Admit
  <2>2. limiterOf[k] = l
    BY <2>1 DEF Held, Key, Inductive, AsksItsOwn
  <2> QED
    BY <2>1, <2>2, RateLimitAssumption
<1>2. /\ tokens[l] > 0
      /\ tokens' = [tokens EXCEPT ![l] = @ - 1]
      /\ granted' = [granted EXCEPT ![k] = @ + 1]
      /\ at' = [at EXCEPT ![r] = After(at[r])]
      /\ limiter' = [limiter EXCEPT ![r] = None]
      /\ UNCHANGED <<limiterOf, madeFor, ticks>>
  BY DEF Admit
<1> HIDE DEF k, l
<1>3. RateLimitTypeOK'
  BY <1>1, <1>2, AfterTyped DEF Inductive, RateLimitTypeOK
<1>4. OwnLimiter' /\ limiterOf'[Global] = Global
  BY <1>2 DEF Inductive, OwnLimiter
<1>5. AsksItsOwn'
  <2> SUFFICES ASSUME NEW q \in Requests, limiter'[q] \in Objects
               PROVE  at'[q] \in {"ip", "user"} /\ limiterOf'[Key(q, at'[q])] = limiter'[q]
    BY DEF AsksItsOwn, Key
  <2>1. q # r
    BY <1>2, RateLimitAssumption DEF Inductive, RateLimitTypeOK
  <2> QED
    BY <1>2, <2>1 DEF Inductive, AsksItsOwn, RateLimitTypeOK
<1>6. Balance'
  <2> SUFFICES ASSUME NEW j \in Keys
               PROVE  IF limiterOf[j] = None THEN granted'[j] = 0
                      ELSE tokens'[limiterOf[j]] + granted'[j] <= Burst(j) + ticks * RPS(j)
    BY <1>2 DEF Balance, Burst, RPS
  <2>1. CASE j = k
    BY <1>1, <1>2, <2>1 DEF Inductive, Balance, RateLimitTypeOK
  <2>2. CASE j # k
    <3>1. granted'[j] = granted[j]
      BY <1>2, <2>2 DEF Inductive, RateLimitTypeOK
    <3>2. limiterOf[j] # l
      BY <1>1, <2>2 DEF Inductive, OwnLimiter
    <3>3. limiterOf[j] # None => tokens'[limiterOf[j]] = tokens[limiterOf[j]]
      BY <1>2, <3>2 DEF Inductive, RateLimitTypeOK
    <3> QED
      BY <3>1, <3>3 DEF Inductive, Balance
  <2> QED
    BY <2>1, <2>2
<1> QED
  BY <1>3, <1>4, <1>5, <1>6 DEF Inductive

LEMMA RefuseInductive ==
    ASSUME Inductive, NEW r \in Requests, Refuse(r)
    PROVE  Inductive'
BY RateLimitAssumption
   DEF Refuse, limits, Inductive, RateLimitTypeOK, OwnLimiter, AsksItsOwn, Balance

\* A tick adds at most one tick's tokens to a bucket.
LEMMA TickInductive ==
    ASSUME Inductive, Tick
    PROVE  Inductive'
<1>1. /\ ticks' = ticks + 1 /\ tokens' = [l \in Objects |-> Earned(l)]
      /\ UNCHANGED <<limiterOf, madeFor, granted, at, limiter>>
  BY DEF Tick
<1>2. ASSUME NEW l \in Objects PROVE Earned(l) \in Nat
  BY ConfigTyped DEF Earned, Inductive, RateLimitTypeOK
<1>3. RateLimitTypeOK' /\ OwnLimiter' /\ AsksItsOwn' /\ limiterOf'[Global] = Global
  BY <1>1, <1>2 DEF Inductive, RateLimitTypeOK, OwnLimiter, AsksItsOwn
<1>4. Balance'
  <2> SUFFICES ASSUME NEW k \in Keys, limiterOf[k] # None
               PROVE  tokens'[limiterOf[k]] + granted[k] <= Burst(k) + (ticks + 1) * RPS(k)
    BY <1>1 DEF Balance, Inductive, Burst, RPS
  <2> DEFINE l == limiterOf[k]
  <2>1. l \in Objects /\ madeFor[l] = k /\ k # None
    BY RateLimitAssumption DEF Inductive, RateLimitTypeOK, OwnLimiter, Keys
  <2>2. Burst(k) \in Nat /\ RPS(k) \in Nat /\ tokens[l] \in Nat /\ granted[k] \in Nat /\ ticks \in Nat
    BY <2>1, ConfigTyped DEF Inductive, RateLimitTypeOK
  <2>3. Earned(l) <= tokens[l] + RPS(k)
    BY <2>1, <2>2 DEF Earned
  <2>4. tokens'[l] = Earned(l) /\ Earned(l) \in Nat
    BY <1>1, <1>2, <2>1
  <2>5. tokens[l] + granted[k] <= Burst(k) + ticks * RPS(k)
    BY DEF Inductive, Balance
  <2>6. ticks * RPS(k) \in Nat /\ (ticks + 1) * RPS(k) = ticks * RPS(k) + RPS(k)
    BY <2>2, Multiples
  <2> HIDE DEF l
  <2> QED
    BY <2>2, <2>3, <2>4, <2>5, <2>6 DEF l
<1> QED
  BY <1>3, <1>4 DEF Inductive

LEMMA NextInductive == Inductive /\ [RateLimitNext]_rvars => Inductive'
<1> SUFFICES ASSUME Inductive, [RateLimitNext]_rvars PROVE Inductive'
  OBVIOUS
<1>1. CASE UNCHANGED rvars
  BY <1>1 DEF rvars, limits, Inductive, RateLimitTypeOK, OwnLimiter, AsksItsOwn, Balance, Key
<1> QED
  BY <1>1, EnterInductive, LookupInductive, CreateInductive, AdmitInductive, RefuseInductive,
     TickInductive DEF RateLimitNext, Check

-------------------------------------------------------------------------------
(* The limiters alone *)

LEMMA Bounded == Inductive => GrantsBounded
<1> SUFFICES ASSUME Inductive, NEW k \in Keys
             PROVE  granted[k] <= Burst(k) + ticks * RPS(k)
  BY DEF GrantsBounded
<1>1. Burst(k) \in Nat /\ granted[k] \in Nat /\ ticks * RPS(k) \in Nat
  BY ConfigTyped, Multiples DEF Inductive, RateLimitTypeOK
<1>2. limiterOf[k] # None => tokens[limiterOf[k]] \in Nat
  BY DEF Inductive, RateLimitTypeOK
<1> QED
  BY <1>1, <1>2 DEF Inductive, Balance

\* The middleware keeps every client, every user and the service to its rate.
THEOREM LimiterBound == RateLimitSpec => []GrantsBounded
<1>1. RateLimitSpec => []Inductive
  BY InitInductive, NextInductive, PTL DEF RateLimitSpec
<1> QED
  BY <1>1, Bounded, PTL

-------------------------------------------------------------------------------
(* The limiters inside the pipeline *)

\* A step of a request moves the limiters by a step of theirs, or not at all.
LEMMA StepUsesLimiters ==
    ASSUME NEW r \in Requests, Step(r)
    PROVE  Enter(r) \/ Check(r) \/ UNCHANGED rvars
<1>1. CASE CallNext(r)
  BY <1>1 DEF CallNext
<1>2. CASE Limit(r)
  BY <1>2 DEF Limit
<1>3. CASE PassBy(r) \/ Begin(r) \/ BeginUnreadable(r) \/ LimitPassed(r) \/ LimitRefused(r)
  BY <1>3 DEF PassBy, Begin, BeginUnreadable, LimitPassed, LimitRefused
<1>4. CASE Verify(r) \/ VerifyRefuses(r) \/ NoRoute(r) \/ releaseContext(r) \/ Deferred(r) \/ Finish(r)
  BY <1>4 DEF Verify, VerifyRefuses, NoRoute, releaseContext, Deferred, Finish
<1>5. CASE HandlerReturns(r) \/ HandlerFails(r) \/ HandlerPanics(r)
  BY <1>5 DEF HandlerReturns, HandlerFails, HandlerPanics
<1> QED
  BY <1>1, <1>2, <1>3, <1>4, <1>5 DEF Step

LEMMA PipelineUsesLimiters == [PipelineNext]_pvars => [RateLimitNext]_rvars
<1>1. CASE UNCHANGED pvars
  BY <1>1 DEF pvars
<1>2. CASE Clock
  BY <1>2 DEF Clock, RateLimitNext
<1>3. ASSUME NEW r \in Requests, Step(r) PROVE [RateLimitNext]_rvars
  BY <1>3, StepUsesLimiters DEF RateLimitNext
<1>4. ASSUME NEW r \in Requests, NEW rt \in RoutesOf[r], Arrive(r, rt) PROVE UNCHANGED rvars
  BY <1>4 DEF Arrive
<1> QED
  BY <1>1, <1>2, <1>3, <1>4 DEF PipelineNext

\* The pipeline behaves, towards the limiters, as the middleware's specification.
THEOREM PipelineLimits == PipelineSpec => RateLimitSpec
<1>1. PipelineInit => RateLimitInit
  BY DEF PipelineInit
<1> QED
  BY <1>1, PipelineUsesLimiters, PTL DEF PipelineSpec, RateLimitSpec

\* Whatever requests do on their way through the core, each key gets no more than
\* its burst and its rate.
THEOREM PipelineBound == PipelineSpec => []GrantsBounded
BY LimiterBound, PipelineLimits, PTL

-------------------------------------------------------------------------------
(* Guards *)

\* The guards of its route have let a request through.
Passed(r) ==
    /\ route[r] = "admin" => at[r] = "passed"
    /\ route[r] = "profile" => session[r]

\* Before the route is chosen there is nothing to run.
Unarrived(r) == pc[r] = "idle" => chain[r] = <<>> /\ ~handled[r] /\ abortErr[r] = None

\* What is left of the chain.
Remaining(r) ==
    /\ chain[r] \in {<<>>, <<"handler">>, Chain(route[r])}
    /\ pc[r] = "core" => chain[r] = Chain(route[r])
    /\ pc[r] = "limit" => route[r] = "admin" /\ chain[r] = <<"handler">>
    /\ pc[r] = "verify" => route[r] = "profile" /\ chain[r] = <<"handler">>
    /\ pc[r] = "handler" => chain[r] = <<>>
    /\ handled[r] => chain[r] = <<>>

\* Nobody calls Next for an aborted request.
Unaborted(r) ==
    /\ pc[r] \in {"core", "next", "limit", "verify", "handler"} => abortErr[r] = None
    /\ abortErr[r] = None => abortedBy[r] = "nobody"
    /\ handled[r] => abortedBy[r] # "guard"

\* Past its guard a request has passed it or is aborted.
Guarded(r) ==
    /\ chain[r] = <<"handler">> /\ route[r] \in {"admin", "profile"} =>
          pc[r] \in {"limit", "verify"} \/ abortErr[r] # None \/ Passed(r)
    /\ chain[r] = <<>> /\ pc[r] # "idle" => Passed(r)

Places == {"idle", "core", "next", "limit", "verify", "handler", "noroute", "release",
           "deferred", "finish", "done"}
Chains == {<<>>, <<"handler">>, <<"limit", "handler">>, <<"verify", "handler">>, <<"noroute">>}
Codes == {None, 400, 401, 429, 500}
Aborters == {"nobody", "guard", "handler", "panic"}

TypeOK ==
    /\ pc \in [Requests -> Places] /\ route \in [Requests -> Routes]
    /\ chain \in [Requests -> Chains] /\ abortErr \in [Requests -> Codes]
    /\ abortedBy \in [Requests -> Aborters]
    /\ session \in [Requests -> BOOLEAN] /\ handled \in [Requests -> BOOLEAN]
    /\ at \in [Requests -> {"off", "global", "ip", "user", "passed", "refused"}]

OnTheWay(r) == Unarrived(r) /\ Remaining(r) /\ Unaborted(r) /\ Guarded(r)

GuardInv == TypeOK /\ \A r \in Requests : OnTheWay(r)

LEMMA ChainOf ==
    /\ Chain("admin") = <<"limit", "handler">> /\ Chain("profile") = <<"verify", "handler">>
    /\ Chain("none") = <<"noroute">>
    /\ \A rt \in Routes \ {"admin", "profile", "none"} : Chain(rt) = <<"handler">>
    /\ \A rt \in Routes : Chain(rt) \in Chains
BY DEF Chain, Routes, Chains

LEMMA NoneIsNoCode == None \notin {400, 401, 429, 500}
BY PipelineAssumption

LEMMA GuardInit == PipelineInit => GuardInv
<1> SUFFICES ASSUME PipelineInit PROVE GuardInv
  OBVIOUS
<1>1. /\ pc = [r \in Requests |-> "idle"] /\ route = [r \in Requests |-> "none"]
      /\ chain = [r \in Requests |-> <<>>] /\ abortErr = [r \in Requests |-> None]
      /\ session = [r \in Requests |-> FALSE] /\ handled = [r \in Requests |-> FALSE]
      /\ at = [r \in Requests |-> "off"] /\ abortedBy = [r \in Requests |-> "nobody"]
  BY DEF PipelineInit, RateLimitInit
<1>2. TypeOK
  BY <1>1 DEF TypeOK, Routes, Places, Chains, Codes, Aborters
<1>3. ASSUME NEW r \in Requests
      PROVE  OnTheWay(r)
  BY <1>1 DEF OnTheWay, Unarrived, Remaining, Unaborted, Guarded
<1> QED
  BY <1>2, <1>3 DEF GuardInv

\* What the way of request q depends on.
Same(q) ==
    /\ pc'[q] = pc[q] /\ route'[q] = route[q] /\ chain'[q] = chain[q]
    /\ abortErr'[q] = abortErr[q] /\ abortedBy'[q] = abortedBy[q] /\ session'[q] = session[q]
    /\ handled'[q] = handled[q] /\ at'[q] = at[q]

LEMMA SameWay == ASSUME NEW q, OnTheWay(q), Same(q) PROVE OnTheWay(q)'
BY DEF Same, OnTheWay, Unarrived, Remaining, Unaborted, Guarded, Passed

LEMMA StepOfOne ==
    ASSUME GuardInv, NEW r \in Requests, TypeOK', OnTheWay(r)',
           \A q \in Requests \ {r} : Same(q)
    PROVE  GuardInv'
BY SameWay DEF GuardInv

\* The limiters move the request that asks them, and no other.
LEMMA CheckAt ==
    ASSUME TypeOK, NEW r \in Requests, Check(r)
    PROVE  /\ at' \in [Requests -> {"off", "global", "ip", "user", "passed", "refused"}]
           /\ \A q \in Requests \ {r} : at'[q] = at[q]
<1>1. After(at[r]) \in {"ip", "user", "passed"}
  BY DEF After, FromIP, FromUser
<1>2. at' = at \/ at' = [at EXCEPT ![r] = After(at[r])] \/ at' = [at EXCEPT ![r] = "refused"]
  BY DEF Check, Lookup, Create, Admit, Refuse, limits
<1> QED
  BY <1>1, <1>2 DEF TypeOK

LEMMA EnterAt ==
    ASSUME TypeOK, NEW r \in Requests, Enter(r)
    PROVE  /\ at' \in [Requests -> {"off", "global", "ip", "user", "passed", "refused"}]
           /\ \A q \in Requests \ {r} : at'[q] = at[q]
BY DEF TypeOK, Enter, FromGlobal, FromIP, FromUser

LEMMA InwardGuard ==
    ASSUME GuardInv, NEW r \in Requests,
           PassBy(r) \/ Begin(r) \/ BeginUnreadable(r) \/ \E rt \in RoutesOf[r] : Arrive(r, rt)
    PROVE  GuardInv'
<1>1. TypeOK /\ OnTheWay(r)
  BY DEF GuardInv
<1>2. CASE PassBy(r) \/ Begin(r) \/ BeginUnreadable(r)
  <2>1. /\ pc[r] = "core" /\ \E to \in {"next", "release"} : pc' = [pc EXCEPT ![r] = to]
        /\ UNCHANGED <<chain, route, abortErr, abortedBy, session, handled, at>>
    BY <1>2 DEF PassBy, Begin, BeginUnreadable, newContext, Goto, rvars, local
  <2>2. TypeOK' /\ \A q \in Requests \ {r} : Same(q)
    BY <1>1, <2>1 DEF TypeOK, Places, Same
  <2>3. OnTheWay(r)'
    BY <1>1, <2>1, ChainOf DEF TypeOK, Places, OnTheWay, Unarrived, Remaining, Unaborted, Guarded, Passed
  <2> QED
    BY <2>2, <2>3, StepOfOne
<1>3. ASSUME NEW rt \in RoutesOf[r], Arrive(r, rt) PROVE GuardInv'
  <2>1. /\ pc[r] = "idle" /\ pc' = [pc EXCEPT ![r] = "core"]
        /\ route' = [route EXCEPT ![r] = rt] /\ chain' = [chain EXCEPT ![r] = Chain(rt)]
        /\ UNCHANGED <<abortErr, abortedBy, session, handled, at>>
    BY <1>3 DEF Arrive, Goto, rvars
  <2>2. rt \in Routes /\ Chain(rt) \in Chains
    BY PipelineAssumption, ChainOf
  <2>3. TypeOK' /\ \A q \in Requests \ {r} : Same(q)
    BY <1>1, <2>1, <2>2 DEF TypeOK, Places, Same
  <2>4. Chain(rt) # <<>> /\ (rt \in {"admin", "profile"} => Chain(rt) # <<"handler">>)
    BY <2>2, ChainOf
  <2>5. OnTheWay(r)'
    BY <1>1, <2>1, <2>2, <2>4 DEF TypeOK, OnTheWay, Unarrived, Remaining, Unaborted, Guarded, Passed
  <2> QED
    BY <2>3, <2>5, StepOfOne
<1> QED
  BY <1>2, <1>3

LEMMA CallNextGuard == ASSUME GuardInv, NEW r \in Requests, CallNext(r) PROVE GuardInv'
<1>1. TypeOK /\ OnTheWay(r)
  BY DEF GuardInv
<1>2. /\ pc[r] = "next" /\ chain[r] # <<>>
      /\ pc' = [pc EXCEPT ![r] = Head(chain[r])] /\ chain' = [chain EXCEPT ![r] = Tail(@)]
      /\ UNCHANGED <<route, abortErr, abortedBy, session, handled>>
  BY DEF CallNext, Goto, newContext, local
<1>3. /\ at' \in [Requests -> {"off", "global", "ip", "user", "passed", "refused"}]
      /\ \A q \in Requests \ {r} : at'[q] = at[q]
      /\ Head(chain[r]) # "limit" => at' = at
  BY <1>1, EnterAt DEF CallNext, rvars, TypeOK
<1>4. /\ Head(chain[r]) \in {"limit", "verify", "handler", "noroute"}
      /\ Tail(chain[r]) \in {<<>>, <<"handler">>}
      /\ chain[r] = <<"handler">> => Head(chain[r]) = "handler" /\ Tail(chain[r]) = <<>>
      /\ chain[r] # <<"handler">> =>
            \/ Head(chain[r]) = "limit" /\ route[r] = "admin" /\ Tail(chain[r]) = <<"handler">>
            \/ Head(chain[r]) = "verify" /\ route[r] = "profile" /\ Tail(chain[r]) = <<"handler">>
            \/ Head(chain[r]) = "noroute" /\ route[r] = "none" /\ Tail(chain[r]) = <<>>
  <2>1. chain[r] \in {<<"handler">>, Chain(route[r])} /\ route[r] \in Routes
    BY <1>1, <1>2 DEF OnTheWay, Remaining, TypeOK
  <2>2. Tail(<<"handler">>) = <<>> /\ Tail(<<"noroute">>) = <<>>
        /\ Tail(<<"limit", "handler">>) = <<"handler">> /\ Tail(<<"verify", "handler">>) = <<"handler">>
    OBVIOUS
  <2>3. CASE chain[r] = <<"handler">>
    BY <2>2, <2>3
  <2>4. CASE chain[r] # <<"handler">>
    <3>1. chain[r] = Chain(route[r]) /\ route[r] \in {"admin", "profile", "none"}
      BY <2>1, <2>4, ChainOf
    <3>2. \/ route[r] = "admin" /\ chain[r] = <<"limit", "handler">>
          \/ route[r] = "profile" /\ chain[r] = <<"verify", "handler">>
          \/ route[r] = "none" /\ chain[r] = <<"noroute">>
      BY <3>1, ChainOf
    <3>3. CASE route[r] = "admin" /\ chain[r] = <<"limit", "handler">>
      BY <2>2, <2>4, <3>3
    <3>4. CASE route[r] = "profile" /\ chain[r] = <<"verify", "handler">>
      BY <2>2, <2>4, <3>4
    <3>5. CASE route[r] = "none" /\ chain[r] = <<"noroute">>
      BY <2>2, <2>4, <3>5
    <3> QED
      BY <3>2, <3>3, <3>4, <3>5
  <2> QED
    BY <2>3, <2>4
<1>5. pc'[r] = Head(chain[r]) /\ chain'[r] = Tail(chain[r]) /\ <<"handler">> # <<>>
  BY <1>1, <1>2 DEF TypeOK
<1>6. TypeOK' /\ \A q \in Requests \ {r} : Same(q)
  <2>1. Head(chain[r]) \in Places /\ Tail(chain[r]) \in Chains
    BY <1>4 DEF Places, Chains
  <2>2. pc' \in [Requests -> Places] /\ chain' \in [Requests -> Chains]
    BY <1>1, <1>2, <2>1 DEF TypeOK
  <2>3. TypeOK'
    BY <1>1, <1>2, <1>3, <2>2 DEF TypeOK
  <2> QED
    BY <1>1, <1>2, <1>3, <2>3 DEF TypeOK, Same
<1>7. OnTheWay(r)'
  <2>1. abortErr[r] = None /\ abortedBy[r] = "nobody" /\ ~handled[r]
    BY <1>1, <1>2 DEF OnTheWay, Unaborted, Remaining
  <2>2. Unarrived(r)' /\ Remaining(r)' /\ Unaborted(r)'
    BY <1>2, <1>4, <1>5, <2>1 DEF Unarrived, Remaining, Unaborted
  <2>3. CASE chain[r] = <<"handler">>
    <3>1. Passed(r) \/ route[r] \notin {"admin", "profile"}
      BY <1>1, <1>2, <2>1, <2>3 DEF OnTheWay, Guarded
    <3>2. Passed(r)'
      BY <1>2, <1>3, <1>4, <2>3, <3>1 DEF Passed
    <3> QED
      BY <3>2, <2>2 DEF OnTheWay, Guarded
  <2>4. CASE chain[r] # <<"handler">>
    <3>1. Guarded(r)'
      BY <1>2, <1>4, <1>5, <2>4 DEF Guarded, Passed
    <3> QED
      BY <3>1, <2>2 DEF OnTheWay
  <2> QED
    BY <2>3, <2>4
<1> QED
  BY <1>6, <1>7, StepOfOne

LEMMA GuardGuard ==
    ASSUME GuardInv, NEW r \in Requests,
           Limit(r) \/ LimitPassed(r) \/ LimitRefused(r) \/ Verify(r) \/ VerifyRefuses(r)
    PROVE  GuardInv'
<1>1. TypeOK /\ OnTheWay(r)
  BY DEF GuardInv
<1> USE DEF Goto, AbortWithError, rvars, flow, local
<1>2. CASE Limit(r)
  <2>1. pc[r] = "limit" /\ Check(r)
        /\ UNCHANGED <<pc, route, chain, abortErr, abortedBy, session, handled>>
    BY <1>2 DEF Limit
  <2>2. TypeOK' /\ \A q \in Requests \ {r} : Same(q)
    BY <1>1, <2>1, CheckAt DEF TypeOK, Same
  <2>3. OnTheWay(r)'
    BY <1>1, <2>1 DEF OnTheWay, Unarrived, Remaining, Unaborted, Guarded, Passed
  <2> QED
    BY <2>2, <2>3, StepOfOne
<1>3. CASE LimitPassed(r) \/ Verify(r)
  <2>1. /\ pc[r] \in {"limit", "verify"} /\ pc' = [pc EXCEPT ![r] = "next"]
        /\ pc[r] = "limit" => at[r] = "passed" /\ session' = session
        /\ pc[r] = "verify" => session' = [session EXCEPT ![r] = TRUE]
        /\ UNCHANGED <<route, chain, abortErr, abortedBy, handled, at>>
    BY <1>3 DEF LimitPassed, Verify
  <2>2. TypeOK' /\ \A q \in Requests \ {r} : Same(q)
    BY <1>1, <2>1 DEF TypeOK, Places, Same
  <2>3. OnTheWay(r)'
    BY <1>1, <2>1 DEF TypeOK, Places, OnTheWay, Unarrived, Remaining, Unaborted, Guarded, Passed
  <2> QED
    BY <2>2, <2>3, StepOfOne
<1>4. CASE LimitRefused(r) \/ VerifyRefuses(r)
  <2>1. /\ pc[r] \in {"limit", "verify"} /\ pc' = [pc EXCEPT ![r] = "release"]
        /\ \E code \in {401, 429} : abortErr' = [abortErr EXCEPT ![r] = code]
        /\ abortedBy' = [abortedBy EXCEPT ![r] = "guard"]
        /\ UNCHANGED <<route, chain, session, handled, at>>
    BY <1>4 DEF LimitRefused, VerifyRefuses
  <2>2. TypeOK' /\ \A q \in Requests \ {r} : Same(q)
    BY <1>1, <2>1 DEF TypeOK, Places, Codes, Aborters, Same
  <2>3. /\ pc'[r] = "release" /\ abortErr'[r] # None /\ ~handled[r]
        /\ chain'[r] = <<"handler">> /\ <<"handler">> # <<>>
    <3>1. chain[r] = <<"handler">> /\ <<"handler">> # <<>>
      BY <1>1, <2>1 DEF OnTheWay, Remaining
    <3>2. ~handled[r]
      BY <1>1, <3>1 DEF OnTheWay, Remaining
    <3>3. pc'[r] = "release" /\ abortErr'[r] \in {401, 429}
      BY <1>1, <2>1 DEF TypeOK
    <3> QED
      BY <2>1, <3>1, <3>2, <3>3, NoneIsNoCode
  <2>4. OnTheWay(r)'
    BY <2>1, <2>3 DEF OnTheWay, Unarrived, Remaining, Unaborted, Guarded
  <2> QED
    BY <2>2, <2>4, StepOfOne
<1> QED
  BY <1>2, <1>3, <1>4

LEMMA HandlerGuard ==
    ASSUME GuardInv, NEW r \in Requests,
           HandlerReturns(r) \/ HandlerFails(r) \/ HandlerPanics(r) \/ NoRoute(r)
    PROVE  GuardInv'
<1>1. TypeOK /\ OnTheWay(r)
  BY DEF GuardInv
<1>2. /\ pc' = [pc EXCEPT ![r] = "release"]
      /\ \/ pc[r] = "handler" /\ handled' = [handled EXCEPT ![r] = TRUE]
         \/ pc[r] = "noroute" /\ handled' = handled
      /\ \/ UNCHANGED <<abortErr, abortedBy>>
         \/ /\ \E code \in {400, 401, 500} : abortErr' = [abortErr EXCEPT ![r] = code]
            /\ abortedBy' = [abortedBy EXCEPT ![r] = "handler"]
      /\ UNCHANGED <<route, chain, session, at>>
  BY DEF HandlerReturns, HandlerFails, HandlerPanics, NoRoute, Handled, Goto, AbortWithError, Errors, rvars
<1>3. TypeOK' /\ \A q \in Requests \ {r} : Same(q)
  <2>1. pc' \in [Requests -> Places] /\ handled' \in [Requests -> BOOLEAN]
    <3>1. \E h \in BOOLEAN : handled' = handled \/ handled' = [handled EXCEPT ![r] = h]
      BY <1>2
    <3>2. "release" \in Places
      BY DEF Places
    <3> QED
      BY <1>1, <1>2, <3>1, <3>2 DEF TypeOK
  <2>2. abortErr' \in [Requests -> Codes] /\ abortedBy' \in [Requests -> Aborters]
    BY <1>1, <1>2 DEF TypeOK, Codes, Aborters
  <2>3. \A q \in Requests \ {r} : Same(q)
    BY <1>1, <1>2 DEF TypeOK, Same
  <2> QED
    BY <1>1, <1>2, <2>1, <2>2, <2>3 DEF TypeOK
<1>4. /\ pc'[r] = "release" /\ abortErr'[r] \in {abortErr[r], 400, 401, 500}
      /\ abortErr'[r] = None => abortedBy'[r] = "nobody"
      /\ handled'[r] => chain[r] = <<>>
      /\ handled'[r] => abortedBy'[r] # "guard"
  BY <1>1, <1>2, NoneIsNoCode DEF TypeOK, OnTheWay, Remaining, Unaborted
<1>5. OnTheWay(r)'
  BY <1>1, <1>2, <1>4, NoneIsNoCode
  DEF OnTheWay, Unarrived, Remaining, Unaborted, Guarded, Passed
<1> QED
  BY <1>3, <1>5, StepOfOne

LEMMA OutwardGuard ==
    ASSUME GuardInv, NEW r \in Requests, releaseContext(r) \/ Deferred(r) \/ Finish(r)
    PROVE  GuardInv'
<1>1. TypeOK /\ OnTheWay(r)
  BY DEF GuardInv
<1>2. /\ pc[r] \in {"release", "deferred", "finish"}
      /\ \E to \in {"finish", "release", "deferred", "next", "done"} :
            pc' = [pc EXCEPT ![r] = to] /\ (to = "next" => abortErr[r] = None /\ abortErr' = abortErr)
      /\ \/ UNCHANGED <<abortErr, abortedBy>>
         \/ /\ abortErr' = [abortErr EXCEPT ![r] = 500]
            /\ abortedBy' = [abortedBy EXCEPT ![r] = "panic"]
      /\ UNCHANGED <<route, chain, session, handled, at>>
  <2>1. CASE releaseContext(r)
    <3>1. /\ Outside(r) \in {"finish", "release", "deferred", "next"}
          /\ Outside(r) = "next" => abortErr[r] = None
      BY DEF Outside
    <3> QED
      BY <2>1, <3>1 DEF releaseContext, Goto, local, rvars
  <2>2. CASE Deferred(r)
    <3>1. /\ abortErr' = [abortErr EXCEPT ![r] = Recovered(r).code]
          /\ abortedBy' = [abortedBy EXCEPT ![r] = Recovered(r).by]
      BY <2>2 DEF Deferred
    <3>2. \/ Recovered(r).code = 500 /\ Recovered(r).by = "panic"
          \/ Recovered(r).code = abortErr[r] /\ Recovered(r).by = abortedBy[r]
      BY DEF Recovered
    <3>3. \/ UNCHANGED <<abortErr, abortedBy>>
          \/ /\ abortErr' = [abortErr EXCEPT ![r] = 500]
             /\ abortedBy' = [abortedBy EXCEPT ![r] = "panic"]
      <4>1. /\ abortErr = [abortErr EXCEPT ![r] = abortErr[r]]
            /\ abortedBy = [abortedBy EXCEPT ![r] = abortedBy[r]]
        BY <1>1 DEF TypeOK
      <4> QED
        BY <3>1, <3>2, <4>1
    <3>4. pc[r] = "deferred" /\ pc' = [pc EXCEPT ![r] = "release"]
          /\ UNCHANGED <<route, chain, session, handled, at>>
      BY <2>2 DEF Deferred, Goto, rvars
    <3> QED
      BY <3>3, <3>4
  <2>3. CASE Finish(r)
    BY <2>3 DEF Finish, Goto, rvars
  <2> QED
    BY <2>1, <2>2, <2>3
<1>3. TypeOK' /\ \A q \in Requests \ {r} : Same(q)
  BY <1>1, <1>2 DEF TypeOK, Places, Codes, Aborters, Same
<1>4. OnTheWay(r)'
  BY <1>1, <1>2, NoneIsNoCode
  DEF TypeOK, Places, OnTheWay, Unarrived, Remaining, Unaborted, Guarded, Passed
<1> QED
  BY <1>3, <1>4, StepOfOne

LEMMA GuardNext == GuardInv /\ [PipelineNext]_pvars => GuardInv'
<1> SUFFICES ASSUME GuardInv, [PipelineNext]_pvars PROVE GuardInv'
  OBVIOUS
<1>1. CASE Clock \/ UNCHANGED pvars
  <2>1. UNCHANGED <<pc, route, chain, abortErr, abortedBy, session, handled, at>>
    BY <1>1 DEF Clock, Tick, pvars, rvars, flow, local
  <2> QED
    BY <2>1, SameWay DEF GuardInv, TypeOK, Same
<1>2. ASSUME NEW r \in Requests, Step(r) \/ \E rt \in RoutesOf[r] : Arrive(r, rt)
      PROVE  GuardInv'
  BY <1>2, InwardGuard, CallNextGuard, GuardGuard, HandlerGuard, OutwardGuard DEF Step
<1> QED
  BY <1>1, <1>2 DEF PipelineNext

\* The handler of a guarded route never runs for a request that its middleware has
\* refused or not seen, and a request that a middleware has refused reaches none.
THEOREM GuardsKept == PipelineSpec => []GuardsHold
<1>1. GuardInv => GuardsHold
  BY DEF GuardInv, GuardsHold, OnTheWay, Unarrived, Remaining, Unaborted, Guarded, Passed
<1> QED
  BY <1>1, GuardInit, GuardNext, PTL DEF PipelineSpec

-------------------------------------------------------------------------------
(* Contexts *)

\* Inside a handler, or on its way out of one, a request has a context to give back.
Inside == {"limit", "verify", "handler", "noroute", "release", "deferred"}

Stacked ==
    /\ stack \in [Requests -> Seq(Slots)] /\ DOMAIN ctx = Slots
    /\ \A r \in Requests : IsInjective(stack[r]) /\ (pc[r] \in Inside => stack[r] # <<>>)

ContextInv == GuardInv /\ Stacked /\ ContextsExclusive

LEMMA Push ==
    ASSUME NEW S, NEW s \in S, NEW q \in Seq(S), IsInjective(q), s \notin Range(q)
    PROVE  LET t == <<s>> \o q IN
           /\ t \in Seq(S) /\ t # <<>> /\ IsInjective(t) /\ Range(t) = Range(q) \cup {s}
<1> DEFINE t == <<s>> \o q
<1>1. Len(q) \in Nat /\ DOMAIN q = 1..Len(q)
  BY LenProperties
<1>2. <<s>> \in Seq(S) /\ Len(<<s>>) = 1 /\ <<s>>[1] = s
  OBVIOUS
<1>3. /\ t \in Seq(S) /\ Len(t) = 1 + Len(q) /\ DOMAIN t = 1..(1 + Len(q))
      /\ t[1] = s /\ \A j \in 1..Len(q) : t[j + 1] = q[j]
  <2>1. /\ t \in Seq(S) /\ Len(t) = 1 + Len(q)
        /\ \A j \in 1..(1 + Len(q)) : t[j] = IF j <= 1 THEN <<s>>[j] ELSE q[j - 1]
    BY <1>1, <1>2, ConcatProperties
  <2> HIDE DEF t
  <2> QED
    BY <1>1, <1>2, <2>1, LenProperties
<1> HIDE DEF t
<1>4. \A j \in DOMAIN t : j = 1 \/ (j - 1 \in DOMAIN q /\ t[j] = q[j - 1])
  BY <1>1, <1>3
<1>5. IsInjective(t)
  <2> SUFFICES ASSUME NEW i \in DOMAIN t, NEW j \in DOMAIN t, t[i] = t[j] PROVE i = j
    BY DEF IsInjective
  <2>1. \A k \in DOMAIN q : q[k] # s
    BY DEF Range
  <2>2. CASE i = 1 \/ j = 1
    BY <1>3, <1>4, <2>1, <2>2
  <2>3. CASE i # 1 /\ j # 1
    <3>1. i - 1 = j - 1
      BY <1>4, <2>3 DEF IsInjective
    <3> QED
      BY <1>1, <1>3, <3>1
  <2> QED
    BY <2>2, <2>3
<1>6. Range(t) = Range(q) \cup {s}
  <2>1. ASSUME NEW j \in DOMAIN t PROVE t[j] \in Range(q) \cup {s}
    BY <1>3, <1>4 DEF Range
  <2>2. ASSUME NEW j \in DOMAIN q PROVE q[j] \in Range(t)
    <3>1. j + 1 \in DOMAIN t /\ t[j + 1] = q[j]
      BY <1>1, <1>3
    <3> QED
      BY <3>1 DEF Range
  <2>3. s \in Range(t)
    <3>1. 1 \in DOMAIN t
      BY <1>1, <1>3
    <3> QED
      BY <1>3, <3>1 DEF Range
  <2> QED
    BY <2>1, <2>2, <2>3 DEF Range
<1>7. t # <<>>
  BY <1>1, <1>3
<1> QED
  BY <1>3, <1>5, <1>6, <1>7 DEF t

LEMMA Pop ==
    ASSUME NEW S, NEW q \in Seq(S), q # <<>>, IsInjective(q)
    PROVE  /\ Head(q) \in Range(q) /\ Tail(q) \in Seq(S) /\ Len(Tail(q)) = Len(q) - 1
           /\ IsInjective(Tail(q)) /\ Range(Tail(q)) = Range(q) \ {Head(q)}
<1> DEFINE t == Tail(q)
<1>1. Len(q) \in Nat /\ DOMAIN q = 1..Len(q) /\ Len(q) >= 1
  BY LenProperties, EmptySeq
<1>2. /\ t \in Seq(S) /\ Len(t) = Len(q) - 1 /\ Head(q) = q[1]
      /\ \A j \in 1..Len(t) : t[j] = q[j + 1]
  BY <1>1, HeadTailProperties
<1>3. DOMAIN t = 1..(Len(q) - 1)
  BY <1>1, <1>2, LenProperties
<1> HIDE DEF t
<1>4. IsInjective(t)
  <2> SUFFICES ASSUME NEW i \in DOMAIN t, NEW j \in DOMAIN t, t[i] = t[j] PROVE i = j
    BY DEF IsInjective
  <2>1. q[i + 1] = q[j + 1] /\ i + 1 \in DOMAIN q /\ j + 1 \in DOMAIN q
    BY <1>1, <1>2, <1>3
  <2>2. i + 1 = j + 1
    BY <2>1 DEF IsInjective
  <2> QED
    BY <1>1, <1>3, <2>2
<1>5. 1 \in DOMAIN q
  BY <1>1
<1>6. Head(q) \in Range(q)
  BY <1>2, <1>5 DEF Range
<1>7. ASSUME NEW j \in DOMAIN t PROVE t[j] \in Range(q) \ {Head(q)}
  <2>1. t[j] = q[j + 1] /\ j + 1 \in DOMAIN q /\ j + 1 # 1
    BY <1>1, <1>2, <1>3
  <2>2. t[j] # q[1]
    BY <1>5, <2>1 DEF IsInjective
  <2> QED
    BY <1>2, <2>1, <2>2 DEF Range
<1>8. ASSUME NEW j \in DOMAIN q, q[j] # Head(q) PROVE q[j] \in Range(t)
  <2>1. j # 1
    BY <1>2, <1>8
  <2>2. j - 1 \in DOMAIN t /\ t[j - 1] = q[j]
    BY <1>1, <1>2, <1>3, <2>1
  <2> QED
    BY <2>2 DEF Range
<1>9. Range(t) = Range(q) \ {Head(q)}
  BY <1>7, <1>8 DEF Range
<1> QED
  BY <1>2, <1>4, <1>6, <1>9 DEF t

LEMMA ContextInit == PipelineInit => ContextInv
<1> SUFFICES ASSUME PipelineInit PROVE ContextInv
  OBVIOUS
<1>1. /\ stack = [r \in Requests |-> <<>>] /\ ctx = [s \in Slots |-> None] /\ pool = Slots
      /\ pc = [r \in Requests |-> "idle"]
  BY DEF PipelineInit
<1>2. Range(<<>>) = {} /\ IsInjective(<<>>) /\ <<>> \in Seq(Slots)
  BY DEF Range, IsInjective
<1>3. Stacked
  BY <1>1, <1>2 DEF Stacked, Inside
<1>4. ContextsExclusive
  <2>1. \A r \in Requests : Range(stack[r]) = {}
    BY <1>1, <1>2
  <2> QED
    BY <1>1, <2>1 DEF ContextsExclusive
<1> QED
  BY <1>3, <1>4, GuardInit DEF ContextInv

\* A pooled context is taken.
LEMMA TakeContext ==
    ASSUME ContextInv, NEW r \in Requests, newContext(r), GuardInv',
           \A q \in Requests \ {r} : pc'[q] = pc[q]
    PROVE  ContextInv'
<1> DEFINE s == CHOOSE x \in pool : TRUE
<1>1. /\ s \in pool /\ pool' = pool \ {s} /\ ctx' = [ctx EXCEPT ![s] = r]
      /\ stack' = [stack EXCEPT ![r] = <<s>> \o @]
  BY DEF newContext
<1> HIDE DEF s
<1>2. /\ stack \in [Requests -> Seq(Slots)] /\ DOMAIN ctx = Slots
      /\ pool = Slots \ UNION {Range(stack[q]) : q \in Requests}
      /\ \A q \in Requests : IsInjective(stack[q]) /\ (pc[q] \in Inside => stack[q] # <<>>)
      /\ \A q \in Requests : \A x \in Range(stack[q]) : ctx[x] = q
      /\ \A x \in pool : ctx[x] = None
  BY DEF ContextInv, Stacked, ContextsExclusive
<1>3. s \in Slots /\ \A q \in Requests : s \notin Range(stack[q])
  BY <1>1, <1>2
<1>4. /\ <<s>> \o stack[r] \in Seq(Slots) /\ <<s>> \o stack[r] # <<>>
      /\ IsInjective(<<s>> \o stack[r])
      /\ Range(<<s>> \o stack[r]) = Range(stack[r]) \cup {s}
  <2>1. stack[r] \in Seq(Slots) /\ IsInjective(stack[r]) /\ s \notin Range(stack[r])
    BY <1>2, <1>3
  <2> QED
    BY <1>3, <2>1, Push
<1>5. /\ stack'[r] = <<s>> \o stack[r] /\ \A q \in Requests \ {r} : stack'[q] = stack[q]
      /\ stack' \in [Requests -> Seq(Slots)]
  BY <1>1, <1>2, <1>4
<1>6. ctx'[s] = r /\ DOMAIN ctx' = Slots /\ \A x \in Slots \ {s} : ctx'[x] = ctx[x]
  BY <1>1, <1>2, <1>3
<1>7. Stacked'
  BY <1>2, <1>4, <1>5, <1>6 DEF Stacked
<1>8. ASSUME NEW q \in Requests, NEW x \in Range(stack'[q]) PROVE ctx'[x] = q
  <2>1. x \in Slots
    <3>1. stack'[q] \in Seq(Slots)
      BY <1>5
    <3> QED
      BY <3>1 DEF Range
  <2>2. CASE x = s
    <3>1. q = r
      BY <1>3, <1>5, <1>8, <2>2
    <3> QED
      BY <1>6, <2>2, <3>1
  <2>3. CASE x # s
    <3>1. x \in Range(stack[q])
      BY <1>4, <1>5, <1>8, <2>3
    <3> QED
      BY <1>2, <1>6, <2>1, <2>3, <3>1
  <2> QED
    BY <2>2, <2>3
<1>9. pool' = Slots \ UNION {Range(stack'[q]) : q \in Requests}
  <2>1. \A x : x \in pool <=> x \in Slots /\ \A q \in Requests : x \notin Range(stack[q])
    BY <1>2
  <2>2. \A q \in Requests :
            Range(stack'[q]) = IF q = r THEN Range(stack[r]) \cup {s} ELSE Range(stack[q])
    BY <1>4, <1>5
  <2>3. \A x : x \in pool' <=> x \in Slots /\ \A q \in Requests : x \notin Range(stack'[q])
    BY <1>1, <2>1, <2>2
  <2> QED
    BY <2>3
<1>10. \A x \in pool' : ctx'[x] = None
  BY <1>1, <1>2, <1>6
<1> QED
  BY <1>7, <1>8, <1>9, <1>10 DEF ContextInv, ContextsExclusive

\* The innermost context of a request is given back.
LEMMA GiveBack ==
    ASSUME ContextInv, NEW r \in Requests, releaseContext(r), GuardInv'
    PROVE  ContextInv'
<1> DEFINE s == Head(stack[r])
           t == Tail(stack[r])
<1>1. /\ pc[r] = "release" /\ pc' = [pc EXCEPT ![r] = Outside(r)]
      /\ ctx' = [ctx EXCEPT ![s] = None] /\ pool' = pool \cup {s}
      /\ stack' = [stack EXCEPT ![r] = t]
  BY DEF releaseContext, Release, Goto
<1>2. /\ stack \in [Requests -> Seq(Slots)] /\ DOMAIN ctx = Slots
      /\ pool = Slots \ UNION {Range(stack[q]) : q \in Requests}
      /\ \A q \in Requests : IsInjective(stack[q]) /\ (pc[q] \in Inside => stack[q] # <<>>)
      /\ \A q \in Requests : \A x \in Range(stack[q]) : ctx[x] = q
      /\ \A x \in pool : ctx[x] = None
      /\ pc \in [Requests -> Places]
  BY DEF ContextInv, GuardInv, TypeOK, Stacked, ContextsExclusive
<1>3. /\ s \in Range(stack[r]) /\ t \in Seq(Slots) /\ Len(t) = Len(stack[r]) - 1
      /\ IsInjective(t) /\ Range(t) = Range(stack[r]) \ {s}
  <2>1. stack[r] \in Seq(Slots) /\ stack[r] # <<>> /\ IsInjective(stack[r])
    BY <1>1, <1>2 DEF Inside
  <2> QED
    BY <2>1, Pop
<1>4. Outside(r) \in Inside => t # <<>>
  <2>1. Len(stack[r]) \in Nat /\ Len(stack[r]) # 0 /\ Len(<<>>) = 0
    <3>1. stack[r] \in Seq(Slots) /\ stack[r] # <<>>
      BY <1>1, <1>2 DEF Inside
    <3> QED
      BY <3>1, LenProperties, EmptySeq
  <2>2. Len(stack[r]) = 1 => Outside(r) = "finish"
    BY DEF Outside
  <2>3. Len(t) = Len(stack[r]) - 1
    BY <1>3
  <2> HIDE DEF t
  <2>4. CASE Len(stack[r]) = 1
    BY <2>2, <2>4 DEF Inside
  <2>5. CASE Len(stack[r]) # 1
    <3>1. Len(t) # Len(<<>>)
      BY <2>1, <2>3, <2>5
    <3> QED
      BY <3>1
  <2> QED
    BY <2>4, <2>5
<1> HIDE DEF s, t
<1>5. s \in Slots /\ \A q \in Requests \ {r} : s \notin Range(stack[q])
  <2>1. stack[r] \in Seq(Slots)
    BY <1>2
  <2> QED
    BY <1>2, <1>3, <2>1 DEF Range
<1>6. /\ stack'[r] = t /\ \A q \in Requests \ {r} : stack'[q] = stack[q]
      /\ stack' \in [Requests -> Seq(Slots)]
  BY <1>1, <1>2, <1>3
<1>7. ctx'[s] = None /\ DOMAIN ctx' = Slots /\ \A x \in Slots \ {s} : ctx'[x] = ctx[x]
  BY <1>1, <1>2, <1>5
<1>8. Stacked'
  BY <1>1, <1>2, <1>3, <1>4, <1>6, <1>7 DEF Stacked
<1>9. \A q \in Requests : Range(stack'[q]) = Range(stack[q]) \ {s}
  BY <1>3, <1>5, <1>6
<1>10. \A q \in Requests : \A x \in Range(stack'[q]) : x \in Slots /\ ctx'[x] = q
  <2>1. ASSUME NEW q \in Requests, NEW x \in Range(stack[q]) PROVE x \in Slots
    <3>1. stack[q] \in Seq(Slots)
      BY <1>2
    <3> QED
      BY <3>1 DEF Range
  <2> QED
    BY <1>2, <1>7, <1>9, <2>1
<1>11. pool' = Slots \ UNION {Range(stack'[q]) : q \in Requests}
  <2>1. \A x : x \in pool <=> x \in Slots /\ \A q \in Requests : x \notin Range(stack[q])
    BY <1>2
  <2>2. \A x : x \in pool' <=> x \in Slots /\ \A q \in Requests : x \notin Range(stack'[q])
    BY <1>1, <1>5, <1>9, <2>1
  <2> QED
    BY <2>2
<1>12. \A x \in pool' : ctx'[x] = None
  BY <1>1, <1>2, <1>7
<1> QED
  BY <1>8, <1>10, <1>11, <1>12 DEF ContextInv, ContextsExclusive

\* Other steps leave the contexts alone, and nobody comes in without one.
LEMMA ContextsAlone ==
    ASSUME ContextInv, GuardInv', UNCHANGED <<stack, ctx, pool>>,
           \A q \in Requests : pc'[q] \in Inside => pc[q] \in Inside
    PROVE  ContextInv'
BY DEF ContextInv, Stacked, ContextsExclusive

LEMMA ContextNext == ContextInv /\ [PipelineNext]_pvars => ContextInv'
<1> SUFFICES ASSUME ContextInv, [PipelineNext]_pvars PROVE ContextInv'
  OBVIOUS
<1>1. GuardInv' /\ pc \in [Requests -> Places]
  BY GuardNext DEF ContextInv, GuardInv, TypeOK
<1>2. CASE Clock \/ UNCHANGED pvars
  <2>1. UNCHANGED <<pc, stack, ctx, pool>>
    BY <1>2 DEF Clock, pvars, flow
  <2> QED
    BY <1>1, <2>1, ContextsAlone
<1>3. ASSUME NEW r \in Requests, Begin(r) \/ BeginUnreadable(r) \/ CallNext(r) PROVE ContextInv'
  <2>1. newContext(r) /\ \E to : pc' = [pc EXCEPT ![r] = to]
    BY <1>3 DEF Begin, BeginUnreadable, CallNext, Goto
  <2> QED
    BY <1>1, <2>1, TakeContext
<1>4. ASSUME NEW r \in Requests, releaseContext(r) PROVE ContextInv'
  BY <1>1, <1>4, GiveBack
<1>5. ASSUME NEW r \in Requests,
             \/ PassBy(r) \/ LimitPassed(r) \/ Verify(r) \/ Finish(r)
             \/ \E rt \in RoutesOf[r] : Arrive(r, rt)
      PROVE  ContextInv'
  <2>1. UNCHANGED <<stack, ctx, pool>>
    BY <1>5 DEF PassBy, LimitPassed, Verify, Finish, Arrive
  <2>2. \E to \in {"next", "done", "core"} : pc' = [pc EXCEPT ![r] = to]
    BY <1>5 DEF PassBy, LimitPassed, Verify, Finish, Arrive, Goto
  <2>3. \A q \in Requests : pc'[q] \in Inside => pc[q] \in Inside
    BY <1>1, <2>2 DEF Inside
  <2> QED
    BY <1>1, <2>1, <2>3, ContextsAlone
<1>6. ASSUME NEW r \in Requests,
             \/ Limit(r) \/ LimitRefused(r) \/ VerifyRefuses(r) \/ HandlerReturns(r)
             \/ HandlerFails(r) \/ HandlerPanics(r) \/ NoRoute(r) \/ Deferred(r)
      PROVE  ContextInv'
  <2>1. UNCHANGED <<stack, ctx, pool>>
    BY <1>6 DEF Limit, LimitRefused, VerifyRefuses, HandlerReturns, HandlerFails, HandlerPanics,
                NoRoute, Deferred, flow
  <2>2. pc[r] \in Inside /\ (pc' = pc \/ \E to : pc' = [pc EXCEPT ![r] = to])
    BY <1>6 DEF Limit, LimitRefused, VerifyRefuses, HandlerReturns, HandlerFails, HandlerPanics,
                Handled, NoRoute, Deferred, flow, Goto, Inside
  <2>3. \A q \in Requests : pc'[q] \in Inside => pc[q] \in Inside
    BY <1>1, <2>2
  <2> QED
    BY <1>1, <2>1, <2>3, ContextsAlone
<1> QED
  BY <1>2, <1>3, <1>4, <1>5, <1>6 DEF PipelineNext, Step

\* No two requests ever hold one context, whichever handlers panic, and every context
\* that nobody holds is back in the pool and refers to nobody.
THEOREM ContextsKept == PipelineSpec => []ContextsExclusive
<1>1. ContextInv => ContextsExclusive
  BY DEF ContextInv
<1> QED
  BY <1>1, ContextInit, ContextNext, PTL DEF PipelineSpec

-------------------------------------------------------------------------------
(* Replies *)

Replies == [status : {0, 200, 400, 401, 404, 429, 500}, header : BOOLEAN,
            bodies : Seq({"payload", "failure"}), log : BOOLEAN \cup {None}]

ReplyTypeOK ==
    /\ reply \in [Requests -> Replies]
    /\ payload \in [Requests -> BOOLEAN] /\ panicking \in [Requests -> BOOLEAN]
    /\ traced \in [Requests -> BOOLEAN]

\* The deferred function of the core middleware has still to run for r.
Pending(r) ==
    \/ pc[r] \in {"idle", "core", "next", "limit", "verify", "handler", "deferred"}
    \/ pc[r] = "release" /\ Len(stack[r]) # 1

\* How many contexts r is inside: the one of the core middleware, and one per handler.
Deep(r) ==
    /\ pc[r] # "noroute"
    /\ pc[r] \in {"idle", "core"} => stack[r] = <<>>
    /\ pc[r] = "next" => stack[r] # <<>>
    /\ pc[r] \in {"limit", "verify", "handler"} => Len(stack[r]) > 1
    /\ pc[r] = "deferred" => Len(stack[r]) = 1

\* Until then all that was sent is the status of an abort, and a request that is given
\* a payload, aborted or panicking is only one of these.
Unsent(r) ==
    Pending(r) =>
        /\ reply[r].bodies = <<>> /\ ~reply[r].header /\ reply[r].log = None
        /\ reply[r].status = IF abortErr[r] = None THEN 0 ELSE abortErr[r]
        /\ abortedBy[r] # "panic"
        /\ payload[r] => handled[r] /\ ~panicking[r]
        /\ payload[r] \/ panicking[r] => abortErr[r] = None

\* While handlers are left to run, it is none of these; on the way out of them, one.
Decided(r) ==
    /\ pc[r] \in {"idle", "core", "next", "limit", "verify", "handler"} =>
          abortErr[r] = None /\ ~payload[r] /\ ~panicking[r]
    /\ pc[r] = "deferred" \/ (pc[r] = "release" /\ Len(stack[r]) # 1) =>
          abortErr[r] # None \/ payload[r] \/ panicking[r]

\* What ReplyMatches says of a request that is done.
Answer(r) ==
    /\ reply[r].bodies = <<IF payload[r] THEN "payload" ELSE "failure">>
    /\ reply[r].status = IF payload[r] THEN 200 ELSE abortErr[r]
    /\ reply[r].log \in {None, payload[r]}
    /\ traced[r] /\ (payload[r] \/ abortedBy[r] = "panic") => reply[r].header

Answered(r) == ~Pending(r) /\ ~panicking[r] => Answer(r) /\ (payload[r] \/ abortErr[r] # None)

Replied(r) == Deep(r) /\ Unsent(r) /\ Decided(r) /\ Answered(r)

ReplyInv ==
    /\ ContextInv /\ ReplyTypeOK
    /\ \A r \in Requests : pc[r] = "idle" \/ route[r] # "none" => Replied(r)

Statuses == {200, 400, 401, 404, 429, 500}

LEMMA StatusWritten ==
    ASSUME NEW rep \in Replies, NEW code \in Statuses
    PROVE  /\ WriteStatus(rep, code) \in Replies
           /\ WriteStatus(rep, code).status = IF rep.status = 0 THEN code ELSE rep.status
           /\ WriteStatus(rep, code).header = rep.header
           /\ WriteStatus(rep, code).bodies = rep.bodies
           /\ WriteStatus(rep, code).log = rep.log
BY DEF WriteStatus, Replies, Statuses

LEMMA BodyWritten ==
    ASSUME NEW rep \in Replies, NEW code \in Statuses, NEW body \in {"payload", "failure"}
    PROVE  /\ WriteBody(rep, code, body) \in Replies
           /\ WriteBody(rep, code, body).status = IF rep.status = 0 THEN code ELSE rep.status
           /\ WriteBody(rep, code, body).header = rep.header
           /\ WriteBody(rep, code, body).bodies = Append(rep.bodies, body)
           /\ WriteBody(rep, code, body).log = rep.log
<1> DEFINE w == WriteStatus(rep, code)
<1>1. /\ w \in Replies /\ w.status = IF rep.status = 0 THEN code ELSE rep.status
      /\ w.header = rep.header /\ w.bodies = rep.bodies /\ w.log = rep.log
  BY StatusWritten
<1>2. WriteBody(rep, code, body) = [w EXCEPT !.bodies = Append(@, body)]
  BY DEF WriteBody
<1> HIDE DEF w
<1>3. PICK b \in Seq({"payload", "failure"}) : b = Append(w.bodies, body)
  <2>1. w.bodies \in Seq({"payload", "failure"})
    BY <1>1 DEF Replies
  <2> QED
    BY <2>1, AppendProperties
<1>4. WriteBody(rep, code, body) = [w EXCEPT !.bodies = b]
  BY <1>2, <1>3
<1>5. w = [status |-> w.status, header |-> w.header, bodies |-> w.bodies, log |-> w.log]
  BY <1>1 DEF Replies
<1>6. [w EXCEPT !.bodies = b] =
          [status |-> w.status, header |-> w.header, bodies |-> b, log |-> w.log]
  BY <1>5
<1>7. [w EXCEPT !.bodies = b] \in Replies
  <2>1. /\ w.status \in {0, 200, 400, 401, 404, 429, 500} /\ w.header \in BOOLEAN
        /\ w.log \in BOOLEAN \cup {None}
    BY <1>1 DEF Replies
  <2>2. [status |-> w.status, header |-> w.header, bodies |-> b, log |-> w.log] \in Replies
    BY <1>3, <2>1 DEF Replies
  <2> QED
    BY <1>6, <2>2
<1> QED
  BY <1>1, <1>3, <1>4, <1>6, <1>7

LEMMA ReplyInit == PipelineInit => ReplyInv
<1> SUFFICES ASSUME PipelineInit PROVE ReplyInv
  OBVIOUS
<1>1. /\ pc = [r \in Requests |-> "idle"] /\ stack = [r \in Requests |-> <<>>]
      /\ abortErr = [r \in Requests |-> None] /\ reply = [r \in Requests |-> NoReply]
      /\ abortedBy = [r \in Requests |-> "nobody"]
      /\ panicking = [r \in Requests |-> FALSE] /\ traced = panicking /\ payload = panicking
  BY DEF PipelineInit
<1>2. NoReply \in Replies
  BY DEF NoReply, Replies
<1>3. ReplyTypeOK
  BY <1>1, <1>2 DEF ReplyTypeOK
<1>4. ASSUME NEW r \in Requests PROVE Replied(r)
  BY <1>1, NoneIsNoCode DEF Replied, Deep, Unsent, Decided, Answered, Pending, NoReply
<1> QED
  BY <1>3, <1>4, ContextInit DEF ReplyInv

\* What is said of the reply to request q depends on.
Alone(q) ==
    /\ pc'[q] = pc[q] /\ route'[q] = route[q] /\ stack'[q] = stack[q]
    /\ reply'[q] = reply[q] /\ abortErr'[q] = abortErr[q] /\ payload'[q] = payload[q]
    /\ abortedBy'[q] = abortedBy[q] /\ panicking'[q] = panicking[q] /\ traced'[q] = traced[q] /\ handled'[q] = handled[q]

LEMMA SameReply == ASSUME NEW q, Replied(q), Alone(q) PROVE Replied(q)'
BY DEF Alone, Replied, Deep, Unsent, Decided, Answered, Answer, Pending

LEMMA ReplyOfOne ==
    ASSUME ReplyInv, NEW r \in Requests, ContextInv', ReplyTypeOK',
           pc'[r] = "idle" \/ route'[r] # "none" => Replied(r)',
           \A q \in Requests \ {r} : Alone(q)
    PROVE  ReplyInv'
<1>1. ASSUME NEW q \in Requests \ {r}, pc'[q] = "idle" \/ route'[q] # "none"
      PROVE  Replied(q)'
  <2>1. Replied(q)
    BY <1>1 DEF ReplyInv, Alone
  <2> QED
    BY <1>1, <2>1, SameReply
<1> QED
  BY <1>1 DEF ReplyInv

\* The parts of the invariant a step starts from.
LEMMA ReplyFacts ==
    ASSUME ReplyInv, NEW r \in Requests
    PROVE  /\ TypeOK /\ ReplyTypeOK /\ OnTheWay(r)
           /\ stack \in [Requests -> Seq(Slots)] /\ stack[r] \in Seq(Slots)
           /\ Len(stack[r]) \in Nat /\ (stack[r] = <<>> <=> Len(stack[r]) = 0)
           /\ pc[r] = "release" => stack[r] # <<>>
           /\ pc[r] = "idle" \/ route[r] # "none" => Replied(r)
<1>1. stack \in [Requests -> Seq(Slots)] /\ (pc[r] \in Inside => stack[r] # <<>>)
  BY DEF ReplyInv, ContextInv, Stacked
<1>2. Len(stack[r]) \in Nat /\ (stack[r] = <<>> <=> Len(stack[r]) = 0)
  BY <1>1, LenProperties, EmptySeq
<1> QED
  BY <1>1, <1>2 DEF ReplyInv, ContextInv, GuardInv, Inside

LEMMA PushLen ==
    ASSUME TypeOK, stack \in [Requests -> Seq(Slots)], NEW r \in Requests, newContext(r)
    PROVE  /\ \A q \in Requests \ {r} : stack'[q] = stack[q]
           /\ Len(stack'[r]) = 1 + Len(stack[r])
<1> DEFINE s == CHOOSE x \in pool : TRUE
<1>1. stack' = [stack EXCEPT ![r] = <<s>> \o @]
  BY DEF newContext
<1> HIDE DEF s
<1> QED
  BY <1>1

\* The way in: nothing has been decided, nothing is sent.
LEMMA InwardReply ==
    ASSUME ReplyInv, ContextInv', NEW r \in Requests,
           PassBy(r) \/ Begin(r) \/ BeginUnreadable(r) \/ \E rt \in RoutesOf[r] : Arrive(r, rt)
    PROVE  ReplyInv'
<1>1. /\ TypeOK /\ ReplyTypeOK /\ stack \in [Requests -> Seq(Slots)]
      /\ pc[r] = "idle" \/ route[r] # "none" => Replied(r)
  BY ReplyFacts
<1>2. CASE PassBy(r) \/ \E rt \in RoutesOf[r] : Arrive(r, rt)
  <2>1. /\ \/ pc[r] = "idle" /\ pc' = [pc EXCEPT ![r] = "core"]
           \/ pc[r] = "core" /\ pc' = [pc EXCEPT ![r] = "next"]
        /\ pc[r] = "core" => route[r] = "none" /\ route' = route
        /\ \E rt : route' = [route EXCEPT ![r] = rt]
        /\ UNCHANGED <<stack, reply, abortErr, abortedBy, payload, panicking, traced, handled>>
    <3>1. route = [route EXCEPT ![r] = route[r]]
      BY <1>1 DEF TypeOK
    <3>2. CASE PassBy(r)
      BY <3>1, <3>2 DEF PassBy, Goto, local
    <3>3. CASE \E rt \in RoutesOf[r] : Arrive(r, rt)
      BY <3>3 DEF Arrive, Goto
    <3> QED
      BY <1>2, <3>2, <3>3
  <2>2. ReplyTypeOK' /\ \A q \in Requests \ {r} : Alone(q)
    BY <1>1, <2>1 DEF TypeOK, ReplyTypeOK, Alone
  <2>3. pc'[r] = "idle" \/ route'[r] # "none" => Replied(r)'
    BY <1>1, <2>1 DEF TypeOK, Replied, Deep, Unsent, Decided, Answered, Pending
  <2> QED
    BY <2>2, <2>3, ReplyOfOne
<1>3. CASE Begin(r) \/ BeginUnreadable(r)
  <2>1. /\ pc[r] = "core" /\ route[r] # "none" /\ newContext(r)
        /\ \/ pc' = [pc EXCEPT ![r] = "next"] /\ panicking' = panicking
              /\ traced' = [traced EXCEPT ![r] = route[r] # "health"]
           \/ pc' = [pc EXCEPT ![r] = "release"] /\ traced' = traced
              /\ panicking' = [panicking EXCEPT ![r] = TRUE]
        /\ UNCHANGED <<route, reply, abortErr, abortedBy, payload, handled>>
    BY <1>3 DEF Begin, BeginUnreadable, Goto
  <2>2. stack[r] = <<>> /\ Len(stack'[r]) = 1 /\ \A q \in Requests \ {r} : stack'[q] = stack[q]
    <3>1. stack[r] = <<>> /\ Len(stack[r]) = 0
      BY <1>1, <2>1, ReplyFacts DEF Replied, Deep
    <3> QED
      <4>1. Len(stack'[r]) = 1 + Len(stack[r])
        BY <1>1, <2>1, PushLen
      <4> QED
        BY <1>1, <2>1, <3>1, <4>1, PushLen
  <2>3. ReplyTypeOK' /\ \A q \in Requests \ {r} : Alone(q)
    BY <1>1, <2>1, <2>2 DEF TypeOK, ReplyTypeOK, Alone
  <2>4. Replied(r)'
    <3>1. stack'[r] # <<>> /\ pc'[r] \in {"next", "release"}
      <4>1. Len(<<>>) = 0 /\ Len(stack'[r]) # 0
        BY <2>2
      <4> QED
        BY <1>1, <2>1, <4>1 DEF TypeOK
    <3> QED
      BY <1>1, <2>1, <2>2, <3>1 DEF TypeOK, ReplyTypeOK, Replied, Deep, Unsent, Decided, Answered, Pending
  <2> QED
    BY <2>3, <2>4, ReplyOfOne
<1> QED
  BY <1>2, <1>3

\* The next handler is another one than that of NoRoute unless there is no route.
LEMMA NextHandler ==
    ASSUME GuardInv, NEW r \in Requests, chain[r] # <<>>
    PROVE  /\ Head(chain[r]) \in {"limit", "verify", "handler", "noroute"}
           /\ route[r] # "none" => Head(chain[r]) # "noroute"
<1>1. chain[r] \in {<<"handler">>, Chain(route[r])} /\ route[r] \in Routes
  BY DEF GuardInv, TypeOK, OnTheWay, Remaining
<1>2. /\ chain[r] \in Chains
      /\ route[r] # "none" => chain[r] \in Chains \ {<<"noroute">>}
  <2>1. <<"handler">> \in Chains
    BY DEF Chains
  <2>2. ASSUME route[r] # "none" PROVE chain[r] # <<"noroute">>
    <3>1. Chain(route[r]) \in {<<"handler">>, <<"limit", "handler">>, <<"verify", "handler">>}
      BY <1>1, <2>2, ChainOf
    <3>2. \A c \in {<<"handler">>, <<"limit", "handler">>, <<"verify", "handler">>} : c[1] # "noroute"
      OBVIOUS
    <3>3. <<"noroute">>[1] = "noroute"
      OBVIOUS
    <3> QED
      BY <1>1, <3>1, <3>2, <3>3
  <2> QED
    BY <1>1, <2>1, <2>2, ChainOf
<1>3. \A c \in Chains \ {<<>>} :
          /\ Head(c) \in {"limit", "verify", "handler", "noroute"}
          /\ Head(c) = "noroute" => c = <<"noroute">>
  BY DEF Chains
<1> QED
  BY <1>2, <1>3

LEMMA CallNextReply == ASSUME ReplyInv, ContextInv', NEW r \in Requests, CallNext(r) PROVE ReplyInv'
<1>1. /\ TypeOK /\ ReplyTypeOK /\ stack \in [Requests -> Seq(Slots)] /\ OnTheWay(r)
      /\ route[r] # "none" => Replied(r)
  BY ReplyFacts
<1>2. /\ pc[r] = "next" /\ chain[r] # <<>> /\ newContext(r)
      /\ pc' = [pc EXCEPT ![r] = Head(chain[r])]
      /\ UNCHANGED <<route, reply, abortErr, abortedBy, payload, panicking, traced, handled>>
  BY DEF CallNext, Goto, local
<1>3. ReplyTypeOK' /\ \A q \in Requests \ {r} : Alone(q)
  BY <1>1, <1>2, PushLen DEF TypeOK, ReplyTypeOK, Alone
<1>4. GuardInv
  BY DEF ReplyInv, ContextInv
<1>5. pc'[r] # "idle"
  BY <1>1, <1>2, <1>4, NextHandler DEF TypeOK
<1>6. ASSUME route[r] # "none" PROVE Replied(r)'
  <2>1. pc'[r] \in {"limit", "verify", "handler"}
    BY <1>1, <1>2, <1>4, <1>6, NextHandler DEF TypeOK
  <2>2. Len(stack[r]) \in Nat /\ Len(stack[r]) # 0
    BY <1>1, <1>2, <1>6, ReplyFacts DEF Replied, Deep
  <2>3. Len(stack'[r]) > 1
    BY <1>1, <1>2, <2>2, PushLen
  <2> QED
    BY <1>1, <1>2, <1>6, <2>1, <2>3 DEF Replied, Deep, Unsent, Decided, Answered, Pending
<1> QED
  BY <1>2, <1>3, <1>5, <1>6, ReplyOfOne

\* The limiter and the token check let a request go on ...
LEMMA PassedReply ==
    ASSUME ReplyInv, ContextInv', NEW r \in Requests, Limit(r) \/ LimitPassed(r) \/ Verify(r)
    PROVE  ReplyInv'
<1>1. /\ TypeOK /\ ReplyTypeOK /\ Len(stack[r]) \in Nat /\ (stack[r] = <<>> <=> Len(stack[r]) = 0)
      /\ route[r] # "none" => Replied(r)
  BY ReplyFacts
<1>2. /\ pc[r] \in {"limit", "verify"} /\ (pc' = pc \/ pc' = [pc EXCEPT ![r] = "next"])
      /\ UNCHANGED <<route, stack, reply, abortErr, abortedBy, payload, panicking, traced, handled>>
  BY DEF Limit, LimitPassed, Verify, Goto, flow, local
<1>3. ReplyTypeOK' /\ \A q \in Requests \ {r} : Alone(q)
  BY <1>1, <1>2 DEF TypeOK, ReplyTypeOK, Alone
<1>4. pc'[r] \in {"limit", "verify", "next"}
  BY <1>1, <1>2 DEF TypeOK
<1>5. ASSUME route[r] # "none" PROVE Replied(r)'
  BY <1>1, <1>2, <1>4, <1>5 DEF Replied, Deep, Unsent, Decided, Answered, Pending
<1> QED
  BY <1>2, <1>3, <1>4, <1>5, ReplyOfOne

\* ... or abort it, as handlers may.
LEMMA AbortedReply ==
    ASSUME ReplyInv, ContextInv', NEW r \in Requests,
           LimitRefused(r) \/ VerifyRefuses(r) \/ HandlerFails(r)
    PROVE  ReplyInv'
<1>1. TypeOK /\ ReplyTypeOK /\ Len(stack[r]) \in Nat /\ (route[r] # "none" => Replied(r))
  BY ReplyFacts
<1>2. PICK code \in {400, 401, 429, 500}, by \in {"guard", "handler"} :
      /\ pc[r] \in {"limit", "verify", "handler"} /\ pc' = [pc EXCEPT ![r] = "release"]
      /\ AbortWithError(r, code, by)
      /\ \E h : handled' = [handled EXCEPT ![r] = h]
      /\ UNCHANGED <<route, stack, payload, panicking, traced>>
  <2>1. handled = [handled EXCEPT ![r] = handled[r]]
    BY <1>1 DEF TypeOK
  <2> QED
    BY <2>1 DEF LimitRefused, VerifyRefuses, HandlerFails, Errors, Handled, Goto
<1>3. /\ abortErr' = [abortErr EXCEPT ![r] = code]
      /\ abortedBy' = [abortedBy EXCEPT ![r] = by]
      /\ reply' = [reply EXCEPT ![r] = WriteStatus(reply[r], code)]
  BY <1>2 DEF AbortWithError
<1>4. reply[r] \in Replies /\ code \in Statuses
  BY <1>1 DEF ReplyTypeOK, Statuses
<1>5. ReplyTypeOK' /\ \A q \in Requests \ {r} : Alone(q)
  BY <1>1, <1>2, <1>3, <1>4, StatusWritten DEF TypeOK, ReplyTypeOK, Alone
<1>6. pc'[r] = "release" /\ abortErr'[r] = code /\ abortedBy'[r] = by /\ reply'[r] = WriteStatus(reply[r], code)
  BY <1>1, <1>2, <1>3 DEF TypeOK, ReplyTypeOK
<1>7. ASSUME route[r] # "none" PROVE Replied(r)'
  <2>1. /\ Len(stack[r]) # 1 /\ abortErr[r] = None /\ ~payload[r] /\ ~panicking[r]
        /\ reply[r].bodies = <<>> /\ ~reply[r].header /\ reply[r].log = None
        /\ reply[r].status = 0
    <3>1. pc[r] \in {"limit", "verify", "handler"} /\ Deep(r) /\ Decided(r) /\ Unsent(r)
      BY <1>1, <1>2, <1>7 DEF Replied
    <3>2. Len(stack[r]) # 1
      <4>1. PICK n \in Nat : n = Len(stack[r])
        BY <1>1
      <4>2. n > 1
        BY <1>1, <3>1, <4>1 DEF Deep
      <4>3. n # 1
        BY <4>2
      <4> QED
        BY <4>1, <4>3
    <3>3. abortErr[r] = None /\ ~payload[r] /\ ~panicking[r]
      BY <3>1 DEF Decided
    <3> QED
      BY <3>1, <3>2, <3>3 DEF Unsent, Pending
  <2>2. /\ reply'[r].bodies = <<>> /\ ~reply'[r].header /\ reply'[r].log = None
        /\ reply'[r].status = code
    BY <1>4, <1>6, <2>1, StatusWritten
  <2> QED
    BY <1>2, <1>6, <2>1, <2>2, NoneIsNoCode DEF Replied, Deep, Unsent, Decided, Answered, Pending
<1> QED
  BY <1>2, <1>5, <1>6, <1>7, ReplyOfOne

\* A handler that finishes or panics has sent nothing.
LEMMA HandlerReply ==
    ASSUME ReplyInv, ContextInv', NEW r \in Requests,
           HandlerReturns(r) \/ HandlerPanics(r) \/ NoRoute(r)
    PROVE  ReplyInv'
<1>1. TypeOK /\ ReplyTypeOK /\ Len(stack[r]) \in Nat /\ (route[r] # "none" => Replied(r))
  BY ReplyFacts
<1>2. /\ pc' = [pc EXCEPT ![r] = "release"]
      /\ \/ /\ pc[r] = "handler" /\ handled' = [handled EXCEPT ![r] = TRUE] /\ traced' = traced
            /\ \/ payload' = [payload EXCEPT ![r] = TRUE] /\ panicking' = panicking
               \/ panicking' = [panicking EXCEPT ![r] = TRUE] /\ payload' = payload
         \/ /\ pc[r] = "noroute" /\ traced' = [traced EXCEPT ![r] = FALSE]
            /\ UNCHANGED <<handled, payload, panicking>>
      /\ UNCHANGED <<route, stack, reply, abortErr, abortedBy>>
  BY DEF HandlerReturns, HandlerPanics, NoRoute, Handled, Goto
<1>3. ReplyTypeOK' /\ \A q \in Requests \ {r} : Alone(q)
  BY <1>1, <1>2 DEF TypeOK, ReplyTypeOK, Alone
<1>4. pc'[r] = "release"
  BY <1>1, <1>2 DEF TypeOK
<1>5. ASSUME route[r] # "none" PROVE Replied(r)'
  <2>1. /\ pc[r] = "handler" /\ Len(stack[r]) # 1 /\ handled'[r]
        /\ abortErr[r] = None /\ ~payload[r] /\ ~panicking[r]
        /\ payload'[r] \/ panicking'[r]
        /\ ~(payload'[r] /\ panicking'[r])
    <3>1. pc[r] = "handler" /\ Deep(r) /\ Decided(r)
      BY <1>1, <1>2, <1>5 DEF Replied, Deep
    <3>2. Len(stack[r]) # 1
      <4>1. PICK n \in Nat : n = Len(stack[r])
        BY <1>1
      <4>2. n > 1
        BY <1>1, <3>1, <4>1 DEF Deep
      <4>3. n # 1
        BY <4>2
      <4> QED
        BY <4>1, <4>3
    <3> QED
      BY <1>1, <1>2, <3>1, <3>2 DEF TypeOK, ReplyTypeOK, Decided
  <2> QED
    BY <1>1, <1>2, <1>4, <1>5, <2>1 DEF Replied, Deep, Unsent, Decided, Answered, Pending
<1> QED
  BY <1>2, <1>3, <1>4, <1>5, ReplyOfOne

\* The deferred function of the core middleware sends what the request came to.
LEMMA DeferredReply == ASSUME ReplyInv, ContextInv', NEW r \in Requests, Deferred(r) PROVE ReplyInv'
<1>1. TypeOK /\ ReplyTypeOK /\ (route[r] # "none" => Replied(r))
  BY ReplyFacts
<1> DEFINE aborted == Recovered(r)
           failed  == IF aborted.code = None THEN aborted.reply
                      ELSE WriteBody(aborted.reply, aborted.code, "failure")
           full    == IF payload[r] THEN WriteBody(failed, 200, "payload") ELSE failed
           success == aborted.code = None /\ full.status \in {0, 200}
           sent    == [reply[r] EXCEPT !.header = traced[r] /\ reply[r].status = 0]
           final   == [full EXCEPT !.log = IF traced[r] THEN success ELSE None]
<1>2. /\ pc[r] = "deferred" /\ pc' = [pc EXCEPT ![r] = "release"]
      /\ panicking' = [panicking EXCEPT ![r] = FALSE]
      /\ abortErr' = [abortErr EXCEPT ![r] = aborted.code]
      /\ abortedBy' = [abortedBy EXCEPT ![r] = aborted.by]
      /\ reply' = [reply EXCEPT ![r] = final]
      /\ UNCHANGED <<route, stack, payload, traced, handled>>
  BY DEF Deferred, Goto
<1>3. /\ sent \in Replies /\ sent.status = reply[r].status /\ sent.bodies = reply[r].bodies
      /\ sent.header = (traced[r] /\ reply[r].status = 0) /\ sent.log = reply[r].log
  <2>1. reply[r] \in Replies
    BY <1>1 DEF ReplyTypeOK
  <2>2. reply[r] = [status |-> reply[r].status, header |-> reply[r].header,
                    bodies |-> reply[r].bodies, log |-> reply[r].log]
    BY <2>1 DEF Replies
  <2>3. PICK h \in BOOLEAN : h = (traced[r] /\ reply[r].status = 0)
    OBVIOUS
  <2>4. /\ reply[r].status \in {0, 200, 400, 401, 404, 429, 500}
        /\ reply[r].log \in BOOLEAN \cup {None}
        /\ reply[r].bodies \in Seq({"payload", "failure"})
    BY <2>1 DEF Replies
  <2>5. sent = [status |-> reply[r].status, header |-> h,
                bodies |-> reply[r].bodies, log |-> reply[r].log]
    BY <2>2, <2>3
  <2>6. [status |-> reply[r].status, header |-> h, bodies |-> reply[r].bodies, log |-> reply[r].log]
            \in Replies
    BY <2>4 DEF Replies
  <2> QED
    BY <2>3, <2>5, <2>6
<1>4. /\ panicking[r] => aborted.code = 500 /\ aborted.reply = WriteStatus(sent, 500)
      /\ ~panicking[r] => /\ aborted.code = abortErr[r] /\ aborted.by = abortedBy[r]
                         /\ aborted.reply = sent
  BY DEF Recovered
<1> HIDE DEF sent, aborted
<1>5. /\ aborted.code \in Codes /\ aborted.reply \in Replies
      /\ aborted.reply.bodies = reply[r].bodies
      /\ aborted.reply.header = (traced[r] /\ reply[r].status = 0)
      /\ aborted.reply.status = IF panicking[r] /\ reply[r].status = 0 THEN 500 ELSE reply[r].status
  <2>1. CASE panicking[r]
    BY <1>3, <1>4, <2>1, StatusWritten DEF Codes, Statuses
  <2>2. CASE ~panicking[r]
    BY <1>1, <1>3, <1>4, <2>2 DEF TypeOK
  <2> QED
    BY <2>1, <2>2
<1>6. \A c \in Codes : c # None => c \in Statuses
  BY DEF Codes, Statuses
<1>7. /\ failed \in Replies /\ failed.header = aborted.reply.header
      /\ aborted.code = None => failed = aborted.reply
      /\ aborted.code # None =>
            /\ failed.bodies = Append(aborted.reply.bodies, "failure")
            /\ failed.status = IF aborted.reply.status = 0 THEN aborted.code ELSE aborted.reply.status
  BY <1>5, <1>6, BodyWritten
<1> HIDE DEF failed
<1>8. /\ full \in Replies /\ full.header = failed.header
      /\ ~payload[r] => full = failed
      /\ payload[r] => /\ full.bodies = Append(failed.bodies, "payload")
                       /\ full.status = IF failed.status = 0 THEN 200 ELSE failed.status
  <2>1. CASE payload[r]
    <3>1. full = WriteBody(failed, 200, "payload") /\ 200 \in Statuses
      BY <2>1 DEF Statuses
    <3> QED
      BY <1>7, <2>1, <3>1, BodyWritten
  <2>2. CASE ~payload[r]
    BY <1>7, <2>2
  <2> QED
    BY <2>1, <2>2
<1> HIDE DEF full
<1>9. /\ final \in Replies /\ final.status = full.status /\ final.header = full.header
      /\ final.bodies = full.bodies /\ final.log \in {None, success}
  <2>1. PICK l \in BOOLEAN \cup {None} : l = (IF traced[r] THEN success ELSE None)
    OBVIOUS
  <2>2. final = [full EXCEPT !.log = l] /\ l \in {None, success}
    BY <2>1
  <2>3. full = [status |-> full.status, header |-> full.header, bodies |-> full.bodies, log |-> full.log]
    BY <1>8 DEF Replies
  <2>4. final = [status |-> full.status, header |-> full.header, bodies |-> full.bodies, log |-> l]
    BY <2>2, <2>3
  <2>5. /\ full.status \in {0, 200, 400, 401, 404, 429, 500} /\ full.header \in BOOLEAN
        /\ full.bodies \in Seq({"payload", "failure"})
    BY <1>8 DEF Replies
  <2>6. [status |-> full.status, header |-> full.header, bodies |-> full.bodies, log |-> l] \in Replies
    BY <2>5 DEF Replies
  <2> QED
    BY <2>2, <2>4, <2>6
<1> HIDE DEF final
<1>10. ReplyTypeOK' /\ \A q \in Requests \ {r} : Alone(q)
  BY <1>1, <1>2, <1>9 DEF TypeOK, ReplyTypeOK, Alone
<1>11. /\ pc'[r] = "release" /\ abortErr'[r] = aborted.code /\ reply'[r] = final
       /\ abortedBy'[r] = aborted.by
       /\ ~panicking'[r]
  BY <1>1, <1>2 DEF TypeOK, ReplyTypeOK
<1>12. ASSUME route[r] # "none" PROVE Replied(r)'
  <2>1. Len(stack[r]) = 1 /\ Unsent(r) /\ (abortErr[r] # None \/ payload[r] \/ panicking[r]) /\ Pending(r)
    BY <1>1, <1>2, <1>12 DEF Replied, Deep, Decided, Pending
  <2>2. /\ reply[r].bodies = <<>> /\ reply[r].status = (IF abortErr[r] = None THEN 0 ELSE abortErr[r])
        /\ payload[r] => ~panicking[r]
        /\ payload[r] \/ panicking[r] => abortErr[r] = None
        /\ abortedBy[r] # "panic"
    BY <2>1 DEF Unsent
  <2>3. Append(<<>>, "failure") = <<"failure">> /\ Append(<<>>, "payload") = <<"payload">>
    OBVIOUS
  <2>4. /\ final.bodies = <<IF payload[r] THEN "payload" ELSE "failure">>
        /\ final.status = IF payload[r] THEN 200 ELSE aborted.code
        /\ success = payload[r] /\ (payload[r] \/ aborted.code # None)
        /\ payload[r] \/ aborted.by = "panic" => final.header = traced[r]
    <3>1. CASE payload[r]
      <4>1. aborted.code = None /\ full.status = 200 /\ full.header = traced[r]
            /\ full.bodies = <<"payload">>
        BY <1>1, <1>4, <1>5, <1>7, <1>8, <2>2, <2>3, <3>1 DEF ReplyTypeOK
      <4> QED
        BY <1>1, <1>9, <3>1, <4>1 DEF ReplyTypeOK
    <3>2. CASE panicking[r]
      <4>1. ~payload[r] /\ aborted.code = 500 /\ aborted.code # None /\ aborted.reply.status = 500
        BY <1>4, <1>5, <2>2, <3>2, NoneIsNoCode
      <4>2. full.status = 500 /\ full.header = traced[r] /\ full.bodies = <<"failure">>
        BY <1>1, <1>5, <1>7, <1>8, <2>2, <2>3, <3>2, <4>1 DEF ReplyTypeOK
      <4> QED
        BY <1>1, <1>9, <4>1, <4>2 DEF ReplyTypeOK
    <3>3. CASE ~payload[r] /\ ~panicking[r]
      <4>1. /\ aborted.code = abortErr[r] /\ abortErr[r] \in {400, 401, 429, 500}
            /\ abortErr[r] # None /\ aborted.by # "panic"
        BY <1>1, <1>4, <2>1, <2>2, <3>3 DEF TypeOK, Codes
      <4>2. full.status = abortErr[r] /\ full.bodies = <<"failure">>
        BY <1>5, <1>7, <1>8, <2>2, <2>3, <3>3, <4>1
      <4> QED
        BY <1>1, <1>9, <3>3, <4>1, <4>2 DEF ReplyTypeOK
    <3> QED
      BY <3>1, <3>2, <3>3
  <2>5. Answer(r)'
    BY <1>2, <1>9, <1>11, <2>4 DEF Answer
  <2> QED
    BY <1>2, <1>11, <2>1, <2>4, <2>5 DEF Replied, Deep, Unsent, Decided, Answered, Pending
<1> QED
  BY <1>2, <1>10, <1>11, <1>12, ReplyOfOne

LEMMA ReleaseReply ==
    ASSUME ReplyInv, ContextInv', NEW r \in Requests, releaseContext(r) PROVE ReplyInv'
<1>1. TypeOK /\ ReplyTypeOK /\ OnTheWay(r) /\ (route[r] # "none" => Replied(r))
  BY ReplyFacts
<1>2. /\ pc[r] = "release" /\ pc' = [pc EXCEPT ![r] = Outside(r)]
      /\ stack' = [stack EXCEPT ![r] = Tail(@)]
      /\ UNCHANGED <<route, chain, reply, abortErr, abortedBy, payload, panicking, traced, handled>>
  BY DEF releaseContext, Goto, local
<1>3. PICK n \in Nat : n = Len(stack[r]) /\ n # 0 /\ Len(stack'[r]) = n - 1
  <2>1. /\ stack \in [Requests -> Seq(Slots)] /\ stack[r] \in Seq(Slots)
        /\ stack[r] # <<>> /\ Len(stack[r]) \in Nat /\ Len(stack[r]) # 0
    BY <1>2, ReplyFacts
  <2>2. Len(Tail(stack[r])) = Len(stack[r]) - 1
    BY <2>1, HeadTailProperties
  <2> QED
    BY <1>2, <2>1, <2>2
<1>4. ReplyTypeOK' /\ \A q \in Requests \ {r} : Alone(q)
  <2>1. stack \in [Requests -> Seq(Slots)]
    BY ReplyFacts
  <2> QED
    BY <1>1, <1>2, <2>1 DEF TypeOK, ReplyTypeOK, Alone
<1>5. pc'[r] = Outside(r) /\ Outside(r) # "idle"
  BY <1>1, <1>2 DEF TypeOK, Outside
<1>6. ASSUME route[r] # "none" PROVE Replied(r)'
  <2>1. CASE n = 1
    <3>1. pc'[r] = "finish"
      BY <1>3, <1>5, <2>1 DEF Outside
    <3>2. Answered(r) /\ ~Pending(r)
      BY <1>1, <1>2, <1>3, <1>6, <2>1 DEF Replied, Pending
    <3> QED
      BY <1>2, <3>1, <3>2 DEF Replied, Deep, Unsent, Decided, Answered, Answer, Pending
  <2>2. CASE n # 1
    <3>1. Unsent(r) /\ Pending(r) /\ (abortErr[r] # None \/ payload[r] \/ panicking[r])
      BY <1>1, <1>2, <1>3, <1>6, <2>2 DEF Replied, Decided, Pending
    <3>2. \/ n > 2 /\ pc'[r] = "release" /\ Len(stack'[r]) # 1
          \/ n = 2 /\ pc'[r] = "deferred" /\ Len(stack'[r]) = 1
      <4>1. CASE n > 2
        <5>1. n - 1 # 1
          BY <4>1
        <5> QED
          BY <1>3, <1>5, <2>2, <4>1, <5>1 DEF Outside
      <4>2. CASE ~(n > 2)
        <5>1. n = 2 /\ n - 1 = 1
          <6>1. \A m \in Nat : m # 0 /\ m # 1 /\ ~(m > 2) => m = 2 /\ m - 1 = 1
            OBVIOUS
          <6>2. n # 0
            BY <1>3
          <6> QED
            BY <2>2, <4>2, <6>1, <6>2
        <5>2. chain[r] = <<>> \/ panicking[r] \/ abortErr[r] # None
          BY <1>1, <3>1 DEF Unsent, OnTheWay, Remaining
        <5> QED
          BY <1>3, <1>5, <2>2, <4>2, <5>1, <5>2 DEF Outside
      <4> QED
        BY <4>1, <4>2
    <3> QED
      BY <1>2, <3>1, <3>2 DEF Replied, Deep, Unsent, Decided, Answered, Pending
  <2> QED
    BY <2>1, <2>2
<1> QED
  BY <1>2, <1>4, <1>5, <1>6, ReplyOfOne

LEMMA FinishReply == ASSUME ReplyInv, ContextInv', NEW r \in Requests, Finish(r) PROVE ReplyInv'
<1>1. TypeOK /\ ReplyTypeOK /\ (route[r] # "none" => Replied(r))
  BY ReplyFacts
<1>2. PICK code \in {200, 404} :
      /\ pc[r] = "finish" /\ pc' = [pc EXCEPT ![r] = "done"]
      /\ reply' = [reply EXCEPT ![r] = WriteStatus(reply[r], code)]
      /\ UNCHANGED <<route, stack, abortErr, abortedBy, payload, panicking, traced, handled>>
  <2>1. PICK code \in {200, 404} : code = (IF route[r] = "none" THEN 404 ELSE 200)
    OBVIOUS
  <2> QED
    BY <2>1 DEF Finish, Goto
<1>3. reply[r] \in Replies /\ code \in Statuses
  BY <1>1 DEF ReplyTypeOK, Statuses
<1>4. ReplyTypeOK' /\ \A q \in Requests \ {r} : Alone(q)
  BY <1>1, <1>2, <1>3, StatusWritten DEF TypeOK, ReplyTypeOK, Alone
<1>5. pc'[r] = "done" /\ reply'[r] = WriteStatus(reply[r], code)
  BY <1>1, <1>2 DEF TypeOK, ReplyTypeOK
<1>6. ASSUME route[r] # "none" PROVE Replied(r)'
  <2>1. ~panicking[r] => Answer(r) /\ (payload[r] \/ abortErr[r] # None)
    BY <1>1, <1>2, <1>6 DEF Replied, Answered, Pending
  <2>2. ASSUME ~panicking[r] PROVE Answer(r)'
    <3>1. reply[r].status # 0
      <4>1. payload[r] \/ abortErr[r] \in {400, 401, 429, 500}
        BY <1>1, <2>1, <2>2 DEF TypeOK, Codes
      <4> QED
        BY <2>1, <2>2, <4>1 DEF Answer
    <3>2. /\ reply'[r].status = reply[r].status /\ reply'[r].header = reply[r].header
          /\ reply'[r].bodies = reply[r].bodies /\ reply'[r].log = reply[r].log
      BY <1>3, <1>5, <3>1, StatusWritten
    <3> QED
      BY <1>2, <2>1, <2>2, <3>2 DEF Answer
  <2> QED
    BY <1>2, <1>5, <2>1, <2>2 DEF Replied, Deep, Unsent, Decided, Answered, Pending
<1> QED
  BY <1>2, <1>4, <1>5, <1>6, ReplyOfOne

LEMMA ReplyNext == ReplyInv /\ [PipelineNext]_pvars => ReplyInv'
<1> SUFFICES ASSUME ReplyInv, [PipelineNext]_pvars PROVE ReplyInv'
  OBVIOUS
<1>1. ContextInv'
  BY ContextNext DEF ReplyInv
<1>2. CASE Clock \/ UNCHANGED pvars
  <2>1. UNCHANGED <<pc, route, stack, reply, abortErr, abortedBy, payload, panicking, traced, handled>>
    BY <1>2 DEF Clock, pvars, flow, local
  <2> QED
    BY <1>1, <2>1, SameReply DEF ReplyInv, ReplyTypeOK, Alone
<1>3. ASSUME NEW r \in Requests, Step(r) \/ \E rt \in RoutesOf[r] : Arrive(r, rt)
      PROVE  ReplyInv'
  BY <1>1, <1>3, InwardReply, CallNextReply, PassedReply, AbortedReply, HandlerReply, DeferredReply,
     ReleaseReply, FinishReply DEF Step
<1> QED
  BY <1>2, <1>3 DEF PipelineNext

\* Every request whose body could be read is answered once, with the body and the
\* status that its handlers decided on, whichever of them aborts or panics, and the
\* log and the trace header agree with that.
THEOREM RepliesMatch == PipelineSpec => []ReplyMatches
<1>1. ReplyInv => ReplyMatches
  <2> SUFFICES ASSUME ReplyInv, NEW r \in Requests, pc[r] = "done", route[r] # "none", ~panicking[r]
               PROVE  Answer(r)
    BY DEF ReplyMatches, Answer
  <2> QED
    BY DEF ReplyInv, Replied, Answered, Pending
<1> QED
  BY <1>1, ReplyInit, ReplyNext, PTL DEF PipelineSpec

==============================================================================
