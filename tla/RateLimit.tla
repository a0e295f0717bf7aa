------------------------------- MODULE RateLimit -------------------------------
(***************************************************************************)
(* internal/pkg/ratelimit/middleware.go: the global limiter, then one      *)
(* limiter per client address, then one per user.  The limiters of the     *)
(* last two kinds are made on first use, under a lock that is checked      *)
(* twice; Allow of golang.org/x/time/rate is a token bucket.  A tick is a  *)
(* time in which every bucket earns whole tokens.                          *)
(***************************************************************************)
EXTENDS Integers

CONSTANTS
    Requests,
    IPs, Users,          \* client addresses and user ids
    Global,              \* the key of the global limiter, and that limiter
    ClientIP, UserID,    \* what getClientIP and getUserID find in each request
    EnableGlobal, EnableIPLimit, EnableUserLimit,
    GlobalBurst, IPLimitBurst, UserLimitBurst,
    GlobalRPS, IPLimitRPS, UserLimitRPS,   \* tokens earned in a tick
    Limiters,            \* bound: rate.Limiter objects that can be made
    MaxTicks,            \* bound: ticks
    None,                \* no limiter
    Missing              \* a look-up under the read lock has found none

Keys == {Global} \cup IPs \cup Users
Objects == {Global} \cup Limiters

ASSUME RateLimitAssumption ==
    /\ Global \notin IPs \cup Users \cup Limiters /\ IPs \cap Users = {}
    /\ None \notin Keys \cup Objects /\ Missing \notin Objects \cup {None}
    /\ ClientIP \in [Requests -> IPs] /\ UserID \in [Requests -> Users]
    /\ {EnableGlobal, EnableIPLimit, EnableUserLimit} \subseteq BOOLEAN
    /\ {GlobalBurst, IPLimitBurst, UserLimitBurst} \subseteq Nat
    /\ {GlobalRPS, IPLimitRPS, UserLimitRPS} \subseteq Nat
    /\ MaxTicks \in Nat

VARIABLES
    limiterOf,  \* globalLimiter, ipLimiters and userLimiters: key -> limiter
    madeFor,    \* the key a limiter object was made for, None before it is made
    tokens,     \* the tokens in its bucket
    at,         \* which check a request is at, "passed" or "refused" after them
    limiter,    \* the limiter the request has found for it
    ticks,
    granted     \* history: requests a key's limiter has allowed

limits == <<limiterOf, madeFor, tokens, ticks, granted>>
rvars == <<limits, at, limiter>>

Burst(k) == IF k = Global THEN GlobalBurst ELSE IF k \in IPs THEN IPLimitBurst ELSE UserLimitBurst
RPS(k)   == IF k = Global THEN GlobalRPS ELSE IF k \in IPs THEN IPLimitRPS ELSE UserLimitRPS

RateLimitInit ==
    /\ limiterOf = [k \in Keys |-> IF k = Global THEN Global ELSE None]
    /\ madeFor = [l \in Objects |-> IF l = Global THEN Global ELSE None]
    /\ tokens = [l \in Objects |-> IF l = Global THEN GlobalBurst ELSE 0]
    /\ at = [r \in Requests |-> "off"]
    /\ limiter = [r \in Requests |-> None]
    /\ ticks = 0
    /\ granted = [k \in Keys |-> 0]

-------------------------------------------------------------------------------
(* The order of the checks *)

FromUser   == IF EnableUserLimit THEN "user" ELSE "passed"
FromIP     == IF EnableIPLimit THEN "ip" ELSE FromUser
FromGlobal == IF EnableGlobal THEN "global" ELSE FromIP

After(c) == IF c = "global" THEN FromIP ELSE IF c = "ip" THEN FromUser ELSE "passed"

\* The key that counts at check c, and the limiter a request asks there.
Key(r, c) == IF c = "global" THEN Global ELSE IF c = "ip" THEN ClientIP[r] ELSE UserID[r]
Held(r)   == IF at[r] = "global" THEN Global ELSE limiter[r]

-------------------------------------------------------------------------------
(* Middleware, getIPLimiter and getUserLimiter *)

\* The middleware is called.
Enter(r) ==
    /\ at[r] = "off"
    /\ at' = [at EXCEPT ![r] = FromGlobal]
    /\ UNCHANGED <<limits, limiter>>

\* The map is read under the read lock.
Lookup(r) ==
    /\ at[r] \in {"ip", "user"} /\ limiter[r] = None
    /\ LET l == limiterOf[Key(r, at[r])] IN
       limiter' = [limiter EXCEPT ![r] = IF l = None THEN Missing ELSE l]
    /\ UNCHANGED <<limits, at>>

\* A new limiter starts with a full bucket.
NewLimiter(l, k) ==
    /\ madeFor[l] = None
    /\ madeFor' = [madeFor EXCEPT ![l] = k]
    /\ tokens' = [tokens EXCEPT ![l] = Burst(k)]
    /\ limiterOf' = [limiterOf EXCEPT ![k] = l]

\* (Mutant) the map is not read again under the write lock.
Create_CheckedOnce(r) ==
    /\ at[r] \in {"ip", "user"} /\ limiter[r] = Missing
    /\ \E l \in Limiters :
          NewLimiter(l, Key(r, at[r])) /\ limiter' = [limiter EXCEPT ![r] = l]
    /\ UNCHANGED <<at, ticks, granted>>

\* Under the write lock the map is read again, and a limiter made if it is needed.
Create(r) ==
    /\ at[r] \in {"ip", "user"} /\ limiter[r] = Missing
    /\ LET k == Key(r, at[r]) IN
       \/ /\ limiterOf[k] = None
          /\ \E l \in Limiters :
                NewLimiter(l, k) /\ limiter' = [limiter EXCEPT ![r] = l]
       \/ /\ limiterOf[k] # None
          /\ limiter' = [limiter EXCEPT ![r] = limiterOf[k]]
          /\ UNCHANGED <<limiterOf, madeFor, tokens>>
    /\ UNCHANGED <<at, ticks, granted>>

\* Allow takes a token and returns true: on to the next check.
Admit(r) ==
    /\ at[r] \in {"global", "ip", "user"} /\ Held(r) \in Objects
    /\ tokens[Held(r)] > 0
    /\ tokens' = [tokens EXCEPT ![Held(r)] = @ - 1]
    /\ granted' = [granted EXCEPT ![Key(r, at[r])] = @ + 1]
    /\ at' = [at EXCEPT ![r] = After(at[r])]
    /\ limiter' = [limiter EXCEPT ![r] = None]
    /\ UNCHANGED <<limiterOf, madeFor, ticks>>

\* (Mutant) Wait in place of Allow: the request blocks until there is a token.
Refuse_Waits(r) ==
    /\ at[r] \in {"global", "ip", "user"} /\ Held(r) \in Objects
    /\ tokens[Held(r)] = 0
    /\ UNCHANGED rvars

\* Allow returns false.  Tokens of the earlier checks stay spent.
Refuse(r) ==
    /\ at[r] \in {"global", "ip", "user"} /\ Held(r) \in Objects
    /\ tokens[Held(r)] = 0
    /\ at' = [at EXCEPT ![r] = "refused"]
    /\ limiter' = [limiter EXCEPT ![r] = None]
    /\ UNCHANGED limits

Check(r) == Lookup(r) \/ Create(r) \/ Admit(r) \/ Refuse(r)

\* Time passes: buckets earn tokens, up to their burst.
Earned(l) ==
    IF madeFor[l] = None THEN tokens[l]
    ELSE IF tokens[l] + RPS(madeFor[l]) <= Burst(madeFor[l]) THEN tokens[l] + RPS(madeFor[l])
    ELSE Burst(madeFor[l])

Tick ==
    /\ ticks < MaxTicks
    /\ ticks' = ticks + 1
    /\ tokens' = [l \in Objects |-> Earned(l)]
    /\ UNCHANGED <<limiterOf, madeFor, granted, at, limiter>>

RateLimitNext == Tick \/ \E r \in Requests : Enter(r) \/ Check(r)

RateLimitSpec == RateLimitInit /\ [][RateLimitNext]_rvars

-------------------------------------------------------------------------------
(* Properties *)

\* Types of the limiters and of a request's place in the middleware.
RateLimitTypeOK ==
    /\ limiterOf \in [Keys -> Objects \cup {None}]
    /\ madeFor \in [Objects -> Keys \cup {None}]
    /\ tokens \in [Objects -> Nat]
    /\ at \in [Requests -> {"off", "global", "ip", "user", "passed", "refused"}]
    /\ limiter \in [Requests -> Objects \cup {None, Missing}]
    /\ ticks \in Nat
    /\ granted \in [Keys -> Nat]

\* No client, user or service as a whole gets more requests through than its burst
\* and what it has earned since, however many of its first requests race to make
\* its limiter (getIPLimiter, getUserLimiter).
GrantsBounded == \A k \in Keys : granted[k] <= Burst(k) + ticks * RPS(k)
===============================================================================
