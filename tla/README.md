# A TLA+ model of gin-example

This directory models the stateful and concurrent parts of the service in this
repository: the circuit breaker, the caches and the admin handlers above them, the
registration in etcd, the life of the process, the HTTP core with its rate limiter
and token check, the other limiters, the load balancer, retries, the trace that the
commands of a request leave, and the stress tester. TLC checks the models on small
instances. TLAPS proves, for every value of the constants, every safety and action
property that the passing runs check and both refinements; what is left to TLC alone is
liveness.

`PROJECT.json` ties it together: components, runs, the source lines of every
definition (`map`), one mutant of the code per property, findings, hazards and
theorems.

## The system

| Component | State | Operations | Meets | Hard to get right |
|---|---|---|---|---|
| Circuit breaker (`internal/pkg/circuitbreaker`) | state, counters, two times, mutex, gauge | `Execute`, `Reset`, readers | protected function (runs under the mutex), metrics | panics, half-open probing, counters reset in different places |
| Stress tester (`internal/pkg/stress`) | channel, WaitGroup, totals, extremes | `Run`, `worker` | breaker, limiter, mock balancer | CAS loops, several exits of one loop, breaker asked and told apart |
| Local cache (`internal/pkg/cache/local.go`) | map, list, entries, RWMutex | `Get`, `Set`, `Delete`, `Exists` | handlers, L1 of the multi-level cache | expired reads give up their lock; the list is relinked under a read lock |
| Multi-level and Redis cache (`multilevel.go`, `redis.go`) | L1 per node, L2 shared | the same four | Redis, handlers | two levels, two nodes, errors dropped |
| Admin API (`internal/api/admin`) | none of its own | `Create`, `List`, `GetByID`, `UpdateByID`, `DeleteByID` | cache, read and write database | cache-aside races, lag, lost acknowledgements, `int32(id)` |
| Registry (`internal/pkg/registry/etcd`) | `leaseID`, context, goroutines | `Register`, `keepAlive`, `Deregister` | etcd leases and one key | unlocked shared `leaseID`, leases that run out, goroutines that multiply |
| Process and shutdown (`main.go`, `internal/pkg/shutdown`) | phase of main, hooks, signal channels | start, signals, hooks, exit | registry, HTTP server | two signal subscriptions, death at any point |
| Load balancer (`internal/pkg/loadbalancer`) | list of instances, round-robin indexes | selection, refresh, health check | etcd | int32 indexes, maps without a lock, counts kept in copies |
| Rate limiters (`internal/pkg/ratelimit`) | limiters per key, windows | `Middleware`, `Allow`, `AllowWithKey` | HTTP core | limiters made on first use, order of checks, edges of windows |
| HTTP core (`internal/pkg/core`) | pooled contexts, abort error, payload | middleware chain, abort, recover, reply | every handler | panics in nested handlers, abort after a response has begun |
| Authentication (`internal/pkg/jwtoken`, `internal/api/auth`) | tokens | `Login`, `JWTAuthMiddleware` | HTTP core | expiry; refusals that must stop the chain |
| Trace and command hooks (`internal/pkg/trace`, `internal/repository/redis`, `internal/repository/mongo`, `internal/pkg/httpclient`) | a trace per request; one hook and one monitor for all | before and after each command | every request | the start of the last command and the record of the last command are shared |
| Retry (`internal/pkg/retry`) | attempts, two contexts | `RetryWithConfig` | its caller | deadlines, late answers, overflow of the backoff |
| The rest | connection handles, tables, alerts | wrappers, start-up, generators | libraries | little: see `PROJECT.json`, status `not_modelled` |

What makes the modelled components correct:

* **breaker**: it opens on the failure that exhausts the threshold and not before,
  stays open until the timeout, lets at most the threshold of successful probes
  through, starts each period with clean counters, and never gets stuck;
* **local cache**: a read returns what was last `Set`, or nothing; map and list
  agree; the capacity holds;
* **admin reads over the cache**: nothing uncommitted is served; a cached row is
  not older than the database, and where it is, that heals;
* **registry and process**: a running service is registered and a stopped one is
  not, through lost requests, expired leases and crashes;
* **HTTP core**: a request is answered once and as its handlers decided, also when
  one panics; no context is shared; no handler runs for a request that a guard in
  front of it refused; nobody gets more through than burst and rate;
* **other limiters**: no window and no bucket gives more than it may, and nobody is
  refused for less;
* **load balancer**: it chooses among the instances that are registered and healthy,
  each in its turn;
* **retry**: a success is told when it was one, and no attempt is saved;
* **trace**: a request's trace has the records of its own commands, whole;
* **stress tester**: its totals add up, its extremes are extremes, and it ends.

## Modules

| Module | Models | Uses |
|---|---|---|
| `CircuitBreaker` | `Execute` as `Begin`, `Return` or `Panic` (the mutex is held in between) and `Reject`; `Reset`; the clock | |
| `BreakerContract` | what users of a breaker rely on, without counts of requests or a mutex | |
| `CircuitBreakerRefinement` | the refinement mapping | `CircuitBreaker`, `BreakerContract` |
| `CircuitBreakerProofs` | proofs about the breaker and the stress tester | `CircuitBreakerRefinement`, `StressTest` |
| `StressTest` | `Run` and its workers around a breaker, one step per atomic operation | `CircuitBreaker` |
| `LocalCache` | the cache under its RWMutex; an expired read is `FindExpired` then `RemoveExpired` | `LossyCache` |
| `LossyCache` | a map that may forget and never lies | |
| `LocalCacheProofs` | proofs | `LocalCache` |
| `LruList` | `container/list` pointer by pointer, moved by several readers | |
| `MultiLevelCache` | one call on L1 or L2, with its failures | |
| `AdminCache` | each handler as the sequence of its calls, the two databases, expiry | `MultiLevelCache` |
| `AdminCacheHistory` | `AdminCache` with a record of whether anything but one request at a time has happened | `AdminCache` |
| `AdminCacheProofs` | proofs | `AdminCacheHistory` |
| `Etcd` | leases and one key (external) | |
| `Registry` | `Register` and `keepAlive`, one step per request and per access to `leaseID` | `Etcd` |
| `Lifecycle` | `main`, the hooks, signals, crashes | `Registry` |
| `LifecycleProofs` | proofs about the registry and the process | `Lifecycle` |
| `RateLimit` | `RateLimitMiddleware`: three checks in order, limiters made on first use | |
| `Pipeline` | a request from `core.New`'s middlewares through its route and back | `RateLimit` |
| `PipelineProofs` | proofs about limits, guards, contexts and replies | `Pipeline` |
| `Limiters` | token bucket, leaky bucket and sliding window, and the key of a request | |
| `LimitersProofs` | proofs | `Limiters` |
| `LoadBalancer` | the four strategies, the refresh from etcd, the health check | |
| `CommandHooks` | what Redis, MongoDB and HTTP commands leave in the trace of their request | |
| `CommandHooksProofs` | proofs | `CommandHooks` |
| `Retry` | `RetryWithConfig` with its deadline, its caller's context and its waits | |
| `ClientProofs` | proofs about retries and the load balancer | `Retry`, `LoadBalancer` |
| `MC...` | values of the constants for TLC | |

Definitions whose comment begins with `(Mutant)` are wrong on purpose: each is what
a plausible slip would make of the definition below it. No specification uses them.

### How the code became actions

*Circuit breaker.* Times are ages that saturate at `ResetTimeout`, because the code
only asks whether `time.Since(trippedTime) >= resetTimeout`; a zero `time.Time` is
older than that. A tick between two statements of one call is not modelled, except
while the protected function runs.

*Stress tester.* The limiter may pass or refuse any request, `executeRequest` may
take any latency and succeed or fail. The three atomic adds of one request are one
step, because nobody reads the totals before `wg.Wait` returns.

*Local cache.* An element is an allocation. It is free when neither the list nor a
goroutine refers to it. Expiry may happen at any time. `written` is a history
variable. Relinking in `Get` is one step in this module: that is an assumption,
which Go does not give to a write under a read lock. `LruList` is what happens
without it, and its finding says that the guarantees of `LocalCache` then end.
Preference of the RWMutex for writers is not modelled (it removes interleavings).

*Admin handlers.* A process is a request. A row is its version; 0 is before it was
inserted, `Gone` after it was deleted. `Value` is what `Set` stores in L1, `Text` the
raw JSON that a hit in L2 is copied as. The L1 of a node behaves as `LossyCache`
allows. `NodeOf` places requests on nodes; `RowOf` is `int32(id)`; `Faults` says
which of Redis errors, lost acknowledgements and replication lag may happen. The
empty marker of `redis.go` is left out: no handler ever sets nil.

*Registry and process.* The registry goes through `pc`: `revoke`, `grant`, `assign`,
`send`, `put` are `Register`, `beat` is the Put of `keepAlive`, `wait` its select. A
failed request may have been carried out. When the context is done every request
returns an error and may or may not have left the client. Lease ids that nobody
holds are used again. `Tick` is ten seconds, the period of the heartbeat. `Lifecycle`
opens the databases, Redis and etcd in the order of `main.go` and registers a hook
after each; at the points where `main` exits on an error, and at every other point by
a kill, the process ends without its hooks.

*HTTP core.* A request's goroutine is `pc`, `chain` (handlers still to run) and
`stack` (the contexts it is inside, as Go's deferred calls would release them). A
handler that returns leaves its goroutine where `Outside` says: in the handler that
called `Next`, in gin's own loop, or in the deferred function of the core middleware,
which is one step because it touches nothing shared. `reply` is what the client has
been sent: gin keeps the first status, and `AbortWithStatus` sends the header at once. It
also moves gin's index behind the last handler, so `CallNext` runs none for a request
that is aborted. `Errors` are the codes the handlers of a route abort with: 400 in the
admin API, and 400, 401 or 500 in `Login`. Since guards and a recovered panic use the same
codes, the properties tell them apart by a history, `abortedBy`.
`sync.Pool` may hand out any object; the model takes one of them, since an object holds
nothing but the pointer that `newContext` overwrites. Alert and metrics handlers are
left out because `NewHTTPMux` passes none. A token is the times of its issue and of its
expiry (`Sign`, `Parse`).

*Rate limiter.* `Lookup` is the read under the read lock, `Create` the second look and
the insertion under the write lock, `Admit` and `Refuse` are `rate.Limiter.Allow`. A
bucket earns whole tokens in a tick, and `GlobalRPS` may earn some in a tick in which
an address earns none.

*Other limiters.* The sliding window is one step, as it holds its mutex throughout; the
leaky bucket is `LeakyFind` and `LeakyAllow`, because it lets go of its mutex in
between. A waiting request of the token bucket is a disabled `TokenAllow`. `log` is a
history of grants that the limiters do not see: the properties are stated about it.

*Load balancer.* A call holds the read lock from `Call` to its return, so `Rebuild` and
`HealthCheck` wait for `Locked`. The maps of indexes have no lock that callers share:
`FindIndex`, `StoreIndex` and `Rotate` are steps, and `Throw` is the Go runtime stopping
a process in which map accesses overlap. Indexes wrap at `MaxInt32`.

*Trace.* A command is a model value. `ts` and `mongoInfo` are what the one hook and the
one monitor hold, without a lock, so each callback is as many steps as it has accesses
to them that others can come between: `BeforeProcess` reads the clock and
`BeforeProcessStores` stores it; `AfterProcess` reads what is stored and
`AfterProcessAppends` takes the cost from it; `Started` makes a record and
`StartedFills` fills the one held by then; `Succeeded` gives the record held a reply and
`SucceededAppends` appends the one held by then. The locals of a callback are `stage` and
`since`. A Redis record holds its cost, a MongoDB record which command it names and whose
reply it holds; all else a record says is left out. `together` and `overlapped` are
histories of the commands that ran at the same time.

*Retry.* `Attempt` to `CheckDeadline` are one turn of the loop. Contexts are live or
hold the error they ended with. `MaxInt` stands for the largest duration: a product too
large for one becomes the least or the largest (`Convert`, as Go leaves it to the
processor), and a sum wraps (`Wrap`).

## Runs

| Run | Bounds | Shows |
|---|---|---|
| `breaker` | 2 callers, thresholds 2 and 2, timeout 2, 11 counted requests | counters, gauge and state agree; the breaker implements its contract; an open breaker that is still called is probed again |
| `stress` | 2 workers, 3 requests, latencies 1..3 | totals, extremes, termination |
| `local_cache` | 2 goroutines, 2 keys, 2 values, 4 elements, capacity 1 | map, list and capacity; only last written values are read |
| `admin_cache` | 2 requests on 2 nodes, every fault, versions up to 1 | only committed rows are cached; a stale row needs a race, a fault, another node or another id |
| `admin_cache_live` | 1 node, 2 requests at once, Redis failures | staleness ends |
| `lifecycle` | 2 keepAlive goroutines, 4 lease ids, 1 failing request, crashes, 2 signals | all connections are closed; a lease keeps the key; heartbeats live and the registration comes back; nothing is left behind |
| `pipeline` | 2 requests from one address, one tick, bursts of 1 | limits, guards, contexts, replies; every request is answered |
| `load_balancer` | 2 callers, weights 1, 2 and 0, indexes up to 3, 5 calls, 1 change | choices are listed, healthy and even; when a call panics; the list follows etcd |
| `limiters` | 5 requests, limit 2, window 2, buckets of 2, 5 ticks | no window or bucket gives too much; nobody is refused for too little |
| `retry` | 7 configurations, up to 7 attempts, waits of up to 31 | which attempt is told, when retries are saved, how long it waits, that it returns |
| `hooks` | 2 goroutines, 3 commands, 2 ticks | traces are whole and not mixed; costs and MongoDB records are right unless commands overlap |

Why the bounds are enough: the breaker needs more failures than a threshold and two
open periods, which fit in 11 counted requests (an admitted call counts twice). One
element more than the capacity plus one per goroutine in its gap lets the cache evict,
refresh and replace while an expired read is under way. One row and one list show
every pair of handlers; a third request repeats what one of two did earlier, since
requests share only the caches and databases. With one version a write that changes a row is a `DeleteByID`; `UpdateByID` takes the
same calls, a second version takes the run past five minutes, and both properties of the
run are proved for any number of versions and ids. Two keepAlive goroutines are the
smallest number where one revokes what the other has just granted. In the pipeline a
burst of one makes any request let through by a second limiter too many, and the tick
lets the second request pass the global limiter while the first has not yet made the
limiter of their address; `MixedRoutes` leaves out pairs of routes that share nothing.
`EnableUserLimit` is on, unlike the default configuration, so that all three checks
run. Five calls take an index past its maximum of 3 and onto a negative place; two
callers are the fewest that race for one; weights of 2 and 0 make a list longer and
shorter than its instances; five counters are one for each list that the run can meet
and one per caller. Five requests with a limit of two fill a window, refuse one, and
fill the next across its edge. The configurations of `Retry` grow past the maximal
interval and past the range of a duration, allow one attempt, none, and no time for
one. Three commands let one goroutine begin a second command while the other still runs
its first. Bounds are the constants commented with "bound" and `MaxVersion`.

The run with `"expect": "violation"` shows where the code does not do what a comment of
the repository says, and its entry in `findings` quotes the comment. `lru_list_race`:
the LRU list, relinked by two readers, ends with its sentinel at the back.

Other disagreements, read in the code while modelling it and kept in the models as
they are, without a run of their own: a heartbeat writes the key again but does not
renew its lease, so a registration lapses every thirty seconds until the goroutine
notices; the first signal only stops the server, and `Close` waits for another;
`loadbalancer.go:304` cuts nine characters off a key though `/services/` has ten, so
every instance is listed under the empty name; connections are
counted in a copy of the instance; a Redis command that overlaps another may be said to
have taken less than it did, or more, where an older start has overwritten a newer; and
overlapping MongoDB commands share one record; a third-party response in a request without a trace panics; `RetryWithConfig` retries a
success that came late, returns nil without a call for a negative `MaxRetries`, and can
wait a negative time when its backoff overflows; an admin read that overlaps a write
caches the old row; an admitted call of the breaker counts two
requests, and its "consecutive" failures need not be; a stress test never closes its
breaker again and averages over requests without latency; live entries can be removed
as expired and evicted out of order; cached rows also go stale after a Redis failure,
on other nodes, and under an id that differs by 2^32; the cached list misses rows
created later; missing rows are never cached; raw text copied into L1 cannot be read
there; each re-registration adds a heartbeat; `Deregister` cancels the context of its
own Delete; error replies have sent their header before the trace header and the
content type are set; a request whose body cannot be read is answered with an empty
200.

`CHECK_DEADLOCK FALSE` appears where the work ends: the stress test when `Run` has
returned, the pipeline and the limiters when every request is answered, a retry when it
has returned, the load balancer when its process is dead, and the hooks when every
request is over or every command of the bound has been given.

### Fairness

* `OpenIsProbed`: time passes and callers keep calling; a function that has begun
  returns.
* `Terminates`: every goroutine that can run does, and time passes.
* `AllAnswered`: a request's goroutine that can run does. Time need not pass.
* `EventuallyFresh`: requests finish, and an entry expires unless it is rewritten
  again and again (a Redis `SET` and `LocalCache.Set` both restart the time to live).
  Writes end because versions are bounded; the property is about what follows.
* `Recovers`, `Cleanup`: goroutines run, time passes, leases run out. Signals and
  crashes are never required. No request takes as long as the ten seconds of a tick: a
  client slower than the lease never stays registered.
* `ListFollowsEtcd`: calls run to their end, the ticker fires, and etcd answers some of
  the requests. Registrations end because they are bounded; the property is about what
  follows.
* `Returns`: the function that is retried returns, and timers fire. Deadlines and
  cancellations need not come.

## Proofs

Eight modules hold for every value of the constants that satisfies the named
assumptions: `CircuitBreakerProofs` (`ConfigAssumption`, and `StressAssumption` for the
stress tester), `LocalCacheProofs` (`CacheAssumption`), `AdminCacheProofs`
(`AdminAssumption`, `FaultAssumption`), `LifecycleProofs` (`RegistryAssumption`,
`EtcdAssumption`), `PipelineProofs` (`RateLimitAssumption`, `PipelineAssumption`),
`LimitersProofs` (`LimitersAssumption`), `ClientProofs` (`RetryAssumption`,
`LoadBalancerAssumption`) and `CommandHooksProofs` (`CommandHooksAssumption`). One
theorem has a hypothesis of its own: `ResultsComplete` wants a worker, without which
`Run` returns at once and nothing is counted. The type invariants, `ClosedBelowThreshold` and `OpenUntilTimeout` are
proved and no run repeats them.

*Circuit breaker.* `Inductive` is `TypeOK`, `ClosedBelowThreshold`, `HalfOpenAdmits` and
`NoFailureAfterTrip` together with two facts that couple them to a call in progress:
while one holds the mutex the breaker is not open, and the gauge differs from the
state only by showing open for half-open. One lemma per action shows that it is
preserved; the invariants follow, `OpenUntilTimeout` follows from it and one step, and
`StepRefines` maps each action to a step or stutter of `BreakerContract`.

*Stress tester.* `StressInv` has three parts. `Ordered`: an extreme that a
compare-and-swap loop is about to replace is less extreme than what replaces it
(`Improves`), the latency of a worker that has left the loops lies between the extremes
(`ExtremesCover`), and signals, channel, workers and `Run` end in this order
(`Closing`). `SignalsConserved` counts the signals. The average is bounded from above
only: a request that was refused adds to the number of requests and not to the sum of
latencies, so it may lie below the shortest. `AverageBound` says that any
bound on all latencies bounds the sum, times the number of requests; it is stated for
all bounds on the maximum and on the latencies on their way to it, because the longest
of those is not yet the maximum.
`BreakerInUse` shows that every step is one of the breaker's specification or leaves it
alone, so all that is proved of a breaker holds for the one under test.

*Local cache.* `Inductive` is `TypeOK` (the list has no duplicates), `MappedIsLinked`,
`WithinCapacity`, and `EntriesFilled`: linked elements carry a key and a value, and
elements in gaps carry a key. The list lemmas (`RemoveProperties`, `PushProperties`,
`FrontProperties`) give ranges and lengths of the list after each change. They matter
because the late removal acts on an element that may have been unlinked, refreshed or
replaced. `Refinement` shows that every step is allowed by `LossyCache`: the history
variable `written` supplies the abstract cache's last written value, and one lemma per
action shows that what readers can see only changes to what was written, or is
forgotten.

*Admin cache.* `CachedCommitted` needs to know what a request carries between its read
and its `Set`. `InFlight` says that it is committed and, for a single row, found;
`ReplicaBehind` that the read database never shows more than the write database; and
`Level1` and `Level2` say of the two levels what the property says of what is visible.
Versions only grow, so what is committed stays so. `StaleForCause` adds `Undisturbed`:
one request at a time, on one node, and each level agrees with the database except for
the row of a write that has not yet come to its delete there (`RowsFresh1`,
`RowsFresh2`, with different calls for the two levels). The proof found two things to
say in `Disturbance`. A write under an id that is truncated to the row of another id
leaves the other entry as it was, so such a write disturbs. A `Create` does not, whatever
it overlaps, because a row that was not found was never cached.

*Life of the process.* `HooksInv` says which connections are open for each number of
hooks that have run. `keepAlive` goroutines share `leaseID` without a lock, and the one
that assigns last need not be the one that puts last. `Renewed` says that, as long as
anyone renews, `leaseID` and what others still send are leases of the same ten seconds;
`Covered` that the key is there once nobody is left who has yet to put it, under the
current lease or one as new. Both hold while etcd answers and the context is live
(`Faultless`), which is the premise of `LeaseCoversKey`. That property says only that the
key hangs on some lease: two goroutines can leave it on one while `leaseID` names the
other. `HeartbeatLives` is a property
of steps and needs the types of the goroutines' places.

*HTTP core.* `GuardsKept`: what a handler may assume depends on where it stands in its
chain, so `GuardInv` says of each place on the way of a request what is left of the
chain there, what the guards before it have decided and who has aborted it, if anyone
has. `ContextsKept`: `ContextInv`
says that the contexts of a request's stack are in use for it, occur in it once, and
are not in the pool; the lemmas about `Push` and `Pop` show that `newContext` and
`releaseContext` keep that for the request itself and for all others. `RepliesMatch`:
`ReplyInv` says how many contexts deep a request is at each place (`Deep`), that until
the deferred function of the core has run nothing but the status of an abort was sent
(`Unsent`), that no handler is left to run once one has aborted, answered or panicked
(`Decided`), and that then one body was sent (`Answered`).

*Rate limiter.* The bound on what a key is granted is not inductive. `Inductive` adds
`OwnLimiter` (the limiter in a key's place was made for that key, so keys do not share
one), `AsksItsOwn` (the limiter a request holds is the one in the map, which the
second look under the write lock ensures) and `Balance` (what a bucket holds and has
given away is at most its burst and what it has earned). `PipelineLimits` shows that
every step of the pipeline is one of the middleware's specification or leaves it
alone, so the bound holds inside the pipeline too.

*Other limiters.* The sliding window forgets. `Remembered` says that what it has
forgotten is older than the window; with `Sorted` (grants are logged in the order of
time) the number of a grant tells how many came after it, which is `WindowBound`. For
the buckets `Balance` bounds what a bucket can still hold by what it was given since
any of its grants. `RefusalsCaused` is the other direction. A window that refuses
remembers only grants that were made, and young ones. A bucket that is empty has to
account for what it earned, so `Spent` names a time for every bucket, the last at which
it was full, since which it holds and has given at least what it held then and has
earned.

*Load balancer.* `ListInv`: a caller's list of candidates is in the order of the
instances and was made from the list that the read lock still protects (`Choosing`), and
what failed its last check is listed, and not as active (`Failing`). `CountInv`
bounds an index by the calls made, less those that have read it and not yet written it;
so nothing panics before the largest index. `SpreadInv` measures how uneven the turns of
a list are: callers that race to make its index may each make one, all but one of which
are soon lost; each lost one leaves a place ahead by at most a turn, and a caller is
needed for each index that is lost, in use, or about to be made (`Even`).

*Retry.* `Trying` and `Tried` say how many attempts have been recorded at each place of
the loop and that none of them but the last can be a success; `Settled` is the two
properties, which a returned call keeps. `WaitsBounded` needs that doubling grows: the
power of two is taken as a number of subsets, which the library of finite sets can
compare without induction.

*Trace.* `Paired` says that two Redis commands that run are known to run together, and
`Stored` that a command which has stored its start finds, from then on, that one or the
start of a command together with which it ran: whoever stores later was running when it
began, or began while it ran. `RecordsFair` keeps that for records, which is `CostsFair`.
For the monitor, `Held` says that a running command that has not overlapped another is
the one whose record is held, and `Mine` that a goroutine's command is its own. So what a
callback writes through the monitor does no harm to the record of a command that ran
alone (`Loyal`), which therefore names its command once it is filled and holds its reply
at the end (`Filled`). `Recording` counts: the trace lacks the command that ends now, and
no other. `TracesWhole` says of each
trace at all times that its records are without repetition those of the commands that
are over (`Whole`); a sequence without repetition is as long as its range is large
(`OnceCounts`).

Only model-checked: liveness (`OpenIsProbed`, `Terminates`, `EventuallyFresh`,
`AllAnswered`, `Recovers`, `Cleanup`, `ListFollowsEtcd`, `Returns`), which the prover
does not reach, as it needs `ENABLED`; and the finding of `LruList`, which is a
counterexample.

## Plan

What is left:

1. Proofs: the implications behind the liveness properties that are plain safety, such
   as what keeps a fair action enabled (`Continue` of the admin handlers, the goroutines
   of the pipeline).
2. The alert manager, once something in the service creates one.

One run per question, and a dozen in all: a new component's run takes the place of the
run that says least.

## Not modelled

Alerting and the circuit-breaking HTTP client: nothing in the service uses them, and
they hold little beyond a mutex or a breaker. The MongoDB connection, the RBAC queries
and the token interceptor: nothing calls them. Formatting, logging, metrics that nobody
reads, configuration, generated DAO code, code generators, cryptography and thin
wrappers of libraries: no interleaving, failure or order of theirs can break a property
of the system that reading them would not show. `Metrics`, `State` and the other
readers of the breaker, and `GetAllServices` of the load balancer, change nothing.

Some behaviour inside the modelled components is left out. A row is inserted once: a
client that names the id of a deleted row in `Create` would begin its versions anew. The
intervals a retry is given are positive and its jitter is not negative, though nothing
checks a `Config`. The answer of etcd and the wait for the write lock are one step of
the load balancer, and the choice that has no turn to give, an empty address without an
error, is not among those `ChoosesFromTheList` is about. `GetService` of the stress
tester's mock cannot fail, so its error exit is not a step. Relinking the LRU list is one
step but in `LruList`. The ping that chooses between the caches at start-up is left out:
`AdminCache` has both levels. The drain of `http.Server.Shutdown` is one step.
`reRegister` is never called.
