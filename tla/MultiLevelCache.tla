---------------------------- MODULE MultiLevelCache ----------------------------
(***************************************************************************)
(* internal/pkg/cache/multilevel.go and redis.go: the two levels behind    *)
(* cache.Cache.  Every node of the service has its own L1 (a LocalCache,   *)
(* used through the LossyCache contract it implements) and all share the   *)
(* Redis L2.  The operations here are the calls on one level, each one     *)
(* critical section; the sequences of calls that make up Get, Set, Delete  *)
(* and Exists of the multi-level cache are the steps of their callers, in  *)
(* module AdminCache, because other requests run in between.               *)
(***************************************************************************)
EXTENDS Naturals

CONSTANTS
    Nodes,   \* instances of the service
    Keys,    \* cache keys
    Faults,  \* subset of {"redis", "ack", "lag"}: what may go wrong outside
    None

ASSUME FaultAssumption == Faults \subseteq {"redis", "ack", "lag"}

VARIABLES
    l1,  \* node -> key -> entry of its local cache, None when absent
    l2   \* key -> value held by Redis, None when absent

levels == <<l1, l2>>

\* What L1 stores: a "value" Set by the application, or the raw JSON "text" that
\* MultiLevelCache.Get copies from L2.
Value(v) == [form |-> "value", val |-> v]
Text(v)  == [form |-> "text", val |-> v]

LevelsInit ==
    /\ l1 = [n \in Nodes |-> [k \in Keys |-> None]]
    /\ l2 = [k \in Keys |-> None]

-------------------------------------------------------------------------------
(* L1: cache.LocalCache *)

Has1(n, k) == l1[n][k] # None

\* LocalCache.Get marshals what it stores and unmarshals it into dest: a value
\* comes back, but text marshals to a JSON string and does not fit dest.
Hit1(n, k) == Has1(n, k) /\ l1[n][k].form = "value"

Set1(n, k, e) == l1' = [l1 EXCEPT ![n][k] = e]

Delete1(n, k) == l1' = [l1 EXCEPT ![n][k] = None]

\* An entry expires or is evicted.
Lose1(n, k) ==
    /\ Has1(n, k)
    /\ Delete1(n, k)
    /\ UNCHANGED l2

-------------------------------------------------------------------------------
(* L2: cache.RedisCache; a failed call leaves Redis as it was *)

\* The call returns Redis's error, and MultiLevelCache or its caller goes on.
RedisFails == "redis" \in Faults

Set2(k, v) ==
    \/ l2' = [l2 EXCEPT ![k] = v]
    \/ RedisFails /\ UNCHANGED l2

Delete2(k) ==
    \/ l2' = [l2 EXCEPT ![k] = None]
    \/ RedisFails /\ UNCHANGED l2

Expire2(k) ==
    /\ l2[k] # None
    /\ l2' = [l2 EXCEPT ![k] = None]
    /\ UNCHANGED l1
===============================================================================
