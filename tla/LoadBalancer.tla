----------------------------- MODULE LoadBalancer -----------------------------
(***************************************************************************)
(* internal/pkg/loadbalancer/loadbalancer.go: callers that ask for the     *)
(* address of a service, the goroutine that reads the registrations from   *)
(* etcd every ten seconds, and HealthCheck.                                *)
(*                                                                         *)
(* A call holds the read lock from its look-up to its return; refresh and  *)
(* health check hold the write lock and are one step each once they have   *)
(* it.  Every call makes a strategy, with a mutex of its own, so the maps  *)
(* of round-robin indexes are shared without protection: their reads and   *)
(* writes are steps, and the Go runtime may stop the process when it sees  *)
(* two of them overlap.                                                    *)
(*                                                                         *)
(* refreshServices cuts a key after nine characters, which leaves the      *)
(* slash before the name: every instance is listed under the empty name,   *)
(* and callers who give a name are told that it is not found.  The calls   *)
(* modelled here are the ones that give the empty name.                    *)
(***************************************************************************)
EXTENDS Integers, FiniteSets, Sequences, Functions

CONSTANTS
    Callers,
    Addresses,   \* values registered in etcd, numbered in the order of their keys
    Weight,      \* the weight each value carries; 1 for a value that carries none
    Plain,       \* the values host:port, which alone can be dialled
    MaxInt32,    \* the largest value of an index
    Counters,    \* bound: index objects alive at a time
    MaxCalls,    \* bound: calls
    MaxChanges,  \* bound: registrations that come and go
    None

ASSUME LoadBalancerAssumption ==
    /\ Addresses \subseteq Nat /\ IsFiniteSet(Addresses) /\ Plain \subseteq Addresses
    /\ Weight \in [Addresses -> Int] /\ \A a \in Plain : Weight[a] = 1
    /\ MaxInt32 \in Nat \ {0}
    /\ IsFiniteSet(Callers) /\ IsFiniteSet(Counters)
    /\ None \notin Counters \cup Addresses /\ None \notin Int
    /\ MaxCalls \in Nat /\ MaxChanges \in Nat

BalanceType == {"random", "round-robin", "weighted-round-robin", "least-connections"}

VARIABLES
    balanceType,
    registered,  \* what etcd holds under /services/
    reply,       \* what refreshServices has read and not yet stored, or None
    instances,   \* serviceMap[""]: address and status, in the order of etcd
    indexMap,    \* list of addresses -> its index object
    index,       \* index object -> its value, None when it is free
    pc,          \* where each caller is
    healthy,     \* the healthy instances it chooses from
    held,        \* the index object it uses
    dead,        \* the runtime has stopped the process
    panicked,    \* history: a call has panicked
    picks,       \* history: list -> how often each place in it was chosen
    failed,      \* history: listed addresses whose latest health check failed
    calls, changes

service == <<balanceType, instances, reply>>
indexes == <<indexMap, index>>
callers == <<pc, healthy, held>>
history == <<panicked, picks>>
bounds  == <<calls, changes>>
vars == <<service, registered, indexes, callers, dead, history, failed, bounds>>

Init ==
    /\ balanceType \in BalanceType
    /\ registered \in SUBSET Addresses
    /\ reply = None /\ instances = <<>>
    /\ indexMap = <<>> /\ index = [x \in Counters |-> None]
    /\ pc = [c \in Callers |-> "idle"]
    /\ healthy = [c \in Callers |-> <<>>]
    /\ held = [c \in Callers |-> None]
    /\ dead = FALSE
    /\ panicked = FALSE /\ picks = <<>> /\ failed = {}
    /\ calls = 0 /\ changes = 0

\* The numbers of a set as a sequence, the least first.
InOrder(S) == CHOOSE s \in [1..Cardinality(S) -> S] :
    Range(s) = S /\ \A i, j \in DOMAIN s : i < j => s[i] < s[j]

Put(f, k, v) == [x \in DOMAIN f \cup {k} |-> IF x = k THEN v ELSE f[x]]

-------------------------------------------------------------------------------
(* The lock *)

Readers == {c \in Callers : pc[c] # "idle"}

\* A writer that waits for the lock keeps new readers out.
RLocked == reply = None
Locked  == Readers = {}

\* The call returns or panics: the read lock is released either way.
Release(c) ==
    /\ pc' = [pc EXCEPT ![c] = "idle"]
    /\ healthy' = [healthy EXCEPT ![c] = <<>>]
    /\ held' = [held EXCEPT ![c] = None]

-------------------------------------------------------------------------------
(* GetServiceWithStrategy *)

AddressesOf(s) == [i \in DOMAIN s |-> s[i].address]

Active(i) == i.status = "active"

Healthy ==
    LET places == InOrder({i \in DOMAIN instances : Active(instances[i])}) IN
    [n \in DOMAIN places |-> instances[places[n]].address]

\* The healthy instances are collected under the read lock.  A caller that finds no
\* instance, or none that is healthy, gets an error and changes nothing.
Call(c) ==
    /\ pc[c] = "idle" /\ RLocked /\ calls < MaxCalls /\ Healthy # <<>>
    /\ pc' = [pc EXCEPT ![c] = "select"]
    /\ healthy' = [healthy EXCEPT ![c] = Healthy]
    /\ calls' = calls + 1
    /\ UNCHANGED <<service, registered, indexes, held, dead, history, failed, changes>>

\* The list a strategy chooses from: the healthy instances, each as often as its
\* weight says under weighted round robin: place n is the first instance's with
\* which there are n copies.
Copies(s, m) == UNION {{i} \X (1..Weight[s[i]]) : i \in 1..m}

Weighted(s) == [n \in 1..Cardinality(Copies(s, Len(s))) |->
    s[CHOOSE i \in DOMAIN s : Cardinality(Copies(s, i - 1)) < n /\ n <= Cardinality(Copies(s, i))]]

Turns(c) == IF balanceType = "weighted-round-robin" THEN Weighted(healthy[c]) ELSE healthy[c]

Rotates == balanceType \in {"round-robin", "weighted-round-robin"}

Count(k, i) ==
    picks' = Put(picks, k, [j \in DOMAIN k |->
                 (IF k \in DOMAIN picks THEN picks[k][j] ELSE 0) + (IF j = i THEN 1 ELSE 0)])

\* Any instance.
RandomSelect(c) ==
    /\ pc[c] = "select" /\ balanceType = "random"
    /\ \E i \in DOMAIN Turns(c) : Count(Turns(c), i)
    /\ Release(c)
    /\ UNCHANGED <<service, registered, indexes, dead, panicked, failed, bounds>>

\* Connections are counted in a copy of the chosen instance: the list shows zero for
\* every one, and the first is the least.
LeastConnectionsSelect(c) ==
    /\ pc[c] = "select" /\ balanceType = "least-connections"
    /\ Count(Turns(c), 1)
    /\ Release(c)
    /\ UNCHANGED <<service, registered, indexes, dead, panicked, failed, bounds>>

\* Without any positive weight the weighted strategy returns an instance that has no
\* address, and no error.
NoTurns(c) ==
    /\ pc[c] = "select" /\ Turns(c) = <<>>
    /\ Release(c)
    /\ UNCHANGED <<service, registered, indexes, dead, history, failed, bounds>>

\* The index of the list is looked up ...
FindIndex(c) ==
    /\ pc[c] = "select" /\ Rotates /\ Turns(c) # <<>>
    /\ \/ /\ Turns(c) \in DOMAIN indexMap
          /\ held' = [held EXCEPT ![c] = indexMap[Turns(c)]]
          /\ pc' = [pc EXCEPT ![c] = "add"]
       \/ /\ Turns(c) \notin DOMAIN indexMap
          /\ pc' = [pc EXCEPT ![c] = "store"]
          /\ UNCHANGED held
    /\ UNCHANGED <<service, registered, indexes, healthy, dead, history, failed, bounds>>

\* Index objects that nothing refers to.
Free == {x \in Counters : index[x] = None \/ x \notin Range(indexMap) \cup Range(held)}

\* (Mutant) the new index is not put into the map.
StoreIndex_Forget(c) ==
    /\ pc[c] = "store" /\ Free # {}
    /\ \E x \in Free :
         /\ index' = [index EXCEPT ![x] = 0]
         /\ held' = [held EXCEPT ![c] = x]
    /\ pc' = [pc EXCEPT ![c] = "add"]
    /\ UNCHANGED <<service, registered, indexMap, healthy, dead, history, failed, bounds>>

\* ... and made if it was not there then: another caller may have made one since,
\* which this one replaces.
StoreIndex(c) ==
    /\ pc[c] = "store" /\ Free # {}
    /\ LET x == CHOOSE x \in Free : TRUE IN
         /\ index' = [index EXCEPT ![x] = 0]
         /\ indexMap' = Put(indexMap, Turns(c), x)
         /\ held' = [held EXCEPT ![c] = x]
    /\ pc' = [pc EXCEPT ![c] = "add"]
    /\ UNCHANGED <<service, registered, healthy, dead, history, failed, bounds>>

\* atomic.AddInt32
Add(n) == IF n = MaxInt32 THEN -(MaxInt32 + 1) ELSE n + 1

\* The place that Go's (current - 1) % len is: a negative number has a negative
\* remainder, which is no place, or none.
Panics(current, len) == current - 1 < 0 /\ (current - 1) % len # 0
Chosen(current, len) == ((current - 1) % len) + 1

\* (Mutant) the index is read before it is incremented, and taken one too low.
Rotate_OffByOne(c) ==
    /\ pc[c] = "add"
    /\ LET k == Turns(c)
           current == index[held[c]] IN
         /\ index' = [index EXCEPT ![held[c]] = Add(@)]
         /\ IF Panics(current, Len(k)) THEN panicked' = TRUE /\ UNCHANGED picks
            ELSE Count(k, Chosen(current, Len(k))) /\ UNCHANGED panicked
    /\ Release(c)
    /\ UNCHANGED <<service, registered, indexMap, dead, failed, bounds>>

\* The index is incremented and the instance chosen; a negative place in the list
\* is a panic.
Rotate(c) ==
    /\ pc[c] = "add"
    /\ LET k == Turns(c)
           current == Add(index[held[c]]) IN
         /\ index' = [index EXCEPT ![held[c]] = current]
         /\ IF Panics(current, Len(k)) THEN panicked' = TRUE /\ UNCHANGED picks
            ELSE Count(k, Chosen(current, Len(k))) /\ UNCHANGED panicked
    /\ Release(c)
    /\ UNCHANGED <<service, registered, indexMap, dead, failed, bounds>>

\* A write to the map that overlaps a read or a write of another call.
Throw ==
    /\ \E c \in Callers : pc[c] = "store" /\ \E d \in Callers \ {c} :
          pc[d] = "store" \/ (pc[d] = "select" /\ Rotates)
    /\ dead' = TRUE
    /\ UNCHANGED <<service, registered, indexes, callers, history, failed, bounds>>

-------------------------------------------------------------------------------
(* watchServices and HealthCheck *)

\* (Mutant) the list is loaded at the start only.
Get_Once ==
    /\ reply = None /\ instances = <<>> /\ reply' = registered
    /\ UNCHANGED <<balanceType, instances, registered, indexes, callers, dead, history, failed, bounds>>

\* A tick: etcd answers, and at once the writer waits for the lock.  (In the code a
\* reader may still enter between the answer and Lock, as it may before the answer.)
\* When etcd does not answer, nothing changes until the next tick.
Get ==
    /\ reply = None /\ reply' = registered
    /\ UNCHANGED <<balanceType, instances, registered, indexes, callers, dead, history, failed, bounds>>

\* The status an address has in the list, if it is there.
StatusOf(a) ==
    LET places == {i \in DOMAIN instances : instances[i].address = a} IN
    IF places = {} THEN "active" ELSE instances[CHOOSE i \in places : TRUE].status

\* The list that etcd's answer makes, with a status for each address.
Listing(status) ==
    LET s == InOrder(DOMAIN status) IN
    [i \in DOMAIN s |-> [address |-> s[i], status |-> status[s[i]]]]

\* (Mutant) the status is not kept.
Rebuild_Fresh ==
    /\ reply # None /\ Locked
    /\ instances' = Listing([a \in reply |-> "active"])
    /\ failed' = failed \cap reply
    /\ reply' = None
    /\ UNCHANGED <<balanceType, registered, indexes, callers, dead, history, bounds>>

\* (Mutant) the list is replaced without waiting for the readers.
Rebuild_Unlocked ==
    /\ reply # None
    /\ instances' = Listing([a \in reply |-> StatusOf(a)])
    /\ failed' = failed \cap reply
    /\ reply' = None
    /\ UNCHANGED <<balanceType, registered, indexes, callers, dead, history, bounds>>

\* The list is made anew from the reply; an address that was listed keeps its
\* status.
Rebuild ==
    /\ reply # None /\ Locked
    /\ instances' = Listing([a \in reply |-> StatusOf(a)])
    /\ failed' = failed \cap reply
    /\ reply' = None
    /\ UNCHANGED <<balanceType, registered, indexes, callers, dead, history, bounds>>

\* Every listed address is dialled; a value with a weight in it is no address.
HealthCheck ==
    /\ Locked
    /\ \E up \in SUBSET Plain :
         /\ instances' = [i \in DOMAIN instances |-> [instances[i] EXCEPT !.status =
                             IF instances[i].address \in up THEN "active" ELSE "unhealthy"]]
         /\ failed' = Range(AddressesOf(instances)) \ up
    /\ UNCHANGED <<balanceType, reply, registered, indexes, callers, dead, history, bounds>>

\* An instance registers, leaves, or is lost.
Change(a) ==
    /\ changes < MaxChanges /\ changes' = changes + 1
    /\ registered' = IF a \in registered THEN registered \ {a} ELSE registered \cup {a}
    /\ UNCHANGED <<service, indexes, callers, dead, history, failed, calls>>

Serve(c) ==
    \/ RandomSelect(c) \/ LeastConnectionsSelect(c) \/ NoTurns(c)
    \/ FindIndex(c) \/ StoreIndex(c) \/ Rotate(c)
Live(A) == ~dead /\ A

Next ==
    \/ \E c \in Callers : Live(Call(c)) \/ Live(Serve(c))
    \/ Live(Throw)
    \/ Live(Get) \/ Live(Rebuild) \/ Live(HealthCheck)
    \/ \E a \in Addresses : Live(Change(a))

Spec == Init /\ [][Next]_vars

\* Calls run to their end, the ticker fires and etcd answers some of the requests.
Fairness ==
    /\ \A c \in Callers : WF_vars(Live(Serve(c)))
    /\ WF_vars(Live(Get)) /\ WF_vars(Live(Rebuild))

FairSpec == Spec /\ Fairness

-------------------------------------------------------------------------------
(* Properties *)

\* The choice a call makes is among the instances listed, and healthy, when it
\* returns: no refresh or health check comes between its look-up and its return.  A
\* call that has no turn to give (NoTurns) chooses none of them, and returns without
\* an error.
ChoosesFromTheList == \A c \in Readers : healthy[c] = Healthy

\* An instance that a health check found dead is not handed out until a later check
\* finds it well or it leaves etcd, however often the list is rebuilt in between.
NoFailedInstance == \A c \in Callers : Range(healthy[c]) \cap failed = {}

\* Until an index wraps, round robin gives every place in a list its turn: callers
\* that race to make the index of a list can put one place ahead of another by no
\* more turns than there are callers.
EvenSpread ==
    Rotates /\ calls <= MaxInt32 => \A k \in DOMAIN picks : \A i, j \in DOMAIN k :
        picks[k][i] - picks[k][j] <= Cardinality(Callers)

\* No call panics before the calls are more than an index can count.
PanicsOnlyAfterWrap == panicked => calls > MaxInt32

\* Once registrations stop coming and going, callers see exactly the instances that
\* are registered, unless the race for the indexes has stopped the process.
ListFollowsEtcd == <>[](dead \/ Range(AddressesOf(instances)) = registered)
===============================================================================
