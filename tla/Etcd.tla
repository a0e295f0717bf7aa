--------------------------------- MODULE Etcd ---------------------------------
(***************************************************************************)
(* What internal/pkg/registry/etcd/registry.go relies on in etcd: leases   *)
(* with a time to live that only a keep-alive request would renew (the     *)
(* registry sends none), and one key of /services/, bound to the lease of  *)
(* the last Put.  Revoking a lease or letting it run out deletes the key   *)
(* bound to it; a Put that names a lease which is gone is refused.  Not    *)
(* part of src/: modelled from its use there.                              *)
(***************************************************************************)
EXTENDS Naturals, Functions

CONSTANTS
    LeaseIds,  \* lease ids in use at a time; an id nobody knows may come again
    TTL,       \* life of a lease in ticks of the clock
    None

NoLease == 0

ASSUME EtcdAssumption ==
    /\ LeaseIds \subseteq Nat \ {NoLease} /\ LeaseIds # {}
    /\ None \notin LeaseIds \cup {NoLease}
    /\ TTL \in Nat \ {0}

VARIABLES
    leases,   \* lease id -> time left, for the leases that exist
    keyLease  \* the lease of the service's key, NoLease, or None without the key

etcd == <<leases, keyLease>>

EtcdInit == leases = <<>> /\ keyLease = None

Live(x) == x \in DOMAIN leases

Drop(x) ==
    /\ leases' = Restrict(leases, DOMAIN leases \ {x})
    /\ keyLease' = IF keyLease = x THEN None ELSE keyLease

GrantLease(x) ==
    /\ leases' = [y \in DOMAIN leases \cup {x} |-> IF y = x THEN TTL ELSE leases[y]]
    /\ UNCHANGED keyLease

RevokeLease(x) == IF Live(x) THEN Drop(x) ELSE UNCHANGED etcd

\* Put of the key WithLease(x); naming no lease is allowed, a lost one is not.
PutKey(x) ==
    /\ x = NoLease \/ Live(x)
    /\ keyLease' = x
    /\ UNCHANGED leases

DeleteKey == keyLease' = None /\ UNCHANGED leases

\* A lease runs out some time after its life has passed, never before.
Expire == \E x \in DOMAIN leases : leases[x] = 0 /\ Drop(x)

Age ==
    /\ leases' = [x \in DOMAIN leases |-> IF leases[x] = 0 THEN 0 ELSE leases[x] - 1]
    /\ UNCHANGED keyLease
===============================================================================
