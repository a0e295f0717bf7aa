------------------------------- MODULE Registry -------------------------------
(***************************************************************************)
(* internal/pkg/registry/etcd/registry.go: registration of the service in  *)
(* etcd.  main calls Register once; each successful Register starts a      *)
(* keepAlive goroutine, and a keepAlive goroutine whose Put fails calls    *)
(* Register itself.  All of them share leaseID without a lock, so every    *)
(* request to etcd and every access to leaseID is a step of its own.       *)
(***************************************************************************)
EXTENDS Etcd, FiniteSets, FiniteSetsExt

CONSTANTS
    Main,      \* the main goroutine
    Loops,     \* bound: keepAlive goroutines told apart by numbers, more behave alike
    MaxFaults  \* bound: requests to etcd that fail

ASSUME RegistryAssumption ==
    /\ Main \notin Loops /\ Loops # {} /\ Loops \subseteq Nat
    /\ MaxFaults \in Nat

VARIABLES
    leaseID,   \* Registry.leaseID
    canceled,  \* Registry.ctx is done
    pc,        \* where each goroutine is in Register and keepAlive
    arg,       \* the lease id in its request to etcd
    due,       \* keepAlive goroutines whose ticker has fired
    budget     \* requests that may still fail

registry == <<leaseID, canceled, pc, arg, due, budget>>

Goroutines == {Main} \cup Loops

RegistryInit ==
    /\ EtcdInit
    /\ leaseID = NoLease /\ canceled = FALSE
    /\ pc = [g \in Goroutines |-> "off"]
    /\ arg = [g \in Goroutines |-> NoLease]
    /\ due = {}
    /\ budget = MaxFaults

Goto(g, from, to) == pc[g] = from /\ pc' = [pc EXCEPT ![g] = to]

\* The reply of a request arrives, or it does not: then the request may have
\* been carried out or not.  With the context done no reply is waited for.
Replied == ~canceled /\ UNCHANGED budget
Failed ==
    \/ canceled /\ UNCHANGED budget
    \/ ~canceled /\ budget > 0 /\ budget' = budget - 1

-------------------------------------------------------------------------------
(* Register *)

\* Where a call of Register begins: a lease from before is revoked first.
FirstStage == IF leaseID # NoLease THEN "revoke" ELSE "grant"

\* (Mutant) the goroutine that registers again leaves the heartbeat to the new one.
Caller_Leaves(g) == "off"

\* Where it leads its caller: main goes on, keepAlive waits for the next tick.
Caller(g) == IF g = Main THEN "off" ELSE "wait"

\* The result of Revoke is only logged.
Revoke(g) ==
    /\ Goto(g, "revoke", "grant")
    /\ \/ RevokeLease(arg[g]) /\ UNCHANGED budget
       \/ Failed /\ UNCHANGED etcd
    /\ UNCHANGED <<leaseID, canceled, arg, due>>

\* Lease ids are new: nobody holds one of them.
Fresh == LeaseIds \ (DOMAIN leases \cup {leaseID} \cup {arg[g] : g \in Goroutines})

Grant(g) ==
    /\ pc[g] = "grant" /\ Fresh # {}
    /\ LET x == Min(Fresh) IN
       \/ /\ Replied /\ GrantLease(x)
          /\ arg' = [arg EXCEPT ![g] = x]
          /\ Goto(g, "grant", "assign")
       \/ /\ Failed
          /\ GrantLease(x) \/ UNCHANGED etcd
          /\ arg' = [arg EXCEPT ![g] = NoLease]
          /\ Goto(g, "grant", Caller(g))
    /\ UNCHANGED <<leaseID, canceled, due>>

\* r.leaseID = leaseResp.ID
Assign(g) ==
    /\ Goto(g, "assign", "send")
    /\ leaseID' = arg[g]
    /\ UNCHANGED <<etcd, canceled, arg, due, budget>>

\* The Put reads r.leaseID again.
Send(g) ==
    /\ Goto(g, "send", "put")
    /\ arg' = [arg EXCEPT ![g] = leaseID]
    /\ UNCHANGED <<etcd, leaseID, canceled, due, budget>>

\* go r.keepAlive(); once every goroutine of Loops runs, one more changes nothing.
Started(g) ==
    LET stopped == {l \in Loops : pc[l] = "off"} IN
    IF stopped = {} THEN pc' = [pc EXCEPT ![g] = Caller(g)]
    ELSE pc' = [pc EXCEPT ![g] = Caller(g), ![Min(stopped)] = "wait"]

\* (Mutant) the key is put without a lease.
Put_Unleased(g) ==
    /\ pc[g] = "put"
    /\ arg' = [arg EXCEPT ![g] = NoLease]
    /\ Replied /\ PutKey(NoLease)
    /\ Started(g)
    /\ UNCHANGED <<leaseID, canceled, due>>

\* (Mutant) the key is put only by main, later registrations rely on it.
Put_Once(g) ==
    /\ pc[g] = "put"
    /\ arg' = [arg EXCEPT ![g] = NoLease]
    /\ Replied /\ Live(arg[g]) /\ Started(g)
    /\ IF g = Main THEN PutKey(arg[g]) ELSE UNCHANGED etcd
    /\ UNCHANGED <<leaseID, canceled, due>>

Put(g) ==
    /\ pc[g] = "put"
    /\ arg' = [arg EXCEPT ![g] = NoLease]
    /\ \/ Replied /\ PutKey(arg[g]) /\ Started(g)
       \/ /\ Replied /\ ~Live(arg[g]) /\ UNCHANGED etcd
          /\ Goto(g, "put", Caller(g))
       \/ /\ Failed /\ (PutKey(arg[g]) \/ UNCHANGED etcd)
          /\ Goto(g, "put", Caller(g))
    /\ UNCHANGED <<leaseID, canceled, due>>

Register(g) == Revoke(g) \/ Grant(g) \/ Assign(g) \/ Send(g) \/ Put(g)

-------------------------------------------------------------------------------
(* keepAlive *)

\* A tick: the Put of the heartbeat is sent.
Beat(l) ==
    /\ Goto(l, "wait", "beat")
    /\ l \in due /\ due' = due \ {l}
    /\ arg' = [arg EXCEPT ![l] = leaseID]
    /\ UNCHANGED <<etcd, leaseID, canceled, budget>>

\* (Mutant) a failed heartbeat is only logged.
Beaten_LogOnly(l) ==
    /\ Goto(l, "beat", "wait")
    /\ arg' = [arg EXCEPT ![l] = NoLease]
    /\ IF Live(arg[l]) THEN Replied /\ PutKey(arg[l]) ELSE UNCHANGED <<etcd, budget>>
    /\ UNCHANGED <<leaseID, canceled, due>>

\* It is answered; whatever the error, Register is called.
Beaten(l) ==
    /\ pc[l] = "beat"
    /\ \/ /\ Replied /\ PutKey(arg[l])
          /\ arg' = [arg EXCEPT ![l] = NoLease]
          /\ Goto(l, "beat", "wait")
       \/ /\ \/ Replied /\ ~Live(arg[l]) /\ UNCHANGED etcd
             \/ Failed /\ (PutKey(arg[l]) \/ UNCHANGED etcd)
          /\ arg' = [arg EXCEPT ![l] = leaseID]
          /\ Goto(l, "beat", FirstStage)
    /\ UNCHANGED <<leaseID, canceled, due>>

\* case <-r.ctx.Done()
Stopped(l) ==
    /\ canceled /\ Goto(l, "wait", "off")
    /\ due' = due \ {l}
    /\ UNCHANGED <<etcd, leaseID, canceled, arg, budget>>

KeepAlive(l) == Beat(l) \/ Beaten(l) \/ Stopped(l)

-------------------------------------------------------------------------------
(* Deregister, called by main, and the clock *)

\* The context is cancelled; the Delete that follows is the last step of main.
Cancel ==
    /\ canceled' = TRUE
    /\ UNCHANGED <<etcd, leaseID, pc, arg, due, budget>>

AtRest == \A g \in Goroutines : pc[g] \in {"off", "wait"} /\ g \notin due

\* Ten seconds pass: tickers fire, leases age.  No request takes so long: one that
\* did would find its lease gone, which is handled like any other failure.
Tick ==
    /\ AtRest
    /\ Age
    /\ due' = {l \in Loops : pc[l] # "off"}
    /\ UNCHANGED <<leaseID, canceled, pc, arg, budget>>
===============================================================================
