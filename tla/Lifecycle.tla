------------------------------- MODULE Lifecycle -------------------------------
(***************************************************************************)
(* The life of one instance of the service: main.go from the databases to  *)
(* the exit of the process, with the hooks of                              *)
(* internal/pkg/shutdown/shutdown.go and the registry under it.  Signals   *)
(* come from outside, and the process may die at any time.                 *)
(***************************************************************************)
EXTENDS Registry, Sequences

VARIABLES
    phase,  \* where main is
    open,   \* connections that were opened and not closed
    hooks,  \* shutdown.hooks
    ran     \* hooks that have run

main == <<phase, open, hooks, ran>>
vars == <<etcd, registry, main>>

Ended == phase \in {"exited", "killed"}

Init ==
    /\ RegistryInit
    /\ phase = "read" /\ open = {}
    /\ hooks = <<>> /\ ran = 0

Enter(from, to) == phase = from /\ phase' = to

\* (Mutant) a hook takes the place of the one before it.
RegisterHook_Replace(h) == hooks' = <<h>>

RegisterHook(h) == hooks' = Append(hooks, h)

\* The goroutines of the process end with it.
StopAll ==
    /\ pc' = [g \in Goroutines |-> "off"]
    /\ arg' = [g \in Goroutines |-> NoLease]
    /\ due' = {}

-------------------------------------------------------------------------------
(* Start *)

\* mysql.New connects to the read database, then to the write database.
ConnectRead ==
    /\ Enter("read", "write")
    /\ open' = open \cup {"read"}
    /\ UNCHANGED <<etcd, registry, hooks, ran>>

ConnectWrite ==
    /\ Enter("write", "redis")
    /\ open' = open \cup {"write"}
    /\ RegisterHook("mysql")
    /\ UNCHANGED <<etcd, registry, ran>>

\* redis.New opens a client whether or not Redis answers its three pings; without
\* an answer main keeps the client and serves from the local cache alone.
NewRedis ==
    /\ Enter("redis", "new")
    /\ open' = open \cup {"redis"}
    /\ RegisterHook("redis")
    /\ UNCHANGED <<etcd, registry, ran>>

\* NewRegistry succeeds, and Register begins; or the service runs without it.
NewRegistry ==
    /\ \/ /\ Enter("new", "register")
          /\ open' = open \cup {"etcd"}
          /\ Goto(Main, "off", FirstStage)
          /\ UNCHANGED budget
       \/ Failed /\ Enter("new", "serving") /\ UNCHANGED <<pc, open>>
    /\ UNCHANGED <<etcd, leaseID, canceled, arg, due, hooks, ran>>

\* Register has returned, with or without error: the server is started and main
\* subscribes to signals.
Serve ==
    /\ pc[Main] = "off" /\ Enter("register", "serving")
    /\ RegisterHook("etcd")
    /\ UNCHANGED <<etcd, registry, open, ran>>

\* A killed process leaves nothing behind but what it wrote to etcd.
Die ==
    /\ phase' = "killed" /\ open' = {} /\ hooks' = <<>> /\ ran' = 0
    /\ leaseID' = NoLease /\ canceled' = FALSE
    /\ StopAll
    /\ UNCHANGED <<etcd, budget>>

\* A database that does not answer, a mux that cannot be built, and a server that
\* cannot listen are fatal: the process exits without its hooks.
Fatal == phase \in {"read", "write", "new", "register", "serving"} /\ Die

-------------------------------------------------------------------------------
(* Shutdown *)

\* A signal comes while main waits at <-quit: server.Shutdown, then Close, which
\* subscribes to signals of its own.
Shutdown ==
    /\ Enter("serving", "closing")
    /\ UNCHANGED <<etcd, registry, open, hooks, ran>>

\* One more comes to Close: the hooks run in the order they were registered.
RunHooks ==
    /\ Enter("closing", "hooks")
    /\ UNCHANGED <<etcd, registry, open, hooks, ran>>

Hook(h) == phase = "hooks" /\ ran < Len(hooks) /\ hooks[ran + 1] = h

CloseDatabases ==
    /\ Hook("mysql")
    /\ open' = open \ {"read", "write"} /\ ran' = ran + 1
    /\ UNCHANGED <<etcd, registry, phase, hooks>>

CloseRedis ==
    /\ Hook("redis")
    /\ open' = open \ {"redis"} /\ ran' = ran + 1
    /\ UNCHANGED <<etcd, registry, phase, hooks>>

\* Deregister cancels the context of the registry ...
Deregister ==
    /\ Hook("etcd") /\ ~canceled
    /\ Cancel
    /\ UNCHANGED main

\* ... deletes the key with it, which may or may not reach etcd, and closes the
\* client either way.  This hook is the last one: main returns.
Deregistered ==
    /\ Hook("etcd") /\ canceled
    /\ DeleteKey \/ UNCHANGED etcd
    /\ open' = open \ {"etcd"} /\ ran' = ran + 1
    /\ Enter("hooks", "exited") /\ StopAll
    /\ UNCHANGED <<leaseID, canceled, budget, hooks>>

\* Without a registry main returns after the other hooks.
Exit ==
    /\ ran = Len(hooks) /\ Enter("hooks", "exited")
    /\ StopAll
    /\ UNCHANGED <<etcd, leaseID, canceled, budget, open, hooks, ran>>

-------------------------------------------------------------------------------
(* Environment *)

\* The process is killed, by a signal that nobody waits for or otherwise.
Crash == ~Ended /\ Die

Step(g) == ~Ended /\ UNCHANGED main /\ (Register(g) \/ (g \in Loops /\ KeepAlive(g)))
Expiry == Expire /\ UNCHANGED <<registry, main>>
Time == Tick /\ UNCHANGED main

Start == ConnectRead \/ ConnectWrite \/ NewRedis \/ NewRegistry \/ Serve
Finish == CloseDatabases \/ CloseRedis \/ Deregister \/ Deregistered \/ Exit

Next ==
    \/ Start \/ Fatal
    \/ Shutdown \/ RunHooks \/ Finish
    \/ \E g \in Goroutines : Step(g)
    \/ Crash \/ Time \/ Expiry

Spec == Init /\ [][Next]_vars

-------------------------------------------------------------------------------
(* Properties *)

\* A process that ends by its hooks has closed every connection it opened, with or
\* without a registry, a Redis that answers or a registration that succeeded.
HooksCloseAll == phase = "exited" => open = {}

IsRegistered == keyLease # None
Beating == \E l \in Loops : pc[l] # "off"

\* Once a keepAlive goroutine runs, one runs until the context is cancelled: no
\* failed request, lost reply or lease revoked by another goroutine on the way
\* through Register ends the last of them.
HeartbeatLives == [][Beating /\ ~canceled' /\ ~Ended' => Beating']_vars

\* Between two ticks, with etcd answering promptly, the lease in leaseID is the one
\* to trust: while it lives the service is registered, under it or under another,
\* however many goroutines registered it at once.
LeaseCoversKey ==
    AtRest /\ Beating /\ ~canceled /\ budget = MaxFaults /\ Live(leaseID) => IsRegistered

\* However goroutines race for leaseID and lose requests, the service that has a
\* keepAlive goroutine is registered again and again until it is told to stop.
Recovers == []<>(IsRegistered \/ canceled \/ ~Beating)

\* A process that ends, orderly or not, does not stay in etcd: the key goes with
\* the last lease and nothing puts it back.
Cleanup == <>[](Ended => ~IsRegistered)

\* main and the goroutines go on, and so does the clock; signals and faults need not
\* come.  Between two ticks there is little to do, so no goroutine is left behind.
Fairness ==
    /\ WF_vars(Start \/ Finish)
    /\ WF_vars(\E g \in Goroutines : Step(g))
    /\ WF_vars(Time) /\ WF_vars(Expiry)

FairSpec == Spec /\ Fairness
===============================================================================
