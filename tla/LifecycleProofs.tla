---------------------------- MODULE LifecycleProofs ----------------------------
(***************************************************************************)
(* Main and its hooks close what they opened; the heartbeat outlives every *)
(* failed request; and without lost requests the lease in leaseID covers   *)
(* the key: for any number of goroutines, leases and faults.               *)
(***************************************************************************)
EXTENDS Lifecycle, SequenceTheorems, FiniteSetTheorems, WellFoundedInduction, TLAPS

-------------------------------------------------------------------------------
(* Hooks *)

Databases == <<"mysql", "redis">>
WithRegistry == <<"mysql", "redis", "etcd">>

\* What has been opened and registered at each place of main.  After the databases
\* the registry is one more of each, or neither.
Opened ==
    \/ phase = "read" /\ open = {} /\ hooks = <<>>
    \/ phase = "write" /\ open = {"read"} /\ hooks = <<>>
    \/ phase = "redis" /\ open = {"read", "write"} /\ hooks = <<"mysql">>
    \/ phase = "new" /\ open = {"read", "write", "redis"} /\ hooks = Databases
    \/ phase = "register" /\ open = {"read", "write", "redis", "etcd"} /\ hooks = Databases
    \/ /\ phase \in {"serving", "closing"} /\ open = {"read", "write", "redis"}
       /\ hooks = Databases
    \/ /\ phase \in {"serving", "closing"} /\ open = {"read", "write", "redis", "etcd"}
       /\ hooks = WithRegistry

\* The hooks that have run have closed theirs, in order.
Closed ==
    /\ phase = "hooks" /\ hooks \in {Databases, WithRegistry} /\ ran \in 0..2
    /\ open = (IF ran = 0 THEN {"read", "write"} ELSE {})
                \cup (IF ran < 2 THEN {"redis"} ELSE {})
                \cup (IF hooks = Databases THEN {} ELSE {"etcd"})

HooksInv ==
    \/ ran = 0 /\ Opened
    \/ Closed
    \/ phase \in {"exited", "killed"} /\ open = {}

\* Sequences that begin alike.
LEMMA AppendToOne == ASSUME NEW a, NEW b PROVE Append(<<a>>, b) = <<a, b>>
<1>1. <<a>> \in Seq({a, b}) /\ <<a, b>> \in Seq({a, b})
  OBVIOUS
<1> DEFINE s == Append(<<a>>, b)
           t == <<a, b>>
<1>2. s \in Seq({a, b}) /\ Len(s) = 2 /\ Len(t) = 2 /\ t \in Seq({a, b})
  BY <1>1
<1>3. s[1] = a /\ s[2] = b /\ t[1] = a /\ t[2] = b
  BY <1>1
<1> HIDE DEF s, t
<1>4. \A j \in 1..Len(s) : s[j] = t[j]
  BY <1>2, <1>3
<1>5. s = t
  BY <1>2, <1>4, SeqEqual
<1> QED
  BY <1>5 DEF s, t

LEMMA AppendToTwo == ASSUME NEW a, NEW b, NEW c PROVE Append(<<a, b>>, c) = <<a, b, c>>
<1> DEFINE s == Append(<<a, b>>, c)
           t == <<a, b, c>>
<1>1. s \in Seq({a, b, c}) /\ t \in Seq({a, b, c})
  OBVIOUS
<1>2. Len(s) = 3 /\ Len(t) = 3 
  OBVIOUS
<1>3. s[1] = a /\ s[2] = b /\ s[3] = c /\ t[1] = a /\ t[2] = b /\ t[3] = c
  OBVIOUS
<1> HIDE DEF s, t
<1>4. \A j \in 1..Len(s) : s[j] = t[j]
  BY <1>2, <1>3
<1>5. s = t
  BY <1>1, <1>2, <1>4, SeqEqual
<1> QED
  BY <1>5 DEF s, t

LEMMA HooksInOrder ==
    /\ Append(<<>>, "mysql") = <<"mysql">> /\ Append(<<"mysql">>, "redis") = Databases
    /\ Append(Databases, "etcd") = WithRegistry
    /\ Len(Databases) = 2 /\ Len(WithRegistry) = 3 /\ Databases # WithRegistry
<1>1. Len(Databases) = 2 /\ Len(WithRegistry) = 3
  BY DEF Databases, WithRegistry
<1>2. Databases # WithRegistry
  BY <1>1
<1>3. Append(<<>>, "mysql") = <<"mysql">>
  OBVIOUS
<1> QED
  BY <1>1, <1>2, <1>3, AppendToOne, AppendToTwo DEF Databases, WithRegistry

LEMMA HooksInit == Init => HooksInv
BY DEF Init, HooksInv, Opened

LEMMA HooksNext == HooksInv /\ [Next]_vars => HooksInv'
<1> SUFFICES ASSUME HooksInv, [Next]_vars PROVE HooksInv'
  OBVIOUS
<1>1. CASE UNCHANGED main
  BY <1>1 DEF main, HooksInv, Opened, Closed
<1>2. CASE Start
  BY <1>2, HooksInOrder DEF Start, ConnectRead, ConnectWrite, NewRedis, NewRegistry, Serve, Enter, RegisterHook,
     HooksInv, Opened, Closed
<1>3. CASE Shutdown \/ RunHooks
  BY <1>3, HooksInOrder DEF Shutdown, RunHooks, Enter, HooksInv, Opened, Closed
<1>4. CASE Finish
  <2>1. Closed
    BY <1>4 DEF Finish, CloseDatabases, CloseRedis, Deregister, Deregistered, Exit, Hook, Enter, HooksInv, Opened
  <2>2. /\ hooks \in {Databases, WithRegistry} /\ ran \in 0..2
        /\ open = (IF ran = 0 THEN {"read", "write"} ELSE {})
                \cup (IF ran < 2 THEN {"redis"} ELSE {})
                \cup (IF hooks = Databases THEN {} ELSE {"etcd"})
    BY <2>1 DEF Closed
  <2>3. \/ hooks = <<"mysql", "redis">> /\ Len(hooks) = 2
        \/ hooks = <<"mysql", "redis", "etcd">> /\ Len(hooks) = 3
    BY <2>2, HooksInOrder DEF Databases, WithRegistry
  <2>4. CASE CloseDatabases
    <3>1. ran = 0
      BY <2>2, <2>3, <2>4 DEF CloseDatabases, Hook
    <3> QED
      BY <3>1, <2>1, <2>2, <2>4 DEF CloseDatabases, HooksInv, Closed
  <2>5. CASE CloseRedis
    <3>1. hooks[ran + 1] = "redis" /\ hooks[1] = "mysql" /\ ran < Len(hooks)
      BY <2>3, <2>5 DEF CloseRedis, Hook
    <3>2. ran # 0 /\ (ran = 2 => hooks[3] = "redis" /\ hooks[3] = "etcd")
      BY <2>2, <2>3, <3>1
    <3>3. ran = 1
      BY <2>2, <3>2
    <3> QED
      BY <3>3, <2>1, <2>2, <2>5 DEF CloseRedis, HooksInv, Closed
  <2>6. CASE Deregister
    BY <1>1, <2>6 DEF Deregister
  <2>7. CASE Deregistered \/ Exit
    <3>1. ran = 2
      BY <2>2, <2>3, <2>7 DEF Deregistered, Exit, Hook
    <3> QED
      BY <3>1, <2>2, <2>3, <2>7, HooksInOrder DEF Deregistered, Exit, Hook, Enter, HooksInv, Databases, WithRegistry
  <2> QED
    BY <1>4, <2>4, <2>5, <2>6, <2>7 DEF Finish
<1>5. CASE Fatal \/ Crash
  BY <1>5 DEF Fatal, Crash, Die, HooksInv
<1>6. CASE Time \/ Expiry \/ \E g \in Goroutines : Step(g)
  BY <1>1, <1>6 DEF Time, Expiry, Step
<1> QED
  BY <1>1, <1>2, <1>3, <1>4, <1>5, <1>6 DEF Next, vars

\* A process that ends by its hooks has closed whatever it opened.
THEOREM EverythingClosed == Spec => []HooksCloseAll
<1>1. HooksInv => HooksCloseAll
  BY DEF HooksInv, Opened, Closed, HooksCloseAll
<1> QED
  BY <1>1, HooksInit, HooksNext, PTL DEF Spec

-------------------------------------------------------------------------------
(* Goroutines of the registry *)

Stages == {"off", "revoke", "grant", "assign", "send", "put", "wait", "beat"}

\* Before the registry is made, and after the process has ended, nothing runs in it.
LeaseTypeOK ==
    /\ DOMAIN leases \subseteq LeaseIds /\ leases \in [DOMAIN leases -> 0..TTL]
    /\ keyLease \in LeaseIds \cup {NoLease, None}
    /\ leaseID \in LeaseIds \cup {NoLease}
    /\ pc \in [Goroutines -> Stages]
    /\ arg \in [Goroutines -> LeaseIds \cup {NoLease}]
    /\ due \subseteq Loops /\ canceled \in BOOLEAN /\ budget \in 0..MaxFaults
    /\ phase \in {"read", "write", "redis", "new"} => leaseID = NoLease
    /\ phase \in {"read", "write", "redis", "new", "exited", "killed"} =>
          (\A g \in Goroutines : pc[g] = "off")

\* A set of numbers has a least one.
LEMMA LeastOf ==
    ASSUME NEW S, S \subseteq Nat, S # {}
    PROVE  Min(S) \in S
<1>1. PICK top \in S : TRUE
  OBVIOUS
<1> DEFINE R == StrictSubsetOrdering(0..top)
           T == {0..y : y \in {z \in S : z <= top}}
<1>2. IsWellFoundedOn(R, SUBSET (0..top))
  <2>1. IsFiniteSet(0..top)
    BY FS_Interval
  <2> QED
    BY <2>1, FS_FiniteSubsetsOfFinite, FS_StrictSubsetOrderingWellFounded
<1>3. T \subseteq SUBSET (0..top) /\ 0..top \in T
  BY <1>1
<1> HIDE DEF R, T
<1>4. PICK s \in T : \A t \in T : <<t, s>> \notin R
  BY <1>2, <1>3, WFMin
<1>5. PICK x \in S : x <= top /\ s = 0..x
  BY <1>4 DEF T
<1>6. ASSUME NEW y \in S PROVE x <= y
  <2> SUFFICES ASSUME y < x PROVE FALSE
    OBVIOUS
  <2>1. y <= top /\ 0..y \in T
    BY <1>5 DEF T
  <2>2. 0..y \subseteq 0..x /\ 0..y # 0..x
    BY <1>5
  <2>3. <<0..y, s>> \in R
    BY <1>3, <1>4, <1>5, <2>1, <2>2 DEF R, StrictSubsetOrdering
  <2> QED
    BY <1>4, <2>1, <2>3
<1> QED
  BY <1>5, <1>6 DEF Min

\* What etcd does to the leases it has.
LEMMA Dropped ==
    ASSUME LeaseTypeOK, NEW x, Drop(x)
    PROVE  /\ DOMAIN leases' = DOMAIN leases \ {x}
           /\ \A y \in DOMAIN leases \ {x} : leases'[y] = leases[y]
           /\ leases' \in [DOMAIN leases' -> 0..TTL]
           /\ keyLease' = IF keyLease = x THEN None ELSE keyLease
BY DEF LeaseTypeOK, Drop, Restrict

LEMMA Granted ==
    ASSUME LeaseTypeOK, NEW x, GrantLease(x)
    PROVE  /\ DOMAIN leases' = DOMAIN leases \cup {x}
           /\ leases'[x] = TTL /\ \A y \in DOMAIN leases \ {x} : leases'[y] = leases[y]
           /\ leases' \in [DOMAIN leases' -> 0..TTL]
           /\ keyLease' = keyLease
BY EtcdAssumption DEF LeaseTypeOK, GrantLease

LEMMA FreshLease ==
    ASSUME Fresh # {}
    PROVE  Min(Fresh) \in LeaseIds \ (DOMAIN leases \cup {leaseID} \cup {arg[g] : g \in Goroutines})
<1>1. Fresh \subseteq Nat
  BY EtcdAssumption DEF Fresh
<1> QED
  BY <1>1, LeastOf DEF Fresh

\* A successful Put starts one goroutine at most, and moves none that runs.
LEMMA StartedOne ==
    ASSUME LeaseTypeOK, NEW g \in Goroutines, pc[g] # "off", Started(g)
    PROVE  /\ pc' \in [Goroutines -> Stages] /\ pc'[g] = Caller(g)
           /\ \A h \in Goroutines \ {g} : pc'[h] = pc[h] \/ (pc[h] = "off" /\ pc'[h] = "wait")
<1> DEFINE stopped == {l \in Loops : pc[l] = "off"}
<1>1. Caller(g) \in Stages
  BY DEF Caller, Stages
<1>2. CASE stopped = {}
  BY <1>1, <1>2 DEF Started, LeaseTypeOK
<1>3. CASE stopped # {}
  <2>1. Min(stopped) \in stopped
    BY <1>3, LeastOf, RegistryAssumption
  <2>2. pc' = [pc EXCEPT ![g] = Caller(g), ![Min(stopped)] = "wait"]
    BY <1>3 DEF Started
  <2>3. Min(stopped) \in Goroutines /\ Min(stopped) # g /\ pc[Min(stopped)] = "off"
    BY <2>1 DEF Goroutines
  <2> QED
    BY <1>1, <2>2, <2>3 DEF LeaseTypeOK, Stages
<1> QED
  BY <1>2, <1>3

LEMMA LeaseTypeInit == Init => LeaseTypeOK
<1> SUFFICES ASSUME Init PROVE LeaseTypeOK
  OBVIOUS
<1>1. DOMAIN <<>> = {} /\ <<>> \in [{} -> 0..TTL]
  OBVIOUS
<1>2. leases = <<>> /\ keyLease = None
  BY DEF Init, RegistryInit, EtcdInit
<1>3. DOMAIN leases \subseteq LeaseIds /\ leases \in [DOMAIN leases -> 0..TTL]
  BY <1>1, <1>2
<1> QED
  <2>1. /\ pc \in [Goroutines -> Stages] /\ arg \in [Goroutines -> LeaseIds \cup {NoLease}]
        /\ \A g \in Goroutines : pc[g] = "off"
    BY DEF Init, RegistryInit, Stages
  <2>2. leaseID = NoLease /\ due = {} /\ canceled = FALSE /\ budget \in 0..MaxFaults
    BY RegistryAssumption DEF Init, RegistryInit
  <2> QED
    BY <1>2, <1>3, <2>1, <2>2 DEF LeaseTypeOK

LEMMA StepTyped ==
    ASSUME LeaseTypeOK, NEW g \in Goroutines, Step(g)
    PROVE  LeaseTypeOK'
<1>1. /\ phase \notin {"read", "write", "redis", "new", "exited", "killed"} /\ phase' = phase
  <2>1. pc[g] # "off"
    BY DEF Step, Register, Revoke, Grant, Assign, Send, Put, KeepAlive, Beat, Beaten, Stopped, Goto
  <2> QED
    BY <2>1 DEF Step, main, LeaseTypeOK, Ended
<1>2. FirstStage \in Stages /\ Caller(g) \in Stages
  BY DEF FirstStage, Caller, Stages
<1>3. budget \in 0..MaxFaults /\ MaxFaults \in Nat /\ (Failed => budget' \in 0..MaxFaults)
  BY RegistryAssumption DEF Failed, LeaseTypeOK
<1> USE DEF Goto
<1>4. CASE Revoke(g)
  BY <1>1, <1>3, <1>4, Dropped DEF Revoke, RevokeLease, etcd, LeaseTypeOK, Stages
<1>5. CASE Grant(g)
  <2> DEFINE x == Min(Fresh)
  <2>1. x \in LeaseIds /\ (GrantLease(x) \/ UNCHANGED etcd)
    BY <1>5, FreshLease DEF Grant
  <2> HIDE DEF x
  <2>2. /\ DOMAIN leases' \subseteq LeaseIds /\ leases' \in [DOMAIN leases' -> 0..TTL]
        /\ keyLease' = keyLease
    <3>1. CASE GrantLease(x)
      <4>1. /\ DOMAIN leases' = DOMAIN leases \cup {x} /\ keyLease' = keyLease
            /\ leases' \in [DOMAIN leases' -> 0..TTL]
        BY <3>1, Granted
      <4> QED
        BY <2>1, <4>1 DEF LeaseTypeOK
    <3>2. CASE UNCHANGED etcd
      BY <3>2 DEF etcd, LeaseTypeOK
    <3> QED
      BY <2>1, <3>1, <3>2
  <2>3. /\ pc' \in [Goroutines -> Stages] /\ arg' \in [Goroutines -> LeaseIds \cup {NoLease}]
        /\ budget' \in 0..MaxFaults /\ UNCHANGED <<leaseID, canceled, due>>
    BY <1>2, <1>3, <1>5, <2>1 DEF Grant, Replied, LeaseTypeOK, Stages, x
  <2> QED
    BY <1>1, <2>2, <2>3 DEF LeaseTypeOK
<1>6. CASE Assign(g) \/ Send(g)
  BY <1>1, <1>6 DEF Assign, Send, etcd, LeaseTypeOK, Stages
<1>7. CASE Put(g)
  <2>1. pc' \in [Goroutines -> Stages]
    BY <1>2, <1>7, StartedOne DEF Put, LeaseTypeOK
  <2> QED
    BY <1>1, <1>3, <1>7, <2>1 DEF Put, PutKey, Replied, etcd, LeaseTypeOK
<1>8. CASE g \in Loops /\ KeepAlive(g)
  BY <1>1, <1>2, <1>3, <1>8 DEF KeepAlive, Beat, Beaten, Stopped, PutKey, Replied, etcd, LeaseTypeOK, Stages
<1> QED
  BY <1>4, <1>5, <1>6, <1>7, <1>8 DEF Step, Register

LEMMA LeaseTypeNext == LeaseTypeOK /\ [Next]_vars => LeaseTypeOK'
<1> SUFFICES ASSUME LeaseTypeOK, [Next]_vars PROVE LeaseTypeOK'
  OBVIOUS
<1>1. CASE UNCHANGED vars
  BY <1>1 DEF vars, etcd, registry, main, LeaseTypeOK
<1>2. CASE Start
  <2>1. CASE ConnectRead \/ ConnectWrite \/ NewRedis \/ Serve
    BY <1>2, <2>1 DEF ConnectRead, ConnectWrite, NewRedis, Serve, Enter, etcd, registry, LeaseTypeOK
  <2>2. CASE NewRegistry
    <3>1. budget' \in 0..MaxFaults /\ pc' \in [Goroutines -> Stages]
      BY <2>2, RegistryAssumption DEF NewRegistry, Failed, Goto, FirstStage, LeaseTypeOK, Stages
    <3> QED
      BY <2>2, <3>1 DEF NewRegistry, Enter, etcd, LeaseTypeOK
  <2> QED
    BY <1>2, <2>1, <2>2 DEF Start
<1>3. CASE Shutdown \/ RunHooks \/ CloseDatabases \/ CloseRedis
  BY <1>3 DEF Shutdown, RunHooks, CloseDatabases, CloseRedis, Hook, Enter, etcd, registry, LeaseTypeOK
<1>4. CASE Deregister
  BY <1>4 DEF Deregister, Cancel, main, etcd, LeaseTypeOK
<1>5. CASE Deregistered \/ Exit \/ Fatal \/ Crash
  BY <1>5 DEF Deregistered, Exit, Fatal, Crash, Die, StopAll, DeleteKey, Enter, etcd, LeaseTypeOK, Stages
<1>6. CASE Time
  BY <1>6, EtcdAssumption DEF Time, Tick, Age, main, LeaseTypeOK
<1>7. CASE Expiry
  BY <1>7, Dropped DEF Expiry, Expire, registry, main, LeaseTypeOK
<1> QED
  BY <1>1, <1>2, <1>3, <1>4, <1>5, <1>6, <1>7, StepTyped DEF Next, Finish

LEMMA LeaseTyped == Spec => []LeaseTypeOK
BY LeaseTypeInit, LeaseTypeNext, PTL DEF Spec

\* No step of a goroutine takes a keepAlive goroutine away while the context is live.
LEMMA StepBeats ==
    ASSUME LeaseTypeOK, NEW g \in Goroutines, Step(g), ~canceled', NEW l \in Loops, pc[l] # "off"
    PROVE  pc'[l] # "off"
<1>1. l \in Goroutines /\ l # Main /\ pc \in [Goroutines -> Stages]
  BY RegistryAssumption DEF Goroutines, LeaseTypeOK
<1>2. Caller(l) = "wait" /\ FirstStage # "off"
  BY <1>1 DEF Caller, FirstStage
<1> USE DEF Goto
<1>3. CASE Put(g)
  <2>1. CASE Started(g)
    <3>1. pc[g] # "off"
      BY <1>3 DEF Put
    <3>2. /\ pc'[g] = Caller(g)
          /\ \A h \in Goroutines \ {g} : pc'[h] = pc[h] \/ (pc[h] = "off" /\ pc'[h] = "wait")
      BY <2>1, <3>1, StartedOne
    <3> QED
      BY <1>1, <1>2, <3>2
  <2>2. CASE pc' = [pc EXCEPT ![g] = Caller(g)]
    BY <1>1, <1>2, <2>2
  <2> QED
    BY <1>3, <2>1, <2>2 DEF Put
<1>4. CASE Revoke(g) \/ Grant(g) \/ Assign(g) \/ Send(g)
  BY <1>1, <1>2, <1>4 DEF Revoke, Grant, Assign, Send
<1>5. CASE g \in Loops /\ KeepAlive(g)
  BY <1>1, <1>2, <1>5 DEF KeepAlive, Beat, Beaten, Stopped
<1> QED
  BY <1>3, <1>4, <1>5 DEF Step, Register

\* The heartbeat of the service outlives every failure.
THEOREM HeartbeatKept == Spec => HeartbeatLives
<1>1. LeaseTypeOK /\ [Next]_vars => (Beating /\ ~canceled' /\ ~Ended' => Beating')
  <2> SUFFICES ASSUME LeaseTypeOK, [Next]_vars, ~canceled', ~Ended',
                      NEW l \in Loops, pc[l] # "off"
               PROVE  pc'[l] # "off"
    BY DEF Beating
  <2>1. CASE UNCHANGED pc
    BY <2>1
  <2>2. CASE NewRegistry
    <3>1. l \in Goroutines /\ l # Main /\ pc \in [Goroutines -> Stages]
      BY RegistryAssumption DEF Goroutines, LeaseTypeOK
    <3> QED
      BY <2>2, <3>1 DEF NewRegistry, Goto
  <2>3. CASE ConnectRead \/ ConnectWrite \/ NewRedis \/ Serve \/ Shutdown \/ RunHooks
    BY <2>1, <2>3 DEF ConnectRead, ConnectWrite, NewRedis, Serve, Shutdown, RunHooks, registry
  <2>4. CASE CloseDatabases \/ CloseRedis \/ Deregister \/ Time \/ Expiry \/ UNCHANGED vars
    BY <2>1, <2>4 DEF CloseDatabases, CloseRedis, Deregister, Cancel, Time, Tick, Expiry, vars, registry
  <2>5. CASE Deregistered \/ Exit \/ Fatal \/ Crash
    BY <2>5 DEF Deregistered, Exit, Fatal, Crash, Die, Enter, Ended
  <2> QED
    BY <2>1, <2>2, <2>3, <2>4, <2>5, StepBeats DEF Next, Start, Finish
<1> QED
  BY <1>1, LeaseTyped, PTL DEF Spec, HeartbeatLives

-------------------------------------------------------------------------------
(* The lease *)

Renewing(g) == pc[g] \in {"revoke", "grant", "assign", "send"}
Sending(g) == pc[g] \in {"put", "beat"}

\* A lease that has not aged, if it is still there.
New(x) == Live(x) => leases[x] = TTL

\* A goroutine that will put the key with the lease in leaseID, or get another one.
Promises(g) == Renewing(g) \/ (Sending(g) /\ arg[g] = leaseID) \/ (g \in due /\ pc[g] = "wait")

\* A lease is replaced only after it was found gone: as long as anyone renews, what is
\* in leaseID and what others still send are leases of the same ten seconds.
Renewed ==
    \A g \in Goroutines :
        /\ pc[g] = "assign" => New(arg[g])
        /\ Renewing(g) => New(leaseID)
        /\ Sending(g) /\ arg[g] # leaseID => New(arg[g]) /\ New(leaseID)

\* Once nobody has promised to put it, the key is there, and it will be put with the
\* lease in leaseID before a lease that it has from another goroutine can run out.
Covered ==
    Beating /\ Live(leaseID) /\ (\A g \in Goroutines : ~Promises(g)) =>
        keyLease # None /\ (keyLease = leaseID \/ New(keyLease))

Faultless == ~canceled /\ budget = MaxFaults

LeaseInv == LeaseTypeOK /\ (Faultless => Renewed /\ Covered)

LEMMA LeaseInit == Init => LeaseInv
<1> SUFFICES ASSUME Init PROVE LeaseInv
  OBVIOUS
<1>1. \A g \in Goroutines : pc[g] = "off"
  BY DEF Init, RegistryInit
<1>2. Renewed /\ Covered
  BY <1>1 DEF Renewed, Renewing, Sending, Covered, Beating, Goroutines
<1> QED
  BY <1>2, LeaseTypeInit DEF LeaseInv

\* Nothing happens to the leases and the goroutines, or all of these have stopped.
LEMMA QuietLease ==
    ASSUME LeaseInv, UNCHANGED <<etcd, leaseID, canceled, budget, pc, arg, due>>
    PROVE  Faultless' => Renewed' /\ Covered'
BY DEF LeaseInv, Faultless, Renewed, Covered, Renewing, Sending, Promises, New, Live, Beating, etcd

LEMMA StoppedLease ==
    ASSUME \A g \in Goroutines : pc'[g] = "off"
    PROVE  Renewed' /\ Covered'
BY DEF Renewed, Renewing, Sending, Covered, Beating, Goroutines

\* A lease goes that nobody needs.
LEMMA ExpiryLease ==
    ASSUME LeaseInv, Expiry, Faultless'
    PROVE  Renewed' /\ Covered'
<1>1. PICK x \in DOMAIN leases : leases[x] = 0 /\ Drop(x)
  BY DEF Expiry, Expire
<1>2. /\ DOMAIN leases' = DOMAIN leases \ {x}
      /\ \A y \in DOMAIN leases \ {x} : leases'[y] = leases[y]
      /\ keyLease' = IF keyLease = x THEN None ELSE keyLease
  BY <1>1, Dropped DEF LeaseInv
<1>3. UNCHANGED <<leaseID, canceled, pc, arg, due, budget>>
  BY DEF Expiry, registry
<1>4. \A y : New(y) => New(y)'
  BY <1>2 DEF New, Live
<1>5. Renewed /\ Covered /\ TTL # 0
  BY <1>3, EtcdAssumption DEF LeaseInv, Faultless
<1>6. Renewed'
  BY <1>3, <1>4, <1>5 DEF Renewed, Renewing, Sending
<1>7. ASSUME Beating', Live(leaseID)', \A g \in Goroutines : ~Promises(g)'
      PROVE  keyLease' # None /\ (keyLease' = leaseID' \/ New(keyLease)')
  <2>1. Beating /\ Live(leaseID) /\ (\A g \in Goroutines : ~Promises(g)) /\ leaseID # x
    BY <1>2, <1>3, <1>7 DEF Beating, Live, Promises, Renewing, Sending
  <2>2. keyLease # None /\ (keyLease = leaseID \/ New(keyLease))
    BY <1>5, <2>1 DEF Covered
  <2>3. keyLease # x
    BY <1>1, <1>5, <2>1, <2>2 DEF New, Live
  <2> QED
    BY <1>2, <1>3, <1>4, <2>2, <2>3
<1> QED
  BY <1>6, <1>7 DEF Covered

\* Ten seconds pass: whoever keeps the service alive is due.
LEMMA TimeLease ==
    ASSUME LeaseInv, Time
    PROVE  Renewed' /\ Covered'
<1>1. /\ \A g \in Goroutines : pc[g] \in {"off", "wait"}
      /\ due' = {l \in Loops : pc[l] # "off"} /\ pc' = pc
  BY DEF Time, Tick, AtRest
<1>2. Renewed'
  BY <1>1 DEF Renewed, Renewing, Sending
<1>3. Beating' => \E g \in Goroutines : Promises(g)'
  BY <1>1 DEF Beating, Promises, Goroutines
<1> QED
  BY <1>2, <1>3 DEF Covered

\* Without a fault so far there was none in this step.
LEMMA NoFault ==
    ASSUME LeaseTypeOK, UNCHANGED canceled, Faultless', budget' = budget \/ Failed
    PROVE  Faultless /\ ~Failed
<1>1. budget \in 0..MaxFaults /\ MaxFaults \in Nat
  BY RegistryAssumption DEF LeaseTypeOK
<1> QED
  BY <1>1 DEF Faultless, Failed

\* The goroutine that revokes the lease in leaseID, or another, gets a new one.
LEMMA RevokeNew ==
    ASSUME LeaseInv, NEW g \in Goroutines, Revoke(g), Faultless'
    PROVE  Renewed' /\ Covered'
<1>1. /\ pc[g] = "revoke" /\ pc' = [pc EXCEPT ![g] = "grant"]
      /\ pc \in [Goroutines -> Stages] /\ UNCHANGED <<leaseID, canceled, arg, due>>
  BY DEF Revoke, Goto, LeaseInv, LeaseTypeOK
<1>2. Faultless /\ Renewed
  BY NoFault DEF Revoke, LeaseInv
<1>3. \A y : New(y) => New(y)'
  <2>1. CASE Drop(arg[g])
    BY <2>1, Dropped DEF LeaseInv, New, Live
  <2>2. CASE UNCHANGED etcd
    BY <2>2 DEF etcd, New, Live
  <2> QED
    BY <2>1, <2>2 DEF Revoke, RevokeLease
<1>4. pc'[g] = "grant" /\ \A h \in Goroutines \ {g} : pc'[h] = pc[h]
  BY <1>1
<1>5. Renewed'
  BY <1>1, <1>2, <1>3, <1>4 DEF Renewed, Renewing, Sending
<1> QED
  BY <1>4, <1>5 DEF Covered, Promises, Renewing

LEMMA GrantNew ==
    ASSUME LeaseInv, NEW g \in Goroutines, Grant(g), Faultless'
    PROVE  Renewed' /\ Covered'
<1>1. /\ Faultless /\ ~Failed
  BY NoFault DEF Grant, Replied, LeaseInv
<1>2. PICK x \in LeaseIds :
      /\ pc[g] = "grant" /\ pc' = [pc EXCEPT ![g] = "assign"] /\ arg' = [arg EXCEPT ![g] = x]
      /\ GrantLease(x) /\ UNCHANGED <<leaseID, due>>
      /\ x \notin DOMAIN leases /\ x # leaseID /\ (\A h \in Goroutines : arg[h] # x)
  BY <1>1, FreshLease DEF Grant, Goto
<1>3. pc \in [Goroutines -> Stages] /\ arg \in [Goroutines -> LeaseIds \cup {NoLease}]
  BY DEF LeaseInv, LeaseTypeOK
<1>4. /\ DOMAIN leases' = DOMAIN leases \cup {x} /\ leases'[x] = TTL
      /\ \A y \in DOMAIN leases \ {x} : leases'[y] = leases[y]
  BY <1>2, Granted DEF LeaseInv
<1>5. New(x)' /\ \A y : New(y) => New(y)'
  BY <1>2, <1>4 DEF New, Live
<1>6. /\ pc'[g] = "assign" /\ arg'[g] = x
      /\ \A h \in Goroutines \ {g} : pc'[h] = pc[h] /\ arg'[h] = arg[h]
  BY <1>2, <1>3
<1>7. Renewed
  BY <1>1 DEF LeaseInv
<1>8. Renewed'
  BY <1>2, <1>5, <1>6, <1>7 DEF Renewed, Renewing, Sending
<1> QED
  BY <1>6, <1>8 DEF Covered, Promises, Renewing

\* The lease that the others have seen in leaseID is as new as the one that replaces it.
LEMMA AssignNew ==
    ASSUME LeaseInv, NEW g \in Goroutines, Assign(g), Faultless'
    PROVE  Renewed' /\ Covered'
<1>1. /\ pc[g] = "assign" /\ pc' = [pc EXCEPT ![g] = "send"] /\ leaseID' = arg[g]
      /\ UNCHANGED <<etcd, canceled, arg, due, budget>> /\ pc \in [Goroutines -> Stages]
  BY DEF Assign, Goto, LeaseInv, LeaseTypeOK
<1>2. Renewed
  BY <1>1 DEF LeaseInv, Faultless
<1>3. New(arg[g]) /\ New(leaseID) /\ \A y : New(y)' <=> New(y)
  BY <1>1, <1>2 DEF Renewed, Renewing, New, Live, etcd
<1>4. pc'[g] = "send" /\ \A h \in Goroutines \ {g} : pc'[h] = pc[h]
  BY <1>1
<1>5. New(leaseID)'
  BY <1>1, <1>3 DEF New, Live
<1>6. Renewed'
  BY <1>1, <1>2, <1>3, <1>4, <1>5 DEF Renewed, Renewing, Sending
<1> QED
  BY <1>4, <1>6 DEF Covered, Promises, Renewing

\* What is sent is what leaseID says at that time.
LEMMA SendNew ==
    ASSUME LeaseInv, NEW g \in Goroutines, Send(g) \/ (g \in Loops /\ Beat(g)), Faultless'
    PROVE  Renewed' /\ Covered'
<1>1. /\ pc[g] \in {"send", "wait"} /\ (\E to \in {"put", "beat"} : pc' = [pc EXCEPT ![g] = to])
      /\ arg' = [arg EXCEPT ![g] = leaseID] /\ UNCHANGED <<etcd, leaseID, canceled, budget>>
      /\ pc[g] = "wait" => g \in due
  BY DEF Send, Beat, Goto
<1>2. pc \in [Goroutines -> Stages] /\ arg \in [Goroutines -> LeaseIds \cup {NoLease}]
  BY DEF LeaseInv, LeaseTypeOK
<1>3. Renewed
  BY <1>1 DEF LeaseInv, Faultless
<1>4. \A y : New(y)' <=> New(y)
  BY <1>1 DEF New, Live, etcd
<1>5. /\ pc'[g] \in {"put", "beat"} /\ arg'[g] = leaseID
      /\ \A h \in Goroutines \ {g} : pc'[h] = pc[h] /\ arg'[h] = arg[h]
  BY <1>1, <1>2
<1>6. New(leaseID)' <=> New(leaseID)
  BY <1>1 DEF New, Live, etcd
<1>7. Renewed'
  BY <1>1, <1>3, <1>4, <1>5, <1>6 DEF Renewed, Renewing, Sending
<1> QED
  BY <1>1, <1>5, <1>7 DEF Covered, Promises, Sending

\* A Put is answered.  One that names the lease in leaseID puts the key with it or finds
\* it gone; any other puts it with a lease that is as new.
LEMMA AnswerNew ==
    ASSUME LeaseInv, NEW g \in Goroutines, Put(g) \/ (g \in Loops /\ Beaten(g)), Faultless'
    PROVE  Renewed' /\ Covered'
<1>1. Faultless /\ ~Failed
  BY NoFault DEF Put, Beaten, Replied, LeaseInv
<1>2. Renewed /\ Covered /\ LeaseTypeOK
  BY <1>1 DEF LeaseInv
<1>3. Sending(g) /\ UNCHANGED <<leases, leaseID, canceled, due>>
  BY <1>1 DEF Put, Beaten, Sending, PutKey, etcd
<1>4. \A y : New(y)' <=> New(y)
  BY <1>3 DEF New, Live
<1>5. New(leaseID)' <=> New(leaseID)
  BY <1>3 DEF New, Live
<1>6. pc \in [Goroutines -> Stages] /\ arg \in [Goroutines -> LeaseIds \cup {NoLease}]
  BY <1>2 DEF LeaseTypeOK
<1>7. /\ \A h \in Goroutines \ {g} : arg'[h] = arg[h]
      /\ Caller(g) \in {"off", "wait"} /\ FirstStage \in {"revoke", "grant"}
  BY <1>6 DEF Put, Beaten, Caller, FirstStage
<1>8. \/ /\ keyLease' = arg[g] /\ pc'[g] \in {"off", "wait"}
         /\ \A h \in Goroutines \ {g} : pc'[h] = pc[h] \/ (pc[h] = "off" /\ pc'[h] = "wait")
      \/ /\ keyLease' = keyLease /\ ~Live(arg[g])
         /\ pc'[g] \in {"off", "wait", "revoke", "grant"}
         /\ \A h \in Goroutines \ {g} : pc'[h] = pc[h]
  <2>1. CASE Put(g)
    <3>1. CASE PutKey(arg[g]) /\ Started(g)
      BY <1>2, <1>7, <2>1, <3>1, StartedOne DEF Put, PutKey
    <3>2. CASE ~Live(arg[g]) /\ UNCHANGED etcd /\ pc' = [pc EXCEPT ![g] = Caller(g)]
      BY <1>6, <1>7, <3>2 DEF etcd
    <3> QED
      BY <1>1, <2>1, <3>1, <3>2 DEF Put, Goto
  <2>2. CASE g \in Loops /\ Beaten(g)
    BY <1>1, <1>6, <1>7, <2>2 DEF Beaten, Goto, PutKey, etcd
  <2> QED
    BY <2>1, <2>2
<1>9. arg[g] # leaseID => New(arg[g]) /\ New(leaseID)
  BY <1>2, <1>3 DEF Renewed
<1>10. Renewed'
  <2> SUFFICES ASSUME NEW h \in Goroutines
               PROVE  /\ pc'[h] = "assign" => New(arg[h])'
                      /\ Renewing(h)' => New(leaseID)'
                      /\ Sending(h)' /\ arg'[h] # leaseID' => New(arg[h])' /\ New(leaseID)'
    BY DEF Renewed
  <2>1. CASE h = g
    <3>1. Renewing(g)' => ~Live(arg[g])
      BY <1>8 DEF Renewing
    <3>2. Renewing(g)' => New(leaseID)
      BY <1>9, <3>1 DEF New
    <3> QED
      BY <1>5, <1>8, <2>1, <3>2 DEF Sending
  <2>2. CASE h # g
    <3>1. arg'[h] = arg[h] /\ (pc'[h] = pc[h] \/ pc'[h] = "wait")
      BY <1>7, <1>8, <2>2
    <3>2. New(arg[h])' <=> New(arg[h])
      BY <1>3, <3>1 DEF New, Live
    <3> QED
      BY <1>2, <1>3, <1>5, <3>1, <3>2 DEF Renewed, Renewing, Sending
  <2> QED
    BY <2>1, <2>2
<1>11. ASSUME Beating', Live(leaseID)', \A h \in Goroutines : ~Promises(h)'
       PROVE  keyLease' # None /\ (keyLease' = leaseID' \/ New(keyLease)')
  <2>1. Live(leaseID) /\ arg[g] # None
    BY <1>3, <1>6, <1>11, EtcdAssumption DEF Live
  <2>2. CASE keyLease' = arg[g]
    <3>1. New(arg[g]) \/ arg[g] = leaseID
      BY <1>9
    <3> QED
      BY <1>3, <2>1, <2>2, <3>1 DEF New, Live
  <2>3. CASE /\ keyLease' = keyLease /\ ~Live(arg[g])
             /\ \A h \in Goroutines \ {g} : pc'[h] = pc[h]
    <3>1. arg[g] # leaseID
      BY <2>1, <2>3
    <3>2. ~Promises(g) /\ \A h \in Goroutines \ {g} : ~Promises(h)
      BY <1>3, <1>7, <1>11, <2>3, <3>1 DEF Promises, Renewing, Sending
    <3>3. Beating
      BY <1>3, <1>11, <2>3 DEF Beating, Sending, Goroutines
    <3>4. keyLease # None /\ (keyLease = leaseID \/ New(keyLease))
      BY <1>2, <2>1, <3>2, <3>3 DEF Covered
    <3> QED
      BY <1>3, <2>3, <3>4 DEF New, Live
  <2> QED
    BY <1>8, <2>2, <2>3
<1> QED
  BY <1>10, <1>11 DEF Covered

LEMMA LeaseNext == LeaseInv /\ [Next]_vars => LeaseInv'
<1> SUFFICES ASSUME LeaseInv, [Next]_vars PROVE LeaseInv'
  OBVIOUS
<1>1. LeaseTypeOK /\ LeaseTypeOK'
  BY LeaseTypeNext DEF LeaseInv
<1> SUFFICES ASSUME Faultless' PROVE Renewed' /\ Covered'
  BY <1>1 DEF LeaseInv
<1>2. CASE \/ UNCHANGED vars \/ ConnectRead \/ ConnectWrite \/ NewRedis \/ Serve
           \/ Shutdown \/ RunHooks \/ CloseDatabases \/ CloseRedis
  <2>1. UNCHANGED <<etcd, leaseID, canceled, budget, pc, arg, due>>
    BY <1>2 DEF vars, registry, ConnectRead, ConnectWrite, NewRedis, Serve, Shutdown, RunHooks,
                CloseDatabases, CloseRedis
  <2> QED
    BY <2>1, QuietLease
<1>3. CASE NewRegistry
  <2>1. /\ \A g \in Goroutines : pc[g] = "off"
        /\ leaseID = NoLease /\ NoLease \notin DOMAIN leases /\ pc \in [Goroutines -> Stages]
    BY <1>1, <1>3, EtcdAssumption DEF NewRegistry, Enter, LeaseTypeOK
  <2>2. /\ UNCHANGED <<etcd, leaseID>> /\ Main \notin Loops
        /\ pc' = pc \/ pc' = [pc EXCEPT ![Main] = "grant"]
    BY <1>3, <2>1, RegistryAssumption DEF NewRegistry, Goto, FirstStage
  <2>3. /\ \A g \in Goroutines : pc'[g] \in {"off", "grant"}
        /\ \A l \in Loops : pc'[l] = "off"
    BY <2>1, <2>2 DEF Goroutines
  <2>4. ~Beating' /\ ~Live(leaseID)'
    BY <2>1, <2>2, <2>3 DEF Beating, Live, etcd
  <2> QED
    BY <2>3, <2>4 DEF Renewed, Covered, Renewing, Sending, New
<1>4. CASE Deregister
  BY <1>4 DEF Deregister, Cancel, Faultless
<1>5. CASE Deregistered \/ Exit \/ Fatal \/ Crash
  BY <1>5, StoppedLease DEF Deregistered, Exit, Fatal, Crash, Die, StopAll
<1>6. ASSUME NEW g \in Goroutines, Step(g) PROVE Renewed' /\ Covered'
  <2>1. CASE Revoke(g) \/ Grant(g) \/ Assign(g) \/ Send(g) \/ Put(g)
    BY <2>1, RevokeNew, GrantNew, AssignNew, SendNew, AnswerNew
  <2>2. CASE g \in Loops /\ (Beat(g) \/ Beaten(g))
    BY <2>2, SendNew, AnswerNew
  <2>3. ~Stopped(g)
    BY DEF Stopped, Faultless
  <2> QED
    BY <1>6, <2>1, <2>2, <2>3 DEF Step, Register, KeepAlive
<1> QED
  BY <1>2, <1>3, <1>4, <1>5, <1>6, TimeLease, ExpiryLease DEF Next, Start, Finish

\* While the lease in leaseID lives, the key is in etcd, under it or under another,
\* unless a request has failed, one is under way or there is no heartbeat.
THEOREM LeaseTrusted == Spec => []LeaseCoversKey
<1>1. LeaseInv => LeaseCoversKey
  <2> SUFFICES ASSUME LeaseInv, AtRest, Beating, ~canceled, budget = MaxFaults, Live(leaseID)
               PROVE  IsRegistered
    BY DEF LeaseCoversKey
  <2>1. \A g \in Goroutines : ~Promises(g)
    BY DEF AtRest, Promises, Renewing, Sending
  <2> QED
    BY <2>1 DEF LeaseInv, Faultless, Covered, IsRegistered
<1> QED
  BY <1>1, LeaseInit, LeaseNext, PTL DEF Spec
===============================================================================
