----------------------------- MODULE CommandHooks -----------------------------
(***************************************************************************)
(* How the commands of a request reach its trace: loggingHook of           *)
(* internal/repository/redis, the command monitor of                       *)
(* internal/repository/mongo, the interceptor of internal/pkg/httpclient,  *)
(* internal/pkg/debug and the Append methods of internal/pkg/trace.        *)
(*                                                                         *)
(* A request runs one command at a time; requests run concurrently and     *)
(* share the one hook, which holds the start of a Redis command, and the   *)
(* one monitor, which holds the record of a MongoDB command.  Neither is   *)
(* locked: what a callback has read or stored may be another's by its next *)
(* step.  A trace is locked while a record is appended to it.  Commands of *)
(* goroutines that serve no request have no trace to reach.                *)
(***************************************************************************)
EXTENDS Integers, FiniteSets, Sequences, SequencesExt, Functions

CONSTANTS
    Goroutines,
    Commands,
    MaxTime,   \* bound: ticks
    None

Kinds == {"redis", "pipeline", "mongo", "http", "debug"}

ASSUME CommandHooksAssumption == None \notin Commands \cup Kinds /\ MaxTime \in Nat

VARIABLES
    context,    \* StdContext with a trace ("traced"), without, or none of its kind
    command,    \* the command each goroutine runs
    stage,      \* how far it is: "begin", "sent" or "end"
    kind,       \* what each command is, None before it is given
    owner,      \* the goroutine that gives it
    started,    \* when it began: for a Redis command, what BeforeProcess read
    now,
    ts,         \* loggingHook.ts: the Redis command whose start it is (a cost is taken
                \* from one word of it, so half a store is the new start or the old)
    since,      \* the one AfterProcess has read from it, for each command
    mongoInfo,  \* the record the monitor holds, named by the command that made it
    info, reply,  \* the command each record names, and the one whose reply it holds
    redis, mongos, thirdParty, debugs,  \* the records appended to each trace
    ended,      \* requests that are over
    succeeded,  \* history: the MongoDB commands of each trace, as they succeeded
    overlapped, \* history: MongoDB commands with a trace that ran at the same time
    together    \* history: pairs of Redis commands that ran at the same time

times == <<now, started>>
given == <<kind, owner>>
running == <<command, stage>>
hook  == <<ts, since, redis, together>>
monitor == <<mongoInfo, info, reply, mongos, succeeded, overlapped>>
own == <<thirdParty, debugs>>
vars == <<context, running, given, times, hook, monitor, own, ended>>

Init ==
    /\ context \in [Goroutines -> {"traced", "untraced", "outside"}]
    /\ command = [g \in Goroutines |-> None] /\ stage = [g \in Goroutines |-> "end"]
    /\ kind = [c \in Commands |-> None] /\ owner = [c \in Commands |-> None]
    /\ started = [c \in Commands |-> 0] /\ now = 0
    /\ ts = None /\ since = [c \in Commands |-> None] /\ together = {}
    /\ mongoInfo = None /\ info = since /\ reply = since
    /\ redis = [g \in Goroutines |-> <<>>] /\ mongos = redis
    /\ thirdParty = redis /\ debugs = redis
    /\ ended = {}
    /\ succeeded = redis /\ overlapped = {}

Traced(g) == context[g] = "traced"

\* The Append methods of Trace, one per kind of record, each under its mutex.
AppendRecord(records, g, record) == [records EXCEPT ![g] = Append(@, record)]

Given(g, c, k) ==
    /\ g \notin ended /\ command[g] = None /\ kind[c] = None
    /\ kind' = [kind EXCEPT ![c] = k]
    /\ owner' = [owner EXCEPT ![c] = g]

Issue(g, c, k, s) ==
    /\ Given(g, c, k)
    /\ command' = [command EXCEPT ![g] = c]
    /\ stage' = [stage EXCEPT ![g] = s]
    /\ started' = [started EXCEPT ![c] = now]

\* g runs a command of kind k and is at stage s.
Runs(g, k, s) == command[g] # None /\ kind[command[g]] = k /\ stage[g] = s

Goes(g, k, from, to) ==
    /\ Runs(g, k, from)
    /\ stage' = [stage EXCEPT ![g] = to]
    /\ UNCHANGED <<context, command, given, times, own, ended>>

Done(g, k, s) ==
    /\ Runs(g, k, s)
    /\ command' = [command EXCEPT ![g] = None]
    /\ stage' = [stage EXCEPT ![g] = "end"]

-------------------------------------------------------------------------------
(* The Redis hook *)

RunningRedis == {c \in Range(command) \ {None} : kind[c] = "redis"}

\* The command reads the clock ...
BeforeProcess(g, c) ==
    /\ Issue(g, c, "redis", "begin")
    /\ together' = together \cup {{c, d} : d \in RunningRedis}
    /\ UNCHANGED <<context, now, ts, since, redis, monitor, own, ended>>

\* (Mutant) the time is stored once, by the first command.
BeforeProcessStores_Once(g) ==
    /\ Goes(g, "redis", "begin", "sent")
    /\ ts' = IF ts = None THEN command[g] ELSE ts
    /\ UNCHANGED <<since, redis, together, monitor>>

\* ... and stores what it read, which may be older than what it finds there.
BeforeProcessStores(g) ==
    /\ Goes(g, "redis", "begin", "sent")
    /\ ts' = command[g]
    /\ UNCHANGED <<since, redis, together, monitor>>

\* When the command is over the stored time is read, whosever it is by then ...
AfterProcess(g) ==
    /\ Traced(g) /\ Goes(g, "redis", "sent", "end")
    /\ since' = [since EXCEPT ![command[g]] = ts]
    /\ UNCHANGED <<ts, redis, together, monitor>>

Record(c) == [cmd |-> c, cost |-> now - started[since[c]], end |-> now]

\* (Mutant) the trace is the one of the command whose time was stored.
AfterProcessAppends_LastTrace(g) ==
    /\ Done(g, "redis", "end")
    /\ LET h == owner[since[command[g]]] IN
       redis' = IF Traced(h) THEN AppendRecord(redis, h, Record(command[g])) ELSE redis
    /\ UNCHANGED <<context, given, times, ts, since, together, monitor, own, ended>>

\* ... and the cost runs from it until now.  A command that failed is recorded as well.
AfterProcessAppends(g) ==
    /\ Traced(g) /\ Done(g, "redis", "end")
    /\ redis' = AppendRecord(redis, g, Record(command[g]))
    /\ UNCHANGED <<context, given, times, ts, since, together, monitor, own, ended>>

\* Without a trace there is nothing to record.
AfterProcessUntraced(g) ==
    /\ ~Traced(g) /\ Done(g, "redis", "sent")
    /\ UNCHANGED <<context, given, times, hook, monitor, own, ended>>

\* A pipeline of commands leaves no record.
BeforeProcessPipeline(g, c) ==
    /\ Issue(g, c, "pipeline", "sent")
    /\ UNCHANGED <<context, now, hook, monitor, own, ended>>

AfterProcessPipeline(g) ==
    /\ Done(g, "pipeline", "sent")
    /\ UNCHANGED <<context, given, times, hook, monitor, own, ended>>

-------------------------------------------------------------------------------
(* The MongoDB monitor *)

RunningMongo == {c \in Range(command) \ {None} : kind[c] = "mongo" /\ Traced(owner[c])}

Overlap(g, c) ==
    overlapped' = IF Traced(g) /\ RunningMongo # {} THEN overlapped \cup RunningMongo \cup {c}
                  ELSE overlapped

\* Without a trace the monitor does nothing, neither here nor at the end.
MonitorStage(g) == IF Traced(g) THEN "begin" ELSE "sent"

\* (Mutant) the one record is filled again.
Started_Reuse(g, c) ==
    /\ Issue(g, c, "mongo", MonitorStage(g))
    /\ mongoInfo' = IF Traced(g) /\ mongoInfo = None THEN c ELSE mongoInfo
    /\ Overlap(g, c)
    /\ UNCHANGED <<context, now, hook, info, reply, mongos, succeeded, own, ended>>

\* The monitor makes a record for the command, and forgets the one it held ...
Started(g, c) ==
    /\ Issue(g, c, "mongo", MonitorStage(g))
    /\ mongoInfo' = IF Traced(g) THEN c ELSE mongoInfo
    /\ Overlap(g, c)
    /\ UNCHANGED <<context, now, hook, info, reply, mongos, succeeded, own, ended>>

\* ... and names the command in the record it holds, which may be another by then.
StartedFills(g) ==
    /\ Goes(g, "mongo", "begin", "sent")
    /\ info' = [info EXCEPT ![mongoInfo] = command[g]]
    /\ UNCHANGED <<hook, mongoInfo, reply, mongos, succeeded, overlapped>>

\* The record the monitor holds gets the reply, though it may be of another command ...
Succeeded(g) ==
    /\ Traced(g) /\ Goes(g, "mongo", "sent", "end")
    /\ reply' = [reply EXCEPT ![mongoInfo] = command[g]]
    /\ succeeded' = [succeeded EXCEPT ![g] = Append(@, command[g])]
    /\ UNCHANGED <<hook, mongoInfo, info, mongos, overlapped>>

\* ... and what it holds then goes to the trace, though it may be in another already.
SucceededAppends(g) ==
    /\ Done(g, "mongo", "end")
    /\ mongos' = AppendRecord(mongos, g, mongoInfo)
    /\ UNCHANGED <<context, given, times, hook, mongoInfo, info, reply, succeeded, overlapped,
                   own, ended>>

\* The command failed, which the monitor does not hear of, or has no trace.
Failed(g) ==
    /\ Done(g, "mongo", "sent")
    /\ UNCHANGED <<context, given, times, hook, monitor, own, ended>>

-------------------------------------------------------------------------------
(* Third-party requests and debug records, which share nothing *)

\* Outside a request the client has no interceptor.
Send(g, c) ==
    /\ Issue(g, c, "http", "sent")
    /\ UNCHANGED <<context, now, hook, monitor, own, ended>>

\* The interceptor uses the trace without a look: where there is none it panics, and
\* the request is over.
OnResponse(g) ==
    /\ Done(g, "http", "sent")
    /\ thirdParty' = IF Traced(g) THEN AppendRecord(thirdParty, g, command[g]) ELSE thirdParty
    /\ ended' = IF context[g] = "untraced" THEN ended \cup {g} ELSE ended
    /\ UNCHANGED <<context, given, times, hook, monitor, debugs>>

\* Without a response the interceptor is not called.
NoResponse(g) ==
    /\ Done(g, "http", "sent")
    /\ UNCHANGED <<context, given, times, hook, monitor, own, ended>>

\* debug.WithContext(ctx).Logger
Logger(g, c) ==
    /\ Given(g, c, "debug")
    /\ debugs' = IF Traced(g) THEN AppendRecord(debugs, g, c) ELSE debugs
    /\ UNCHANGED <<context, running, times, hook, monitor, thirdParty, ended>>

-------------------------------------------------------------------------------

\* The request is over: its trace is logged.
End(g) ==
    /\ context[g] # "outside" /\ g \notin ended /\ command[g] = None
    /\ ended' = ended \cup {g}
    /\ UNCHANGED <<context, running, given, times, hook, monitor, own>>

Tick ==
    /\ now < MaxTime /\ now' = now + 1
    /\ UNCHANGED <<context, running, given, started, hook, monitor, own, ended>>

Next ==
    \/ \E g \in Goroutines, c \in Commands :
          \/ BeforeProcess(g, c) \/ BeforeProcessPipeline(g, c) \/ Started(g, c)
          \/ Send(g, c) \/ Logger(g, c)
    \/ \E g \in Goroutines :
          \/ BeforeProcessStores(g) \/ AfterProcess(g) \/ AfterProcessAppends(g)
          \/ AfterProcessUntraced(g) \/ AfterProcessPipeline(g)
          \/ StartedFills(g) \/ Succeeded(g) \/ SucceededAppends(g) \/ Failed(g)
          \/ OnResponse(g) \/ NoResponse(g) \/ End(g)
    \/ Tick

Spec == Init /\ [][Next]_vars

-------------------------------------------------------------------------------
(* Properties *)

\* Between two commands, the trace of a request has one record of every Redis command
\* and debug entry the request has given, at most one of every third-party request
\* it has sent, and no other record, whoever used the hook meanwhile.
Recorded ==
    \A g \in Goroutines : command[g] = None =>
        LET mine(k) == {c \in Commands : kind[c] = k /\ owner[c] = g}
            cmds    == [n \in DOMAIN redis[g] |-> redis[g][n].cmd]
        IN
        IF Traced(g)
        THEN /\ Len(cmds) = Cardinality(mine("redis")) /\ Range(cmds) = mine("redis")
             /\ Len(debugs[g]) = Cardinality(mine("debug")) /\ Range(debugs[g]) = mine("debug")
             /\ IsInjective(thirdParty[g]) /\ Range(thirdParty[g]) \subseteq mine("http")
        ELSE redis[g] \o debugs[g] \o thirdParty[g] = <<>>

\* The cost of a Redis command runs to its own end, from its own start or from that of
\* a command that ran at the same time: one that ran alone is told what it took.
CostOfOverlap ==
    \A g \in Goroutines : \A e \in Range(redis[g]) :
        \E d \in Commands :
            /\ d = e.cmd \/ {d, e.cmd} \in together
            /\ e.cost = e.end - started[d]

\* Between two commands, the trace of a request has a record for every MongoDB command
\* of it that succeeded, in that order; the record is the command's own, names it and
\* holds its reply, unless the command ran together with another.
MongoRecorded ==
    \A g \in Goroutines : command[g] = None =>
        /\ Len(mongos[g]) = Len(succeeded[g])
        /\ \A n \in DOMAIN mongos[g] :
              LET c == succeeded[g][n] IN
              c \notin overlapped => mongos[g][n] = c /\ info[c] = c /\ reply[c] = c
===============================================================================
