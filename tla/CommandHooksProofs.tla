--------------------------- MODULE CommandHooksProofs ---------------------------
(***************************************************************************)
(* What the hook reports of the time Redis commands took, which record of  *)
(* a MongoDB command its trace gets, and that traces are whole: for any    *)
(* number of goroutines and commands.                                      *)
(***************************************************************************)
EXTENDS CommandHooks, SequenceTheorems, FiniteSetTheorems, TLAPS

IsRedis(c) == kind[c] = "redis"

RecordType == [cmd : Commands, cost : Int, end : Int]

TypeOK ==
    /\ command \in [Goroutines -> Commands \cup {None}]
    /\ stage \in [Goroutines -> {"begin", "sent", "end"}]
    /\ kind \in [Commands -> Kinds \cup {None}]
    /\ started \in [Commands -> Nat] /\ now \in Nat
    /\ since \in [Commands -> Commands \cup {None}]
    /\ redis \in [Goroutines -> Seq(RecordType)]

\* A command runs once it is given.
Known == \A g \in Goroutines : command[g] # None => kind[command[g]] # None

InRedis(g) == command[g] # None /\ IsRedis(command[g])

\* Two Redis commands that run are known to overlap.
Paired ==
    \A g, h \in Goroutines : InRedis(g) /\ InRedis(h) =>
        command[g] = command[h] \/ {command[g], command[h]} \in together

\* The start of d may be the one the cost of c runs from.
Explains(c, d) == d \in Commands /\ IsRedis(d) /\ (d = c \/ {d, c} \in together)

\* A command that has stored its start finds that one, or that of a command that has
\* stored its own since, and so runs or ran together with it.
Stored ==
    \A g \in Goroutines : InRedis(g) =>
        /\ stage[g] # "begin" => Explains(command[g], ts)
        /\ stage[g] = "end" => Explains(command[g], since[command[g]])

Fair(e) == \E d \in Commands : Explains(e.cmd, d) /\ e.cost = e.end - started[d]

RecordsFair == \A g \in Goroutines : \A n \in DOMAIN redis[g] : Fair(redis[g][n])

Inv == TypeOK /\ Known /\ Paired /\ Stored /\ RecordsFair

LEMMA InitInv == Init => Inv
<1> SUFFICES ASSUME Init PROVE Inv
  OBVIOUS
<1>1. TypeOK
  BY DEF Init, TypeOK
<1>2. Known /\ Paired /\ Stored
  BY DEF Init, Known, Paired, Stored, InRedis
<1>3. RecordsFair
  BY DEF Init, RecordsFair
<1> QED
  BY <1>1, <1>2, <1>3 DEF Inv

\* What is known of a command does not change once it is given.
Kept ==
    /\ \A c \in Commands : kind[c] # None => kind'[c] = kind[c] /\ started'[c] = started[c]
    /\ together \subseteq together'

LEMMA ExplainsKept ==
    ASSUME Kept, NEW c, NEW d, Explains(c, d)
    PROVE  Explains(c, d)'
<1>1. kind[d] # None
  BY CommandHooksAssumption DEF Explains, IsRedis, Kinds
<1> QED
  BY <1>1 DEF Kept, Explains, IsRedis

LEMMA RecordsKept ==
    ASSUME Inv, Kept, redis' = redis
    PROVE  RecordsFair'
<1> SUFFICES ASSUME NEW h \in Goroutines, NEW n \in DOMAIN redis[h] PROVE Fair(redis[h][n])'
  BY DEF RecordsFair
<1>1. PICK d \in Commands :
          /\ Explains(redis[h][n].cmd, d)
          /\ redis[h][n].cost = redis[h][n].end - started[d]
  BY DEF Inv, RecordsFair, Fair
<1>2. started'[d] = started[d]
  BY <1>1, CommandHooksAssumption DEF Explains, IsRedis, Kinds, Kept
<1>3. \A c : Explains(c, d) => Explains(c, d)'
  BY ExplainsKept
<1>4. Explains(redis[h][n].cmd, d)'
  BY <1>1, <1>3 DEF Explains
<1> QED
  BY <1>1, <1>2, <1>4 DEF Fair

\* A command is given; the others run on.
LEMMA GivenInv ==
    ASSUME Inv, NEW g \in Goroutines, NEW c \in Commands, NEW k \in Kinds, Given(g, c, k),
           UNCHANGED <<now, ts, since, redis>>,
           \/ UNCHANGED <<command, stage, started>> /\ k = "debug"
           \/ /\ \E s \in {"begin", "sent"} :
                    stage' = [stage EXCEPT ![g] = s] /\ (k = "redis" => s = "begin")
              /\ command' = [command EXCEPT ![g] = c]
              /\ started' = [started EXCEPT ![c] = now],
           together' = IF k = "redis" THEN together \cup {{c, d} : d \in RunningRedis} ELSE together
    PROVE  Inv'
<1>1. /\ command[g] = None /\ kind[c] = None /\ kind' = [kind EXCEPT ![c] = k]
      /\ k # None /\ None \notin Commands
  BY CommandHooksAssumption DEF Given
<1>2. TypeOK'
  <2>1. kind' \in [Commands -> Kinds \cup {None}]
    BY <1>1 DEF Inv, TypeOK
  <2>2. command \in [Goroutines -> Commands \cup {None}] /\ started \in [Commands -> Nat] /\ now \in Nat
        /\ stage \in [Goroutines -> {"begin", "sent", "end"}]
    BY DEF Inv, TypeOK
  <2>3. command' \in [Goroutines -> Commands \cup {None}]
    BY <2>2
  <2>4. stage' \in [Goroutines -> {"begin", "sent", "end"}]
    BY <2>2
  <2>5. started' \in [Commands -> Nat]
    BY <2>2
  <2> QED
    BY <2>1, <2>3, <2>4, <2>5 DEF Inv, TypeOK
<1>3. /\ \A d \in Commands \ {c} : kind'[d] = kind[d] /\ started'[d] = started[d]
      /\ kind'[c] = k
  BY <1>1 DEF Inv, TypeOK
<1>4. Kept
  BY <1>1, <1>3 DEF Kept
<1>5. /\ command'[g] \in {None, c} /\ (k = "redis" => stage'[g] = "begin")
      /\ \A h \in Goroutines \ {g} : command'[h] = command[h] /\ stage'[h] = stage[h]
  BY <1>1 DEF Inv, TypeOK
<1>6. Known'
  BY <1>1, <1>3, <1>5 DEF Inv, TypeOK, Known
<1>7. ASSUME NEW h \in Goroutines, h # g, InRedis(h)'
      PROVE  InRedis(h) /\ command'[h] = command[h] /\ command[h] \in Commands \ {c}
  <2>1. command[h] # c
    BY <1>1, <1>5, <1>7 DEF Inv, Known, InRedis
  <2> QED
    BY <1>3, <1>5, <1>7, <2>1 DEF Inv, TypeOK, InRedis, IsRedis
<1>8. InRedis(g)' => command'[g] = c /\ k = "redis"
  BY <1>3, <1>5 DEF InRedis, IsRedis
<1>9. ASSUME NEW h \in Goroutines, InRedis(h) PROVE command[h] \in RunningRedis
  BY <1>9 DEF Inv, TypeOK, InRedis, IsRedis, RunningRedis, Range
<1>10. ASSUME NEW h \in Goroutines, h # g, InRedis(h)', InRedis(g)'
       PROVE  {c, command[h]} \in together'
  BY <1>7, <1>8, <1>9, <1>10
<1>11. Paired'
  <2> SUFFICES ASSUME NEW x \in Goroutines, NEW y \in Goroutines, InRedis(x)', InRedis(y)'
               PROVE  command'[x] = command'[y] \/ {command'[x], command'[y]} \in together'
    BY DEF Paired
  <2>1. CASE x = g /\ y = g
    BY <2>1
  <2>2. CASE x = g /\ y # g
    BY <1>7, <1>8, <1>10, <2>2
  <2>3. CASE x # g /\ y = g
    <3>1. {c, command[x]} \in together' /\ {c, command[x]} = {command[x], c}
      BY <1>10, <2>3
    <3> QED
      BY <1>7, <1>8, <2>3, <3>1
  <2>4. CASE x # g /\ y # g
    BY <1>4, <1>7, <2>4 DEF Inv, Paired, Kept
  <2> QED
    BY <2>1, <2>2, <2>3, <2>4
<1>12. Stored'
  <2> SUFFICES ASSUME NEW h \in Goroutines, InRedis(h)'
               PROVE  (/\ stage[h] # "begin" => Explains(command[h], ts)
                       /\ stage[h] = "end" => Explains(command[h], since[command[h]]))'
    BY DEF Stored
  <2>1. CASE h = g
    BY <1>5, <1>8, <2>1
  <2>2. CASE h # g
    <3>1. InRedis(h) /\ command'[h] = command[h] /\ stage'[h] = stage[h]
      BY <1>5, <1>7, <2>2
    <3>2. /\ stage[h] # "begin" => Explains(command[h], ts)
          /\ stage[h] = "end" => Explains(command[h], since[command[h]])
      BY <3>1 DEF Inv, Stored
    <3>3. \A x, y : Explains(x, y) => y \in Commands /\ kind'[y] = "redis" /\ (y = x \/ {y, x} \in together')
      BY <1>4, ExplainsKept DEF Explains, IsRedis
    <3>4. stage[h] # "begin" => Explains(command[h], ts)'
      BY <3>1, <3>2, <3>3 DEF Explains, IsRedis
    <3>5. stage[h] = "end" => Explains(command[h], since[command[h]])'
      <4>1. PICK d : d = since[command[h]]
        OBVIOUS
      <4>2. since'[command'[h]] = d
        BY <3>1, <4>1
      <4>3. stage[h] = "end" => Explains(command[h], d)
        BY <3>2, <4>1
      <4> QED
        BY <3>1, <3>3, <4>2, <4>3 DEF Explains, IsRedis
    <3> QED
      BY <3>1, <3>4, <3>5
  <2> QED
    BY <2>1, <2>2
<1>13. RecordsFair'
  BY <1>4, RecordsKept
<1> QED
  BY <1>2, <1>6, <1>11, <1>12, <1>13 DEF Inv

\* The start is stored: every other command that has stored its own runs together with
\* this one.
LEMMA StoresInv == ASSUME Inv, NEW g \in Goroutines, BeforeProcessStores(g) PROVE Inv'
<1>1. /\ InRedis(g) /\ stage[g] = "begin" /\ stage' = [stage EXCEPT ![g] = "sent"]
      /\ ts' = command[g] /\ UNCHANGED <<command, kind, started, now, since, redis, together>>
  BY DEF BeforeProcessStores, Goes, Runs, InRedis, IsRedis, given, times
<1>2. TypeOK' /\ stage'[g] = "sent" /\ \A h \in Goroutines \ {g} : stage'[h] = stage[h]
  BY <1>1 DEF Inv, TypeOK
<1>3. Known' /\ Paired'
  BY <1>1 DEF Inv, Known, Paired, InRedis, IsRedis
<1>4. Stored'
  <2> SUFFICES ASSUME NEW h \in Goroutines, InRedis(h)
               PROVE  /\ Explains(command[h], command[g])
                      /\ stage'[h] = "end" => Explains(command[h], since[command[h]])
    BY <1>1 DEF Stored, Explains, InRedis, IsRedis
  <2>1. command[g] \in Commands
    BY <1>1 DEF Inv, TypeOK, InRedis
  <2>2. command[g] = command[h] \/ {command[g], command[h]} \in together
    BY <1>1 DEF Inv, Paired
  <2>3. stage'[h] = "end" => Explains(command[h], since[command[h]])
    BY <1>2 DEF Inv, Stored
  <2> QED
    BY <1>1, <2>1, <2>2, <2>3 DEF Explains, InRedis
<1>5. RecordsFair'
  BY <1>1, RecordsKept DEF Kept
<1> QED
  BY <1>2, <1>3, <1>4, <1>5 DEF Inv

\* The stored start is read.
LEMMA AfterProcessInv == ASSUME Inv, NEW g \in Goroutines, AfterProcess(g) PROVE Inv'
<1>1. /\ InRedis(g) /\ stage[g] = "sent" /\ stage' = [stage EXCEPT ![g] = "end"]
      /\ since' = [since EXCEPT ![command[g]] = ts]
      /\ UNCHANGED <<command, kind, started, now, ts, redis, together>>
  BY DEF AfterProcess, Goes, Runs, InRedis, IsRedis, given, times
<1>2. command[g] \in Commands /\ Explains(command[g], ts)
  BY <1>1 DEF Inv, TypeOK, InRedis, Stored
<1>3. TypeOK' /\ \A h \in Goroutines \ {g} : stage'[h] = stage[h]
  BY <1>1, <1>2 DEF Inv, TypeOK, Explains
<1>4. since'[command[g]] = ts /\ \A c \in Commands \ {command[g]} : since'[c] = since[c]
  BY <1>1, <1>2 DEF Inv, TypeOK
<1>5. Known' /\ Paired'
  BY <1>1 DEF Inv, Known, Paired, InRedis, IsRedis
<1>6. Stored'
  <2> SUFFICES ASSUME NEW h \in Goroutines, InRedis(h)
               PROVE  /\ stage'[h] # "begin" => Explains(command[h], ts)
                      /\ stage'[h] = "end" => Explains(command[h], since'[command[h]])
    BY <1>1 DEF Stored, Explains, InRedis, IsRedis
  <2>1. command[h] \in Commands
    BY DEF Inv, TypeOK, InRedis
  <2>2. CASE command[h] = command[g]
    BY <1>2, <1>4, <2>2
  <2>3. CASE command[h] # command[g]
    BY <1>3, <1>4, <2>1, <2>3 DEF Inv, Stored
  <2> QED
    BY <2>2, <2>3
<1>7. RecordsFair'
  BY <1>1, RecordsKept DEF Kept
<1> QED
  BY <1>3, <1>5, <1>6, <1>7 DEF Inv

\* Commands run on, or are over.
LEMMA RunOn ==
    ASSUME Known, Paired, Stored, UNCHANGED <<kind, ts, since, together>>,
           \A h \in Goroutines : command'[h] # None =>
              command'[h] = command[h] /\ (InRedis(h) => stage'[h] = stage[h])
    PROVE  Known' /\ Paired' /\ Stored'
<1>1. \A h \in Goroutines : InRedis(h)' => InRedis(h)
  BY DEF InRedis, IsRedis
<1>2. \A x, y : Explains(x, y)' <=> Explains(x, y)
  BY DEF Explains, IsRedis
<1>3. Known'
  BY DEF Known
<1>4. Paired'
  BY <1>1 DEF Paired, InRedis
<1>5. Stored'
  <2> SUFFICES ASSUME NEW h \in Goroutines, InRedis(h)'
               PROVE  (/\ stage[h] # "begin" => Explains(command[h], ts)
                       /\ stage[h] = "end" => Explains(command[h], since[command[h]]))'
    BY DEF Stored
  <2>1. InRedis(h) /\ command'[h] = command[h] /\ stage'[h] = stage[h]
    BY <1>1 DEF InRedis
  <2>2. /\ stage[h] # "begin" => Explains(command[h], ts)
        /\ stage[h] = "end" => Explains(command[h], since[command[h]])
    BY <2>1 DEF Stored
  <2> QED
    BY <2>1, <2>2 DEF Explains, IsRedis
<1> QED
  BY <1>3, <1>4, <1>5

\* A goroutine's command goes on or is over, and neither the hook nor the times change
\* but for time passing.
LEMMA OtherInv ==
    ASSUME Inv, UNCHANGED <<given, started, ts, since, together, redis>>, now' \in {now, now + 1},
           \/ UNCHANGED running
           \/ \E g \in Goroutines : \E s \in {"sent", "end"} :
                 /\ stage' = [stage EXCEPT ![g] = s]
                 /\ \/ command' = command /\ ~InRedis(g)
                    \/ command' = [command EXCEPT ![g] = None]
    PROVE  Inv'
<1>1. TypeOK'
  <2>1. command' \in [Goroutines -> Commands \cup {None}]
        /\ stage' \in [Goroutines -> {"begin", "sent", "end"}]
    BY DEF Inv, TypeOK, running
  <2>2. now' \in Nat
    BY DEF Inv, TypeOK
  <2> QED
    BY <2>1, <2>2 DEF Inv, TypeOK, given
<1>2. \A h \in Goroutines : command'[h] # None =>
          command'[h] = command[h] /\ (InRedis(h) => stage'[h] = stage[h])
  BY DEF Inv, TypeOK, running
<1>3. Known' /\ Paired' /\ Stored'
  BY <1>2, RunOn DEF Inv, given
<1>4. RecordsFair'
  BY RecordsKept DEF Kept, given
<1> QED
  BY <1>1, <1>3, <1>4 DEF Inv

\* A record is appended: its cost runs from the start that was read.
LEMMA AppendsInv == ASSUME Inv, NEW g \in Goroutines, AfterProcessAppends(g) PROVE Inv'
<1> DEFINE c == command[g]
           e == Record(c)
<1>1. /\ InRedis(g) /\ stage[g] = "end" /\ stage' = [stage EXCEPT ![g] = "end"]
      /\ command' = [command EXCEPT ![g] = None] /\ redis' = [redis EXCEPT ![g] = Append(@, e)]
      /\ UNCHANGED <<kind, started, now, ts, since, together>>
  BY DEF AfterProcessAppends, AppendRecord, Done, Runs, InRedis, IsRedis, given, times
<1>2. c \in Commands /\ Explains(c, since[c])
  BY <1>1 DEF Inv, TypeOK, InRedis, Stored
<1>3. e = [cmd |-> c, cost |-> now - started[since[c]], end |-> now]
  BY DEF Record
<1> HIDE DEF c, e
<1>4. e \in RecordType /\ e.cmd = c /\ e.cost = now - started[since[c]] /\ e.end = now
  <2>1. now \in Nat /\ started[since[c]] \in Nat
    BY <1>2 DEF Inv, TypeOK, Explains
  <2> QED
    BY <1>2, <1>3, <2>1 DEF RecordType
<1>5. Fair(e)
  BY <1>2, <1>4 DEF Fair, Explains
<1>6. TypeOK'
  <2>1. redis \in [Goroutines -> Seq(RecordType)] /\ Append(redis[g], e) \in Seq(RecordType)
    BY <1>4 DEF Inv, TypeOK
  <2>2. redis' \in [Goroutines -> Seq(RecordType)]
    BY <1>1, <2>1
  <2> QED
    BY <1>1, <2>2 DEF Inv, TypeOK
<1>7. Known' /\ Paired' /\ Stored'
  <2>1. \A h \in Goroutines : command'[h] # None => command'[h] = command[h] /\ stage'[h] = stage[h]
    BY <1>1 DEF Inv, TypeOK
  <2> QED
    BY <1>1, <2>1, RunOn DEF Inv
<1>8. RecordsFair'
  <2> SUFFICES ASSUME NEW h \in Goroutines, NEW n \in DOMAIN redis'[h]
               PROVE  Fair(redis[h][n])'
    BY DEF RecordsFair
  <2>1. redis[h] \in Seq(RecordType)
    BY DEF Inv, TypeOK
  <2>2. redis'[h] = redis[h] \/ redis'[h] = Append(redis[h], e)
    BY <1>1 DEF Inv, TypeOK
  <2>3. Fair(redis'[h][n])
    <3>1. CASE n \in DOMAIN redis[h]
      <4>1. redis'[h][n] = redis[h][n]
        BY <1>4, <2>1, <2>2, <3>1
      <4> QED
        BY <3>1, <4>1 DEF Inv, RecordsFair
    <3>2. CASE n \notin DOMAIN redis[h]
      <4>1. redis'[h][n] = e
        BY <1>4, <2>1, <2>2, <3>2
      <4> QED
        BY <1>5, <4>1
    <3> QED
      BY <3>1, <3>2
  <2> QED
    BY <1>1, <2>3 DEF Fair, Explains, IsRedis
<1> QED
  BY <1>6, <1>7, <1>8 DEF Inv

LEMMA NextInv == Inv /\ [Next]_vars => Inv'
<1> SUFFICES ASSUME Inv, [Next]_vars PROVE Inv'
  OBVIOUS
<1>1. ASSUME NEW g \in Goroutines, NEW c \in Commands,
             \/ BeforeProcess(g, c) \/ BeforeProcessPipeline(g, c) \/ Started(g, c)
             \/ Send(g, c) \/ Logger(g, c)
      PROVE  Inv'
  <2>1. CASE BeforeProcess(g, c)
    BY <2>1, GivenInv DEF BeforeProcess, Issue, Kinds
  <2>2. CASE BeforeProcessPipeline(g, c)
    BY <2>2, GivenInv DEF BeforeProcessPipeline, Issue, Kinds, hook
  <2>3. CASE Started(g, c)
    <3>1. MonitorStage(g) \in {"begin", "sent"}
      BY DEF MonitorStage
    <3> QED
      BY <2>3, <3>1, GivenInv DEF Started, Issue, Kinds, hook
  <2>4. CASE Send(g, c)
    BY <2>4, GivenInv DEF Send, Issue, Kinds, hook
  <2>5. CASE Logger(g, c)
    BY <2>5, GivenInv DEF Logger, Kinds, hook, times, running
  <2> QED
    BY <1>1, <2>1, <2>2, <2>3, <2>4, <2>5
<1>2. ASSUME NEW g \in Goroutines,
             BeforeProcessStores(g) \/ AfterProcess(g) \/ AfterProcessAppends(g)
      PROVE  Inv'
  BY <1>2, StoresInv, AfterProcessInv, AppendsInv
<1>3. ASSUME NEW g \in Goroutines,
             \/ AfterProcessUntraced(g) \/ AfterProcessPipeline(g) \/ SucceededAppends(g)
             \/ Failed(g) \/ OnResponse(g) \/ NoResponse(g)
      PROVE  Inv'
  <2>1. /\ UNCHANGED <<given, times, hook>>
        /\ command' = [command EXCEPT ![g] = None] /\ stage' = [stage EXCEPT ![g] = "end"]
    BY <1>3 DEF AfterProcessUntraced, AfterProcessPipeline, SucceededAppends, Failed, OnResponse,
                NoResponse, Done
  <2> QED
    BY <2>1, OtherInv DEF times, hook
<1>4. ASSUME NEW g \in Goroutines, StartedFills(g) \/ Succeeded(g) PROVE Inv'
  <2>1. /\ UNCHANGED <<given, times, hook, command>> /\ ~InRedis(g)
        /\ \E s \in {"sent", "end"} : stage' = [stage EXCEPT ![g] = s]
    BY <1>4 DEF StartedFills, Succeeded, Goes, Runs, InRedis, IsRedis
  <2> QED
    BY <2>1, OtherInv DEF times, hook
<1>5. CASE Tick \/ (\E g \in Goroutines : End(g)) \/ UNCHANGED vars
  BY <1>5, OtherInv DEF Tick, End, vars, times, hook
<1> QED
  BY <1>1, <1>2, <1>3, <1>4, <1>5 DEF Next

\* What a Redis command is reported to have cost is the time from its own start, or from
\* that of a command that ran together with it, to its own end.
THEOREM CostsFair == Spec => []CostOfOverlap
<1>1. Inv => CostOfOverlap
  <2> SUFFICES ASSUME Inv, NEW g \in Goroutines, NEW e \in Range(redis[g])
               PROVE  \E d \in Commands : (d = e.cmd \/ {d, e.cmd} \in together)
                                          /\ e.cost = e.end - started[d]
    BY DEF CostOfOverlap
  <2>1. Fair(e)
    BY DEF Range, Inv, RecordsFair
  <2> QED
    BY <2>1 DEF Fair, Explains
<1> QED
  BY <1>1, InitInv, NextInv, PTL DEF Spec

-------------------------------------------------------------------------------
(* The monitor *)

MonitorType ==
    /\ owner \in [Commands -> Goroutines \cup {None}]
    /\ info \in [Commands -> Commands \cup {None}]
    /\ reply \in [Commands -> Commands \cup {None}]
    /\ mongos \in [Goroutines -> Seq(Commands)]
    /\ succeeded \in [Goroutines -> Seq(Commands)]

\* A goroutine runs commands of its own.
Mine ==
    \A g \in Goroutines : command[g] # None => owner[command[g]] = g /\ kind[command[g]] # None

\* The monitor holds the record of a command that runs, unless another has begun since:
\* then both have overlapped.
Held ==
    \A c \in RunningMongo :
        mongoInfo \in Commands /\ (mongoInfo = c \/ {c, mongoInfo} \subseteq overlapped)

InMongo(g) == command[g] # None /\ kind[command[g]] = "mongo"
Ending(g) == InMongo(g) /\ stage[g] = "end"

\* The record of a command that runs alone names it, and has its reply at the end.
Filled(g) ==
    InMongo(g) =>
        /\ stage[g] # "sent" => Traced(g)
        /\ Traced(g) /\ command[g] \notin overlapped =>
              /\ stage[g] # "begin" => info[command[g]] = command[g]
              /\ stage[g] = "end" => reply[command[g]] = command[g]

\* Only the command that ends has succeeded and is not recorded yet.
Recording(g) ==
    IF Ending(g)
    THEN Len(succeeded[g]) = Len(mongos[g]) + 1 /\ succeeded[g][Len(mongos[g]) + 1] = command[g]
    ELSE Len(succeeded[g]) = Len(mongos[g])

RightRecord(r, c) == c \notin overlapped => r = c /\ info[c] = c /\ reply[c] = c

Right(g) == \A n \in DOMAIN mongos[g] : RightRecord(mongos[g][n], succeeded[g][n])

MonitorInv ==
    /\ Inv /\ MonitorType /\ Mine /\ Held
    /\ \A g \in Goroutines : Filled(g) /\ Recording(g) /\ Right(g)

LEMMA MonitorInit == Init => MonitorInv
<1> SUFFICES ASSUME Init PROVE MonitorInv
  OBVIOUS
<1>1. MonitorType
  BY DEF Init, MonitorType
<1>2. Mine
  BY DEF Init, Mine
<1>3. RunningMongo = {}
  BY DEF Init, RunningMongo, Range
<1>4. Held
  BY <1>3 DEF Held
<1>5. \A g \in Goroutines : Filled(g) /\ Recording(g) /\ Right(g)
  BY DEF Init, Filled, Recording, Right, Ending, InMongo
<1> QED
  BY <1>1, <1>2, <1>4, <1>5, InitInv DEF MonitorInv

LEMMA Running ==
    ASSUME NEW d
    PROVE  d \in RunningMongo <=>
              \E h \in DOMAIN command :
                 command[h] = d /\ d # None /\ kind[d] = "mongo" /\ Traced(owner[d])
BY DEF RunningMongo, Range

\* A traced goroutine in a command finds its own record, unless it overlaps with that.
LEMMA Finds ==
    ASSUME MonitorInv, NEW g \in Goroutines, InMongo(g), Traced(g)
    PROVE  /\ command[g] \in Commands /\ mongoInfo \in Commands
           /\ mongoInfo = command[g] \/ {command[g], mongoInfo} \subseteq overlapped
<1>1. command[g] \in Commands /\ owner[command[g]] = g /\ g \in DOMAIN command
  BY DEF MonitorInv, Inv, TypeOK, Mine, InMongo
<1>2. command[g] \in RunningMongo
  BY <1>1, Running DEF InMongo
<1> QED
  BY <1>1, <1>2 DEF MonitorInv, Held

\* A step that does no harm to the records of commands that ran alone.
Loyal ==
    /\ overlapped \subseteq overlapped'
    /\ \A c \in Commands \ overlapped :
          (info[c] = c => info'[c] = c) /\ (reply[c] = c => reply'[c] = c)

LEMMA RightKept ==
    ASSUME MonitorInv, Loyal, NEW h \in Goroutines, mongos'[h] = mongos[h],
           \/ succeeded'[h] = succeeded[h]
           \/ \E c \in Commands : succeeded'[h] = Append(succeeded[h], c)
    PROVE  Right(h)'
<1> SUFFICES ASSUME NEW n \in DOMAIN mongos[h]
             PROVE  RightRecord(mongos[h][n], succeeded[h][n])'
  BY DEF Right
<1>1. /\ mongos[h] \in Seq(Commands) /\ succeeded[h] \in Seq(Commands)
      /\ Len(succeeded[h]) \in {Len(mongos[h]), Len(mongos[h]) + 1}
  BY DEF MonitorInv, MonitorType, Recording
<1>2. n \in DOMAIN succeeded[h] /\ succeeded[h][n] \in Commands
  BY <1>1
<1>3. succeeded'[h][n] = succeeded[h][n]
  BY <1>1, <1>2
<1>4. RightRecord(mongos[h][n], succeeded[h][n])
  BY DEF MonitorInv, Right
<1> QED
  BY <1>2, <1>3, <1>4 DEF RightRecord, Loyal

\* What other goroutines do does not disturb one ...
LEMMA Undisturbed ==
    ASSUME MonitorInv, Loyal, UNCHANGED context, NEW h \in Goroutines,
           mongos'[h] = mongos[h], succeeded'[h] = succeeded[h],
           InMongo(h)' => InMongo(h) /\ command'[h] = command[h] /\ stage'[h] = stage[h],
           Ending(h) => InMongo(h)'
    PROVE  Filled(h)' /\ Recording(h)' /\ Right(h)'
<1>1. Right(h)'
  BY RightKept
<1>2. Ending(h)' <=> Ending(h)
  BY DEF Ending
<1>3. Ending(h) => command'[h] = command[h]
  BY DEF Ending
<1>4. Recording(h)'
  BY <1>2, <1>3 DEF MonitorInv, Recording
<1>5. Filled(h)'
  <2> SUFFICES ASSUME InMongo(h)'
               PROVE  Filled(h)'
    BY DEF Filled
  <2>1. InMongo(h) /\ command'[h] = command[h] /\ stage'[h] = stage[h] /\ command[h] \in Commands
    BY DEF MonitorInv, Inv, TypeOK, InMongo
  <2>2. Filled(h)
    BY DEF MonitorInv
  <2> QED
    BY <2>1, <2>2 DEF Filled, Traced, Loyal
<1> QED
  BY <1>1, <1>4, <1>5

\* ... nor does a step that gives it no MongoDB command and ends none that succeeded.
LEMMA MonitorAlone ==
    ASSUME MonitorInv, Inv', MonitorType', Mine', UNCHANGED <<monitor, context>>,
           RunningMongo' \subseteq RunningMongo,
           \A h \in Goroutines :
              /\ InMongo(h)' => InMongo(h) /\ command'[h] = command[h] /\ stage'[h] = stage[h]
              /\ Ending(h) => InMongo(h)'
    PROVE  MonitorInv'
<1>1. UNCHANGED <<mongoInfo, info, overlapped, mongos, reply, succeeded>>
  BY DEF monitor
<1>2. Held'
  BY <1>1 DEF MonitorInv, Held
<1>3. Loyal
  BY <1>1 DEF Loyal
<1>4. \A h \in Goroutines : Filled(h)' /\ Recording(h)' /\ Right(h)'
  BY <1>1, <1>3, Undisturbed
<1> QED
  BY <1>2, <1>4 DEF MonitorInv

\* A command is given; what was known of the others still is.
LEMMA MonitorGiven ==
    ASSUME MonitorInv, Inv', NEW g \in Goroutines, NEW c \in Commands, NEW k \in Kinds,
           Given(g, c, k), context' = context,
           \/ UNCHANGED running
           \/ /\ command' = [command EXCEPT ![g] = c]
              /\ \E s \in {"begin", "sent"} : stage' = [stage EXCEPT ![g] = s],
           UNCHANGED <<info, reply, mongos, succeeded>>
    PROVE  /\ MonitorType' /\ Mine' /\ ~InMongo(g)
           /\ \A d \in RunningMongo' : d \in RunningMongo \/ (d = c /\ k = "mongo" /\ Traced(g))
           /\ \A h \in Goroutines : h # g \/ k # "mongo" =>
                /\ InMongo(h)' => InMongo(h) /\ command'[h] = command[h] /\ stage'[h] = stage[h]
                /\ Ending(h) => InMongo(h)'
<1>1. /\ kind[c] = None /\ command[g] = None
      /\ kind' = [kind EXCEPT ![c] = k] /\ owner' = [owner EXCEPT ![c] = g]
  BY DEF Given
<1>2. /\ command \in [Goroutines -> Commands \cup {None}] /\ kind \in [Commands -> Kinds \cup {None}]
      /\ DOMAIN stage = Goroutines /\ MonitorType /\ Mine
  BY DEF MonitorInv, Inv, TypeOK
<1>3. MonitorType'
  BY <1>1, <1>2 DEF MonitorType
<1>4. /\ kind'[c] = k /\ owner'[c] = g
      /\ \A d \in Commands \ {c} : kind'[d] = kind[d] /\ owner'[d] = owner[d]
  BY <1>1, <1>2 DEF MonitorType
<1>5. /\ command'[g] \in {None, c} /\ DOMAIN command' = Goroutines
      /\ \A h \in Goroutines \ {g} : command'[h] = command[h] /\ stage'[h] = stage[h]
  BY <1>1, <1>2 DEF running
<1>6. ASSUME NEW h \in Goroutines, h # g, command[h] # None PROVE command[h] \in Commands \ {c}
  BY <1>1, <1>2, <1>6 DEF Mine
<1>7. k # None
  BY CommandHooksAssumption
<1>8. Mine'
  <2> SUFFICES ASSUME NEW h \in Goroutines, command'[h] # None
               PROVE  owner'[command'[h]] = h /\ kind'[command'[h]] # None
    BY DEF Mine
  <2>1. CASE h = g
    BY <1>4, <1>5, <1>7, <2>1
  <2>2. CASE h # g
    BY <1>2, <1>4, <1>5, <1>6, <2>2 DEF Mine
  <2> QED
    BY <2>1, <2>2
<1>9. ASSUME NEW d \in RunningMongo'
      PROVE  d \in RunningMongo \/ (d = c /\ k = "mongo" /\ Traced(g))
  <2>1. PICK h \in Goroutines :
            command'[h] = d /\ d # None /\ kind'[d] = "mongo" /\ context[owner'[d]] = "traced"
    BY <1>5 DEF RunningMongo, Range, Traced
  <2>2. CASE d = c
    BY <1>4, <2>1, <2>2 DEF Traced
  <2>3. CASE d # c
    <3>1. h # g /\ command[h] = d /\ d \in Commands \ {c}
      BY <1>5, <1>6, <2>1, <2>3
    <3>2. kind[d] = "mongo" /\ Traced(owner[d])
      BY <1>4, <2>1, <3>1 DEF Traced
    <3> QED
      BY <1>2, <2>1, <3>1, <3>2, Running
  <2> QED
    BY <2>2, <2>3
<1>10. ASSUME NEW h \in Goroutines, h # g
       PROVE  /\ InMongo(h)' <=> InMongo(h)
              /\ command'[h] = command[h] /\ stage'[h] = stage[h]
  BY <1>4, <1>5, <1>6, <1>10 DEF InMongo
<1>11. k # "mongo" => ~InMongo(g)'
  BY <1>4, <1>5 DEF InMongo
<1>12. ~InMongo(g)
  BY <1>1 DEF InMongo
<1> QED
  BY <1>3, <1>8, <1>9, <1>10, <1>11, <1>12 DEF Ending

LEMMA StartedInv ==
    ASSUME MonitorInv, Inv', NEW g \in Goroutines, NEW c \in Commands, Started(g, c)
    PROVE  MonitorInv'
<1>1. /\ Given(g, c, "mongo") /\ command' = [command EXCEPT ![g] = c]
      /\ stage' = [stage EXCEPT ![g] = MonitorStage(g)] /\ MonitorStage(g) \in {"begin", "sent"}
      /\ mongoInfo' = IF Traced(g) THEN c ELSE mongoInfo
      /\ overlapped' = IF Traced(g) /\ RunningMongo # {} THEN overlapped \cup RunningMongo \cup {c}
                       ELSE overlapped
      /\ UNCHANGED <<context, info, reply, mongos, succeeded>>
  BY DEF Started, Issue, Overlap, MonitorStage
<1>2. /\ MonitorType' /\ Mine' /\ ~InMongo(g)
      /\ \A d \in RunningMongo' : d \in RunningMongo \/ (d = c /\ Traced(g))
      /\ \A h \in Goroutines \ {g} :
            /\ InMongo(h)' => InMongo(h) /\ command'[h] = command[h] /\ stage'[h] = stage[h]
            /\ Ending(h) => InMongo(h)'
  BY <1>1, MonitorGiven DEF Kinds
<1>3. Held'
  <2> SUFFICES ASSUME NEW d \in RunningMongo'
               PROVE  /\ mongoInfo' \in Commands
                      /\ mongoInfo' = d \/ {d, mongoInfo'} \subseteq overlapped'
    BY DEF Held
  <2>1. CASE Traced(g)
    BY <1>1, <1>2, <2>1
  <2>2. CASE ~Traced(g)
    <3>1. d \in RunningMongo /\ mongoInfo' = mongoInfo /\ overlapped' = overlapped
      BY <1>1, <1>2, <2>2
    <3> QED
      BY <3>1 DEF MonitorInv, Held
  <2> QED
    BY <2>1, <2>2
<1>4. Loyal
  BY <1>1 DEF Loyal
<1>5. stage'[g] = MonitorStage(g)
  BY <1>1 DEF MonitorInv, Inv, TypeOK
<1>6. Filled(g)' /\ Recording(g)' /\ Right(g)'
  <2>1. Right(g)'
    BY <1>1, <1>4, RightKept
  <2>2. Filled(g)'
    BY <1>1, <1>5 DEF Filled, Traced, MonitorStage
  <2>3. ~Ending(g) /\ ~Ending(g)'
    BY <1>1, <1>2, <1>5 DEF Ending
  <2>4. Recording(g)'
    BY <1>1, <2>3 DEF MonitorInv, Recording
  <2> QED
    BY <2>1, <2>2, <2>4
<1>7. \A h \in Goroutines \ {g} : Filled(h)' /\ Recording(h)' /\ Right(h)'
  BY <1>1, <1>2, <1>4, Undisturbed
<1> QED
  BY <1>2, <1>3, <1>6, <1>7 DEF MonitorInv

\* A command goes on.
LEMMA MonitorGoes ==
    ASSUME MonitorInv, NEW g \in Goroutines, NEW s \in {"sent", "end"},
           stage' = [stage EXCEPT ![g] = s], UNCHANGED <<context, command, given>>
    PROVE  /\ Mine' /\ RunningMongo' = RunningMongo /\ stage'[g] = s
           /\ \A h \in Goroutines : InMongo(h)' <=> InMongo(h)
           /\ \A h \in Goroutines \ {g} : stage'[h] = stage[h]
BY DEF MonitorInv, Inv, TypeOK, Mine, RunningMongo, Traced, InMongo, given

LEMMA StartedFillsInv ==
    ASSUME MonitorInv, Inv', NEW g \in Goroutines, StartedFills(g) PROVE MonitorInv'
<1>1. /\ InMongo(g) /\ stage[g] = "begin" /\ stage' = [stage EXCEPT ![g] = "sent"]
      /\ info' = [info EXCEPT ![mongoInfo] = command[g]]
      /\ UNCHANGED <<context, command, given, mongoInfo, reply, mongos, succeeded, overlapped>>
  BY DEF StartedFills, Goes, Runs, InMongo
<1>2. Traced(g) /\ ~Ending(g)
  BY <1>1 DEF MonitorInv, Filled, Ending
<1>3. /\ command[g] \in Commands /\ mongoInfo \in Commands
      /\ mongoInfo = command[g] \/ {command[g], mongoInfo} \subseteq overlapped
  BY <1>1, <1>2, Finds
<1>4. /\ Mine' /\ RunningMongo' = RunningMongo /\ stage'[g] = "sent"
      /\ \A h \in Goroutines : InMongo(h)' <=> InMongo(h)
      /\ \A h \in Goroutines \ {g} : stage'[h] = stage[h]
  BY <1>1, MonitorGoes
<1>5. /\ info'[mongoInfo] = command[g]
      /\ \A c \in Commands \ {mongoInfo} : info'[c] = info[c]
  BY <1>1, <1>3 DEF MonitorInv, MonitorType
<1>6. Loyal
  BY <1>1, <1>3, <1>5 DEF Loyal
<1>7. MonitorType'
  BY <1>1, <1>3 DEF MonitorInv, MonitorType, given
<1>8. Held'
  BY <1>1, <1>4 DEF MonitorInv, Held
<1>9. Filled(g)' /\ Recording(g)' /\ Right(g)'
  <2>1. Right(g)'
    BY <1>1, <1>6, RightKept
  <2>2. Filled(g)'
    BY <1>1, <1>2, <1>3, <1>4, <1>5 DEF Filled, Traced
  <2>3. ~Ending(g)'
    BY <1>4 DEF Ending
  <2>4. Recording(g)'
    BY <1>1, <1>2, <2>3 DEF MonitorInv, Recording
  <2> QED
    BY <2>1, <2>2, <2>4
<1>10. \A h \in Goroutines \ {g} : Filled(h)' /\ Recording(h)' /\ Right(h)'
  BY <1>1, <1>4, <1>6, Undisturbed DEF Ending
<1> QED
  BY <1>4, <1>7, <1>8, <1>9, <1>10 DEF MonitorInv

LEMMA SucceededInv ==
    ASSUME MonitorInv, Inv', NEW g \in Goroutines, Succeeded(g) PROVE MonitorInv'
<1>1. /\ InMongo(g) /\ Traced(g) /\ stage[g] = "sent" /\ stage' = [stage EXCEPT ![g] = "end"]
      /\ reply' = [reply EXCEPT ![mongoInfo] = command[g]]
      /\ succeeded' = [succeeded EXCEPT ![g] = Append(@, command[g])]
      /\ UNCHANGED <<context, command, given, mongoInfo, info, mongos, overlapped>>
  BY DEF Succeeded, Goes, Runs, InMongo
<1>2. /\ command[g] \in Commands /\ mongoInfo \in Commands
      /\ mongoInfo = command[g] \/ {command[g], mongoInfo} \subseteq overlapped
  BY <1>1, Finds
<1>3. /\ Mine' /\ RunningMongo' = RunningMongo /\ stage'[g] = "end"
      /\ \A h \in Goroutines : InMongo(h)' <=> InMongo(h)
      /\ \A h \in Goroutines \ {g} : stage'[h] = stage[h]
  BY <1>1, MonitorGoes
<1>4. /\ reply'[mongoInfo] = command[g]
      /\ \A c \in Commands \ {mongoInfo} : reply'[c] = reply[c]
  BY <1>1, <1>2 DEF MonitorInv, MonitorType
<1>5. Loyal
  BY <1>1, <1>2, <1>4 DEF Loyal
<1>6. /\ mongos[g] \in Seq(Commands) /\ succeeded[g] \in Seq(Commands)
      /\ succeeded'[g] = Append(succeeded[g], command[g])
      /\ \A h \in Goroutines \ {g} : succeeded'[h] = succeeded[h]
  BY <1>1 DEF MonitorInv, MonitorType
<1>7. MonitorType'
  <2>1. Append(succeeded[g], command[g]) \in Seq(Commands)
    BY <1>2, <1>6
  <2> QED
    BY <1>1, <1>2, <2>1 DEF MonitorInv, MonitorType, given
<1>8. Held'
  BY <1>1, <1>3 DEF MonitorInv, Held
<1>9. Filled(g)' /\ Recording(g)' /\ Right(g)'
  <2>1. Right(g)'
    BY <1>1, <1>2, <1>5, <1>6, RightKept
  <2>2. command[g] \notin overlapped => info[command[g]] = command[g]
    BY <1>1 DEF MonitorInv, Filled
  <2>3. Filled(g)'
    BY <1>1, <1>2, <1>3, <1>4, <2>2 DEF Filled, Traced
  <2>4. ~Ending(g) /\ Ending(g)'
    BY <1>1, <1>3 DEF Ending
  <2>5. Len(succeeded[g]) = Len(mongos[g])
    BY <2>4 DEF MonitorInv, Recording
  <2>6. Recording(g)'
    BY <1>1, <1>2, <1>6, <2>4, <2>5 DEF Recording
  <2> QED
    BY <2>1, <2>3, <2>6
<1>10. \A h \in Goroutines \ {g} : Filled(h)' /\ Recording(h)' /\ Right(h)'
  BY <1>1, <1>3, <1>5, <1>6, Undisturbed DEF Ending
<1> QED
  BY <1>3, <1>7, <1>8, <1>9, <1>10 DEF MonitorInv

\* A command is over: nothing more is run.
LEMMA MonitorDone ==
    ASSUME MonitorInv, NEW g \in Goroutines, command' = [command EXCEPT ![g] = None],
           stage' = [stage EXCEPT ![g] = "end"], UNCHANGED <<given, context>>
    PROVE  /\ Mine' /\ RunningMongo' \subseteq RunningMongo
           /\ ~InMongo(g)'
           /\ \A h \in Goroutines \ {g} :
                 command'[h] = command[h] /\ stage'[h] = stage[h] /\ (InMongo(h)' <=> InMongo(h))
<1>1. /\ DOMAIN command = Goroutines /\ DOMAIN command' = Goroutines /\ command'[g] = None
      /\ \A h \in Goroutines \ {g} : command'[h] = command[h] /\ stage'[h] = stage[h]
  BY DEF MonitorInv, Inv, TypeOK
<1>2. Mine'
  BY <1>1 DEF MonitorInv, Mine, given
<1>3. RunningMongo' \subseteq RunningMongo
  BY <1>1 DEF RunningMongo, Range, Traced, given
<1> QED
  BY <1>1, <1>2, <1>3 DEF InMongo, given

LEMMA SucceededAppendsInv ==
    ASSUME MonitorInv, Inv', NEW g \in Goroutines, SucceededAppends(g) PROVE MonitorInv'
<1> DEFINE c == command[g]
<1>1. /\ Ending(g) /\ command' = [command EXCEPT ![g] = None]
      /\ stage' = [stage EXCEPT ![g] = "end"]
      /\ mongos' = [mongos EXCEPT ![g] = Append(@, mongoInfo)]
      /\ UNCHANGED <<given, context, mongoInfo, info, reply, succeeded, overlapped>>
  BY DEF SucceededAppends, Done, Runs, Ending, InMongo, AppendRecord
<1>2. Traced(g) /\ InMongo(g)
  BY <1>1 DEF MonitorInv, Filled, Ending
<1>3. c \in Commands /\ mongoInfo \in Commands /\ (mongoInfo = c \/ {c, mongoInfo} \subseteq overlapped)
  BY <1>2, Finds
<1>4. /\ Mine' /\ RunningMongo' \subseteq RunningMongo /\ ~InMongo(g)'
      /\ \A h \in Goroutines \ {g} :
            command'[h] = command[h] /\ stage'[h] = stage[h] /\ (InMongo(h)' <=> InMongo(h))
  BY <1>1, MonitorDone
<1>5. Loyal
  BY <1>1 DEF Loyal
<1>6. /\ mongos[g] \in Seq(Commands) /\ succeeded[g] \in Seq(Commands)
      /\ mongos'[g] = Append(mongos[g], mongoInfo)
      /\ \A h \in Goroutines \ {g} : mongos'[h] = mongos[h]
  BY <1>1 DEF MonitorInv, MonitorType
<1>7. MonitorType'
  <2>1. Append(mongos[g], mongoInfo) \in Seq(Commands)
    BY <1>3, <1>6
  <2> QED
    BY <1>1, <2>1 DEF MonitorInv, MonitorType, given
<1>8. Held'
  BY <1>1, <1>4 DEF MonitorInv, Held
<1>9. c \notin overlapped => info[c] = c /\ reply[c] = c
  BY <1>1, <1>2 DEF MonitorInv, Filled, Ending
<1>10. Len(succeeded[g]) = Len(mongos[g]) + 1 /\ succeeded[g][Len(mongos[g]) + 1] = c
  BY <1>1 DEF MonitorInv, Recording
<1> HIDE DEF c
<1>11. Filled(g)' /\ Recording(g)' /\ Right(g)'
  <2>1. Filled(g)' /\ ~Ending(g)'
    BY <1>4 DEF Filled, Ending
  <2>2. Len(mongos'[g]) = Len(mongos[g]) + 1
    BY <1>3, <1>6
  <2>3. Recording(g)'
    BY <1>1, <1>10, <2>1, <2>2 DEF Recording
  <2>4. ASSUME NEW n \in DOMAIN mongos'[g] PROVE RightRecord(mongos'[g][n], succeeded[g][n])
    <3>1. CASE n \in DOMAIN mongos[g]
      <4>1. mongos'[g][n] = mongos[g][n]
        BY <1>3, <1>6, <3>1
      <4> QED
        BY <3>1, <4>1 DEF MonitorInv, Right
    <3>2. CASE n \notin DOMAIN mongos[g]
      <4>1. mongos'[g][n] = mongoInfo /\ n = Len(mongos[g]) + 1
        BY <1>3, <1>6, <2>4, <3>2
      <4> QED
        BY <1>3, <1>9, <1>10, <4>1 DEF RightRecord
    <3> QED
      BY <3>1, <3>2
  <2>5. Right(g)'
    BY <1>1, <2>4 DEF Right, RightRecord
  <2> QED
    BY <2>1, <2>3, <2>5
<1>12. \A h \in Goroutines \ {g} : Filled(h)' /\ Recording(h)' /\ Right(h)'
  BY <1>1, <1>4, <1>5, <1>6, Undisturbed DEF Ending
<1> QED
  BY <1>4, <1>7, <1>8, <1>11, <1>12 DEF MonitorInv

LEMMA MonitorNext == MonitorInv /\ [Next]_vars => MonitorInv'
<1> SUFFICES ASSUME MonitorInv, [Next]_vars PROVE MonitorInv'
  OBVIOUS
<1>1. Inv' /\ MonitorType /\ Mine
  BY NextInv DEF MonitorInv
<1>2. ASSUME NEW g \in Goroutines, NEW c \in Commands, Started(g, c) PROVE MonitorInv'
  BY <1>1, <1>2, StartedInv
<1>3. ASSUME NEW g \in Goroutines, NEW c \in Commands,
             BeforeProcess(g, c) \/ BeforeProcessPipeline(g, c) \/ Send(g, c) \/ Logger(g, c)
      PROVE  MonitorInv'
  <2>1. /\ \E k \in Kinds \ {"mongo"} : Given(g, c, k)
        /\ \/ UNCHANGED running
           \/ /\ command' = [command EXCEPT ![g] = c]
              /\ \E s \in {"begin", "sent"} : stage' = [stage EXCEPT ![g] = s]
        /\ UNCHANGED <<context, monitor>>
    BY <1>3 DEF BeforeProcess, BeforeProcessPipeline, Send, Logger, Issue, Kinds
  <2>2. /\ MonitorType' /\ Mine' /\ RunningMongo' \subseteq RunningMongo
        /\ \A h \in Goroutines :
              /\ InMongo(h)' => InMongo(h) /\ command'[h] = command[h] /\ stage'[h] = stage[h]
              /\ Ending(h) => InMongo(h)'
    BY <1>1, <2>1, MonitorGiven DEF monitor
  <2> QED
    BY <1>1, <2>1, <2>2, MonitorAlone
<1>4. ASSUME NEW g \in Goroutines, StartedFills(g) \/ Succeeded(g) \/ SucceededAppends(g)
      PROVE  MonitorInv'
  BY <1>1, <1>4, StartedFillsInv, SucceededInv, SucceededAppendsInv
<1>5. ASSUME NEW g \in Goroutines, BeforeProcessStores(g) \/ AfterProcess(g) PROVE MonitorInv'
  <2>1. /\ ~InMongo(g) /\ \E s \in {"sent", "end"} : stage' = [stage EXCEPT ![g] = s]
        /\ UNCHANGED <<command, given, context, monitor>>
    BY <1>5 DEF BeforeProcessStores, AfterProcess, Goes, Runs, InMongo
  <2>2. /\ Mine' /\ RunningMongo' = RunningMongo
        /\ \A h \in Goroutines : InMongo(h)' <=> InMongo(h)
        /\ \A h \in Goroutines \ {g} : stage'[h] = stage[h]
    BY <2>1, MonitorGoes
  <2>3. MonitorType'
    BY <1>1, <2>1 DEF MonitorType, given, monitor
  <2> QED
    BY <1>1, <2>1, <2>2, <2>3, MonitorAlone DEF Ending
<1>6. ASSUME NEW g \in Goroutines,
             \/ AfterProcessAppends(g) \/ AfterProcessUntraced(g) \/ AfterProcessPipeline(g)
             \/ Failed(g) \/ OnResponse(g) \/ NoResponse(g)
      PROVE  MonitorInv'
  <2>1. /\ command' = [command EXCEPT ![g] = None] /\ stage' = [stage EXCEPT ![g] = "end"]
        /\ ~Ending(g) /\ UNCHANGED <<given, context, monitor>>
    BY <1>6 DEF AfterProcessAppends, AfterProcessUntraced, AfterProcessPipeline, Failed,
                OnResponse, NoResponse, Done, Runs, Ending, InMongo
  <2>2. MonitorType'
    BY <1>1, <2>1 DEF MonitorType, given, monitor
  <2>3. /\ Mine' /\ RunningMongo' \subseteq RunningMongo /\ ~InMongo(g)'
        /\ \A h \in Goroutines \ {g} :
              command'[h] = command[h] /\ stage'[h] = stage[h] /\ (InMongo(h)' <=> InMongo(h))
    BY <2>1, MonitorDone
  <2> QED
    BY <1>1, <2>1, <2>2, <2>3, MonitorAlone DEF Ending
<1>7. CASE Tick \/ (\E g \in Goroutines : End(g)) \/ UNCHANGED vars
  <2>1. UNCHANGED <<command, stage, given, context, monitor>>
    BY <1>7 DEF Tick, End, vars, running
  <2>2. /\ MonitorType' /\ Mine' /\ RunningMongo' = RunningMongo
        /\ \A h \in Goroutines : InMongo(h)' <=> InMongo(h)
    BY <1>1, <2>1 DEF MonitorType, Mine, RunningMongo, Traced, InMongo, given, monitor
  <2> QED
    BY <1>1, <2>1, <2>2, MonitorAlone DEF Ending
<1> QED
  BY <1>2, <1>3, <1>4, <1>5, <1>6, <1>7 DEF Next

\* The trace of a request has one record per MongoDB command that succeeded, and the
\* one shared record of the monitor is the right one for commands that ran alone.
THEOREM RecordsRight == Spec => []MongoRecorded
<1>1. MonitorInv => MongoRecorded
  BY DEF MonitorInv, MongoRecorded, Recording, Right, RightRecord, Ending, InMongo
<1> QED
  BY <1>1, MonitorInit, MonitorNext, PTL DEF Spec

-------------------------------------------------------------------------------
(* Whole traces *)

\* The commands of kind k that a request has given, and those of them that are over.
Own(k, g) == {c \in Commands : kind[c] = k /\ owner[c] = g}
Finished(k, g) == Own(k, g) \ {command[g]}

\* The commands that records are of.
Cmds(records) == [n \in DOMAIN records |-> records[n].cmd]

Once(s) == s \in Seq(Commands) /\ IsInjective(s)

\* The trace of a request has one record for each command of it that is over.
Whole(g) ==
    IF Traced(g)
    THEN /\ Once(Cmds(redis[g])) /\ Range(Cmds(redis[g])) = Finished("redis", g)
         /\ Once(debugs[g]) /\ Range(debugs[g]) = Own("debug", g)
         /\ Once(thirdParty[g]) /\ Range(thirdParty[g]) \subseteq Finished("http", g)
    ELSE redis[g] = <<>> /\ debugs[g] = <<>> /\ thirdParty[g] = <<>>

TraceType == debugs \in [Goroutines -> Seq(Commands)] /\ thirdParty \in [Goroutines -> Seq(Commands)]

TraceInv == MonitorInv /\ TraceType /\ \A g \in Goroutines : Whole(g)

LEMMA AppendOnce ==
    ASSUME NEW s \in Seq(Commands), IsInjective(s), NEW c \in Commands, c \notin Range(s)
    PROVE  Once(Append(s, c)) /\ Range(Append(s, c)) = Range(s) \cup {c}
<1> DEFINE t == Append(s, c)
<1>1. /\ t \in Seq(Commands) /\ Len(s) \in Nat /\ DOMAIN s = 1..Len(s)
      /\ DOMAIN t = 1..(Len(s) + 1)
      /\ \A i \in 1..Len(s) : t[i] = s[i] /\ t[i] # c
      /\ t[Len(s) + 1] = c
  BY DEF Range
<1>2. \A i \in DOMAIN t : i = Len(s) + 1 \/ i \in DOMAIN s
  BY <1>1
<1> HIDE DEF t
<1>3. IsInjective(t)
  <2> SUFFICES ASSUME NEW i \in DOMAIN t, NEW j \in DOMAIN t, t[i] = t[j] PROVE i = j
    BY DEF IsInjective
  <2>1. CASE i \in DOMAIN s /\ j \in DOMAIN s
    BY <1>1, <2>1 DEF IsInjective
  <2>2. CASE i \notin DOMAIN s \/ j \notin DOMAIN s
    BY <1>1, <1>2, <2>2
  <2> QED
    BY <2>1, <2>2
<1>4. Range(t) = Range(s) \cup {c}
  <2>1. ASSUME NEW i \in DOMAIN t PROVE t[i] \in Range(s) \cup {c}
    BY <1>1, <1>2 DEF Range
  <2>2. ASSUME NEW i \in DOMAIN s PROVE s[i] \in Range(t)
    <3>1. i \in DOMAIN t /\ t[i] = s[i]
      BY <1>1
    <3> QED
      BY <3>1 DEF Range
  <2>3. c \in Range(t)
    <3>1. Len(s) + 1 \in DOMAIN t
      BY <1>1
    <3> QED
      BY <1>1, <3>1 DEF Range
  <2> QED
    BY <2>1, <2>2, <2>3 DEF Range
<1> QED
  BY <1>1, <1>3, <1>4 DEF Once, t

LEMMA CmdsAppended ==
    ASSUME NEW records \in Seq(RecordType), NEW e \in RecordType
    PROVE  /\ Cmds(records) \in Seq(Commands)
           /\ Cmds(Append(records, e)) = Append(Cmds(records), e.cmd)
<1>1. \A r \in RecordType : r.cmd \in Commands
  BY DEF RecordType
<1>2. Cmds(records) \in Seq(Commands) /\ Len(Cmds(records)) = Len(records)
  <2>1. Cmds(records) = [n \in 1..Len(records) |-> records[n].cmd]
    BY DEF Cmds
  <2>2. \A n \in 1..Len(records) : records[n].cmd \in Commands
    BY <1>1
  <2> QED
    BY <2>1, <2>2
<1>3. DOMAIN Append(records, e) = 1..(Len(records) + 1)
  OBVIOUS
<1>4. Cmds(Append(records, e)) = [n \in 1..(Len(records) + 1) |-> Append(records, e)[n].cmd]
  BY <1>3 DEF Cmds
<1>5. Append(Cmds(records), e.cmd) \in [1..(Len(records) + 1) -> Commands]
  <2>1. PICK s \in Seq(Commands), c \in Commands :
            s = Cmds(records) /\ c = e.cmd /\ Len(s) = Len(records)
    BY <1>1, <1>2
  <2>2. PICK t \in Seq(Commands) : t = Append(s, c) /\ Len(t) = Len(s) + 1
    BY AppendProperties
  <2>3. t \in [1..Len(t) -> Commands]
    OBVIOUS
  <2> QED
    BY <2>1, <2>2, <2>3
<1>6. ASSUME NEW n \in 1..(Len(records) + 1)
      PROVE  Append(records, e)[n].cmd = Append(Cmds(records), e.cmd)[n]
  <2>1. CASE n \in 1..Len(records)
    <3>1. Append(records, e)[n] = records[n]
      BY <2>1
    <3>2. Append(Cmds(records), e.cmd)[n] = Cmds(records)[n]
      BY <1>1, <1>2, <2>1
    <3>3. Cmds(records)[n] = records[n].cmd
      BY <2>1 DEF Cmds
    <3> QED
      BY <3>1, <3>2, <3>3
  <2>2. CASE n = Len(records) + 1
    BY <1>1, <1>2, <2>2
  <2>3. n \in 1..Len(records) \/ n = Len(records) + 1
    <3>1. Len(records) \in Nat
      OBVIOUS
    <3> QED
      BY <3>1
  <2> QED
    BY <2>1, <2>2, <2>3
<1>7. Append(Cmds(records), e.cmd) = [n \in 1..(Len(records) + 1) |-> Append(Cmds(records), e.cmd)[n]]
  BY <1>5
<1> QED
  BY <1>2, <1>4, <1>6, <1>7

LEMMA TraceInit == Init => TraceInv
<1> SUFFICES ASSUME Init PROVE TraceInv
  OBVIOUS
<1>1. /\ redis = [g \in Goroutines |-> <<>>] /\ debugs = redis /\ thirdParty = redis
      /\ kind = [c \in Commands |-> None]
  BY DEF Init
<1>2. Cmds(<<>>) = <<>> /\ Range(<<>>) = {} /\ Once(<<>>)
  BY DEF Cmds, Range, Once, IsInjective
<1>3. \A g \in Goroutines : Own("redis", g) = {} /\ Own("debug", g) = {}
  BY <1>1, CommandHooksAssumption DEF Own, Kinds
<1>4. \A g \in Goroutines : Whole(g)
  BY <1>1, <1>2, <1>3 DEF Whole, Finished
<1> QED
  BY <1>1, <1>4, MonitorInit DEF TraceInv, TraceType

\* The records are left alone by steps that end no Redis command and add nothing ...
LEMMA RecordsAlone ==
    ASSUME TraceInv, MonitorInv', UNCHANGED <<context, redis, own>>,
           \A h \in Goroutines :
              /\ Own("debug", h)' = Own("debug", h)
              /\ Finished("redis", h)' = Finished("redis", h)
              /\ Finished("http", h) \subseteq Finished("http", h)'
    PROVE  TraceInv'
<1>1. \A h \in Goroutines : Whole(h)'
  BY DEF TraceInv, Whole, Traced, own
<1> QED
  BY <1>1 DEF TraceInv, TraceType, own

\* A command that is given is nobody else's, and was not given before.
LEMMA OwnGiven ==
    ASSUME TraceInv, NEW g \in Goroutines, NEW c \in Commands, NEW k \in Kinds, Given(g, c, k)
    PROVE  /\ \A q \in Kinds, h \in Goroutines :
                Own(q, h)' = IF q = k /\ h = g THEN Own(q, h) \cup {c} ELSE Own(q, h)
           /\ \A q \in Kinds, h \in Goroutines : c \notin Own(q, h)
<1>1. /\ kind[c] = None /\ kind' = [kind EXCEPT ![c] = k] /\ owner' = [owner EXCEPT ![c] = g]
      /\ None \notin Kinds
  BY CommandHooksAssumption DEF Given
<1>2. DOMAIN kind = Commands /\ DOMAIN owner = Commands
  BY DEF TraceInv, MonitorInv, MonitorType, Inv, TypeOK
<1>3. /\ kind'[c] = k /\ owner'[c] = g
      /\ \A d \in Commands \ {c} : kind'[d] = kind[d] /\ owner'[d] = owner[d]
  BY <1>1, <1>2
<1> QED
  BY <1>1, <1>3 DEF Own

LEMMA IssuedWhole ==
    ASSUME TraceInv, MonitorInv', NEW g \in Goroutines, NEW c \in Commands,
           NEW k \in Kinds \ {"debug"}, NEW s, Issue(g, c, k, s), UNCHANGED <<context, redis, own>>
    PROVE  TraceInv'
<1>1. Given(g, c, k) /\ command[g] = None /\ command' = [command EXCEPT ![g] = c]
  BY DEF Issue, Given
<1>2. command'[g] = c /\ \A h \in Goroutines \ {g} : command'[h] = command[h]
  BY <1>1 DEF TraceInv, MonitorInv, Inv, TypeOK
<1>3. /\ \A q \in Kinds, h \in Goroutines :
            Own(q, h)' = IF q = k /\ h = g THEN Own(q, h) \cup {c} ELSE Own(q, h)
      /\ \A q \in Kinds, h \in Goroutines : c \notin Own(q, h)
  BY <1>1, OwnGiven
<1>4. \A q \in Kinds, h \in Goroutines : None \notin Own(q, h)
  BY CommandHooksAssumption DEF Own
<1>5. ASSUME NEW q \in Kinds, NEW h \in Goroutines PROVE Finished(q, h)' = Finished(q, h)
  <2>1. CASE h = g
    BY <1>1, <1>2, <1>3, <1>4, <2>1 DEF Finished
  <2>2. CASE h # g
    BY <1>2, <1>3, <2>2 DEF Finished
  <2> QED
    BY <2>1, <2>2
<1>6. {"redis", "http", "debug"} \subseteq Kinds
  BY DEF Kinds
<1>7. \A h \in Goroutines : Own("debug", h)' = Own("debug", h)
  BY <1>3, <1>6
<1> QED
  BY <1>5, <1>6, <1>7, RecordsAlone

LEMMA LoggerWhole ==
    ASSUME TraceInv, MonitorInv', NEW g \in Goroutines, NEW c \in Commands, Logger(g, c)
    PROVE  TraceInv'
<1>1. /\ Given(g, c, "debug") /\ "debug" \in Kinds
      /\ debugs' = IF Traced(g) THEN [debugs EXCEPT ![g] = Append(@, c)] ELSE debugs
      /\ UNCHANGED <<context, command, redis, thirdParty>>
  BY DEF Logger, AppendRecord, hook, running, Kinds
<1>2. /\ \A q \in Kinds, h \in Goroutines :
            Own(q, h)' = IF q = "debug" /\ h = g THEN Own(q, h) \cup {c} ELSE Own(q, h)
      /\ \A q \in Kinds, h \in Goroutines : c \notin Own(q, h)
  BY <1>1, OwnGiven
<1>3. \A h \in Goroutines : Finished("redis", h)' = Finished("redis", h)
                            /\ Finished("http", h)' = Finished("http", h)
  BY <1>1, <1>2 DEF Finished, Kinds
<1>4. debugs \in [Goroutines -> Seq(Commands)]
  BY DEF TraceInv, TraceType
<1>5. \A h \in Goroutines \ {g} : debugs'[h] = debugs[h] /\ Own("debug", h)' = Own("debug", h)
  BY <1>1, <1>2, <1>4
<1>6. ASSUME Traced(g)
      PROVE  /\ debugs'[g] = Append(debugs[g], c) /\ Once(debugs'[g])
             /\ Range(debugs'[g]) = Own("debug", g)'
  <2>1. Once(debugs[g]) /\ Range(debugs[g]) = Own("debug", g) /\ c \notin Own("debug", g)
    BY <1>1, <1>2, <1>6 DEF TraceInv, Whole
  <2>2. debugs'[g] = Append(debugs[g], c) /\ Own("debug", g)' = Own("debug", g) \cup {c}
    BY <1>1, <1>2, <1>4, <1>6
  <2> QED
    BY <2>1, <2>2, AppendOnce DEF Once
<1>7. ASSUME NEW h \in Goroutines PROVE Whole(h)'
  <2>1. CASE h = g /\ Traced(g)
    BY <1>1, <1>3, <1>6, <2>1 DEF TraceInv, Whole, Traced
  <2>2. CASE h = g /\ ~Traced(g)
    BY <1>1, <2>2 DEF TraceInv, Whole, Traced
  <2>3. CASE h # g
    BY <1>1, <1>3, <1>5, <2>3 DEF TraceInv, Whole, Traced
  <2> QED
    BY <2>1, <2>2, <2>3
<1>8. TraceType'
  BY <1>1, <1>4 DEF TraceInv, TraceType
<1> QED
  BY <1>7, <1>8 DEF TraceInv

\* A command is over: it is one more of its kind.
LEMMA OwnDone ==
    ASSUME TraceInv, NEW g \in Goroutines, NEW k \in Kinds, NEW s, Done(g, k, s),
           UNCHANGED given
    PROVE  /\ command[g] \in Commands
           /\ \A q \in Kinds, h \in Goroutines :
                /\ Own(q, h)' = Own(q, h)
                /\ Finished(q, h)' = IF q = k /\ h = g THEN Finished(q, h) \cup {command[g]}
                                     ELSE Finished(q, h)
<1>1. /\ command[g] # None /\ kind[command[g]] = k /\ command' = [command EXCEPT ![g] = None]
      /\ kind' = kind /\ owner' = owner
  BY DEF Done, Runs, given
<1>2. /\ command \in [Goroutines -> Commands \cup {None}] /\ owner[command[g]] = g
  BY <1>1 DEF TraceInv, MonitorInv, Inv, TypeOK, Mine
<1>3. command'[g] = None /\ \A h \in Goroutines \ {g} : command'[h] = command[h]
  BY <1>1, <1>2
<1>4. \A q \in Kinds, h \in Goroutines : Own(q, h)' = Own(q, h)
  BY <1>1 DEF Own
<1>5. command[g] \in Commands /\ None \notin Commands
  BY <1>1, <1>2, CommandHooksAssumption
<1>6. ASSUME NEW q \in Kinds
      PROVE  Finished(q, g)' = IF q = k THEN Finished(q, g) \cup {command[g]} ELSE Finished(q, g)
  <2>1. Finished(q, g)' = Own(q, g)
    BY <1>3, <1>4, <1>5 DEF Finished, Own
  <2>2. command[g] \in Own(q, g) <=> q = k
    BY <1>1, <1>2, <1>5 DEF Own
  <2> QED
    BY <2>1, <2>2 DEF Finished
<1>7. \A q \in Kinds : \A h \in Goroutines \ {g} : Finished(q, h)' = Finished(q, h)
  BY <1>3, <1>4 DEF Finished
<1> QED
  BY <1>4, <1>5, <1>6, <1>7

LEMMA AppendsWhole ==
    ASSUME TraceInv, MonitorInv', NEW g \in Goroutines, Traced(g), AfterProcessAppends(g)
    PROVE  TraceInv'
<1> DEFINE e == Record(command[g])
<1>1. /\ Done(g, "redis", "end") /\ UNCHANGED given /\ {"redis", "debug", "http"} \subseteq Kinds
      /\ redis' = [redis EXCEPT ![g] = Append(@, e)]
      /\ UNCHANGED <<context, debugs, thirdParty>>
  BY DEF AfterProcessAppends, AppendRecord, own, Kinds
<1>2. /\ command[g] \in Commands
      /\ \A h \in Goroutines : Own("debug", h)' = Own("debug", h)
      /\ \A h \in Goroutines : Finished("http", h)' = Finished("http", h)
      /\ \A h \in Goroutines \ {g} : Finished("redis", h)' = Finished("redis", h)
      /\ Finished("redis", g)' = Finished("redis", g) \cup {command[g]}
  BY <1>1, OwnDone
<1>3. redis \in [Goroutines -> Seq(RecordType)]
  BY DEF TraceInv, MonitorInv, Inv, TypeOK
<1>4. e.cmd = command[g] /\ e \in RecordType
  <2>1. e = [cmd |-> command[g], cost |-> now - started[since[command[g]]], end |-> now]
    BY DEF Record
  <2>2. InRedis(g) /\ stage[g] = "end"
    BY <1>1 DEF Done, Runs, InRedis, IsRedis
  <2>3. now \in Nat /\ started[since[command[g]]] \in Nat
    BY <2>2 DEF TraceInv, MonitorInv, Inv, TypeOK, Stored, Explains
  <2> QED
    BY <1>2, <2>1, <2>3 DEF RecordType
<1> HIDE DEF e
<1>5. /\ redis'[g] = Append(redis[g], e)
      /\ \A h \in Goroutines \ {g} : redis'[h] = redis[h]
  BY <1>1, <1>3
<1>6. Once(Cmds(redis'[g])) /\ Range(Cmds(redis'[g])) = Finished("redis", g)'
  <2>1. /\ Once(Cmds(redis[g])) /\ Range(Cmds(redis[g])) = Finished("redis", g)
        /\ command[g] \notin Range(Cmds(redis[g]))
    BY DEF TraceInv, Whole, Finished
  <2>2. redis'[g] = Append(redis[g], e) /\ redis[g] \in Seq(RecordType)
    BY <1>3, <1>5
  <2>3. Cmds(redis'[g]) = Append(Cmds(redis[g]), command[g])
    BY <1>4, <2>2, CmdsAppended
  <2> QED
    BY <1>2, <2>1, <2>3, AppendOnce DEF Once
<1>7. ASSUME NEW h \in Goroutines PROVE Whole(h)'
  <2>1. CASE h = g
    BY <1>1, <1>2, <1>6, <2>1 DEF TraceInv, Whole, Traced
  <2>2. CASE h # g
    BY <1>1, <1>2, <1>5, <2>2 DEF TraceInv, Whole, Traced
  <2> QED
    BY <2>1, <2>2
<1>8. TraceType'
  BY <1>1 DEF TraceInv, TraceType
<1> QED
  BY <1>7, <1>8 DEF TraceInv

\* A Redis command of a request without a trace is over.
LEMMA UntracedWhole ==
    ASSUME TraceInv, MonitorInv', NEW g \in Goroutines, ~Traced(g), UNCHANGED <<context, redis, own>>,
           \E s : Done(g, "redis", s), UNCHANGED given
    PROVE  TraceInv'
<1>1. {"redis", "debug", "http"} \subseteq Kinds
  BY DEF Kinds
<1>2. \A h \in Goroutines \ {g} :
         /\ Own("debug", h)' = Own("debug", h)
         /\ Finished("redis", h)' = Finished("redis", h)
         /\ Finished("http", h)' = Finished("http", h)
  BY <1>1, OwnDone
<1>3. \A h \in Goroutines : Whole(h)'
  BY <1>2 DEF TraceInv, Whole, Traced, own
<1> QED
  BY <1>3 DEF TraceInv, TraceType, own

LEMMA OnResponseWhole ==
    ASSUME TraceInv, MonitorInv', NEW g \in Goroutines, OnResponse(g) PROVE TraceInv'
<1>1. /\ Done(g, "http", "sent") /\ UNCHANGED given /\ {"redis", "debug", "http"} \subseteq Kinds
      /\ thirdParty' = IF Traced(g) THEN [thirdParty EXCEPT ![g] = Append(@, command[g])]
                       ELSE thirdParty
      /\ UNCHANGED <<context, redis, debugs>>
  BY DEF OnResponse, AppendRecord, hook, Kinds
<1>2. /\ command[g] \in Commands
      /\ \A h \in Goroutines : Own("debug", h)' = Own("debug", h)
      /\ \A h \in Goroutines : Finished("redis", h)' = Finished("redis", h)
      /\ \A h \in Goroutines \ {g} : Finished("http", h)' = Finished("http", h)
      /\ Finished("http", g)' = Finished("http", g) \cup {command[g]}
  BY <1>1, OwnDone
<1>3. thirdParty \in [Goroutines -> Seq(Commands)]
  BY DEF TraceInv, TraceType
<1>4. \A h \in Goroutines \ {g} : thirdParty'[h] = thirdParty[h]
  BY <1>1, <1>3
<1>5. ASSUME Traced(g)
      PROVE  Once(thirdParty'[g]) /\ Range(thirdParty'[g]) \subseteq Finished("http", g)'
  <2>1. /\ Once(thirdParty[g]) /\ Range(thirdParty[g]) \subseteq Finished("http", g)
        /\ command[g] \notin Range(thirdParty[g])
    BY <1>5 DEF TraceInv, Whole, Finished
  <2>2. thirdParty'[g] = Append(thirdParty[g], command[g])
    BY <1>1, <1>3, <1>5
  <2> QED
    BY <1>2, <2>1, <2>2, AppendOnce DEF Once
<1>6. ASSUME NEW h \in Goroutines PROVE Whole(h)'
  <2>1. CASE h = g /\ Traced(g)
    BY <1>1, <1>2, <1>5, <2>1 DEF TraceInv, Whole, Traced
  <2>2. CASE h = g /\ ~Traced(g)
    BY <1>1, <2>2 DEF TraceInv, Whole, Traced
  <2>3. CASE h # g
    BY <1>1, <1>2, <1>4, <2>3 DEF TraceInv, Whole, Traced
  <2> QED
    BY <2>1, <2>2, <2>3
<1>7. TraceType'
  BY <1>1, <1>2, <1>3 DEF TraceInv, TraceType
<1> QED
  BY <1>6, <1>7 DEF TraceInv

LEMMA TraceNext == TraceInv /\ [Next]_vars => TraceInv'
<1> SUFFICES ASSUME TraceInv, [Next]_vars PROVE TraceInv'
  OBVIOUS
<1>1. MonitorInv'
  BY MonitorNext DEF TraceInv
<1>2. ASSUME NEW g \in Goroutines, NEW c \in Commands,
             BeforeProcess(g, c) \/ BeforeProcessPipeline(g, c) \/ Started(g, c) \/ Send(g, c)
      PROVE  TraceInv'
  <2>1. /\ \E k \in Kinds \ {"debug"} : \E s : Issue(g, c, k, s)
        /\ UNCHANGED <<context, redis, own>>
    BY <1>2 DEF BeforeProcess, BeforeProcessPipeline, Started, Send, Kinds, hook
  <2> QED
    BY <1>1, <2>1, IssuedWhole
<1>3. ASSUME NEW g \in Goroutines, NEW c \in Commands, Logger(g, c) PROVE TraceInv'
  BY <1>1, <1>3, LoggerWhole
<1>4. ASSUME NEW g \in Goroutines, AfterProcessAppends(g) \/ AfterProcessUntraced(g)
      PROVE  TraceInv'
  <2>1. CASE Traced(g)
    BY <1>1, <1>4, <2>1, AppendsWhole DEF AfterProcessUntraced
  <2>2. CASE ~Traced(g)
    <3>1. Done(g, "redis", "sent") /\ UNCHANGED <<given, context, redis, own>>
      BY <1>4, <2>2 DEF AfterProcessAppends, AfterProcessUntraced, hook
    <3> QED
      BY <1>1, <2>2, <3>1, UntracedWhole
  <2> QED
    BY <2>1, <2>2
<1>5. ASSUME NEW g \in Goroutines, OnResponse(g) PROVE TraceInv'
  BY <1>1, <1>5, OnResponseWhole
<1>6. ASSUME NEW g \in Goroutines,
             AfterProcessPipeline(g) \/ SucceededAppends(g) \/ Failed(g) \/ NoResponse(g)
      PROVE  TraceInv'
  <2>1. /\ \E k \in Kinds \ {"redis"} : \E s : Done(g, k, s)
        /\ UNCHANGED <<given, context, redis, own>>
    BY <1>6 DEF AfterProcessPipeline, SucceededAppends, Failed, NoResponse, Kinds, hook
  <2>2. {"redis", "debug", "http"} \subseteq Kinds
    BY DEF Kinds
  <2>3. \A h \in Goroutines :
           /\ Own("debug", h)' = Own("debug", h)
           /\ Finished("redis", h)' = Finished("redis", h)
           /\ Finished("http", h) \subseteq Finished("http", h)'
    BY <2>1, <2>2, OwnDone
  <2> QED
    BY <1>1, <2>1, <2>3, RecordsAlone
<1>7. CASE \/ Tick \/ UNCHANGED vars
           \/ \E g \in Goroutines : \/ End(g) \/ BeforeProcessStores(g) \/ AfterProcess(g)
                                     \/ StartedFills(g) \/ Succeeded(g)
  <2>1. UNCHANGED <<context, command, given, redis, own>>
    BY <1>7 DEF Tick, End, BeforeProcessStores, AfterProcess, StartedFills, Succeeded, Goes, vars,
                running, hook
  <2>2. \A h \in Goroutines :
           /\ Own("debug", h)' = Own("debug", h)
           /\ Finished("redis", h)' = Finished("redis", h)
           /\ Finished("http", h) \subseteq Finished("http", h)'
    BY <2>1 DEF Own, Finished, given
  <2> QED
    BY <1>1, <2>1, <2>2, RecordsAlone
<1> QED
  BY <1>2, <1>3, <1>4, <1>5, <1>6, <1>7 DEF Next

\* As many records as commands.
LEMMA OnceCounts == ASSUME NEW s, Once(s) PROVE Len(s) = Cardinality(Range(s))
<1>1. Len(s) \in Nat /\ s \in [1..Len(s) -> Range(s)]
  BY DEF Once, Range
<1>2. s \in Bijection(1..Len(s), Range(s))
  <2>1. \A i, j \in 1..Len(s) : s[i] = s[j] => i = j
    BY DEF Once, IsInjective
  <2>2. \A t \in Range(s) : \E i \in 1..Len(s) : s[i] = t
    BY DEF Once, Range
  <2> QED
    BY <1>1, <2>1, <2>2 DEF Bijection, Injection, Surjection, IsInjective
<1> QED
  BY <1>1, <1>2, FS_CountingElements DEF ExistsBijection

\* Whichever requests run commands at once, and share the hook, between two commands
\* the trace of each has one record for every command of its own and none of another.
THEOREM TracesWhole == Spec => []Recorded
<1>1. ASSUME TraceInv, NEW g \in Goroutines, command[g] = None
      PROVE  IF Traced(g)
             THEN /\ Len(Cmds(redis[g])) = Cardinality(Own("redis", g))
                  /\ Range(Cmds(redis[g])) = Own("redis", g)
                  /\ Len(debugs[g]) = Cardinality(Own("debug", g))
                  /\ Range(debugs[g]) = Own("debug", g)
                  /\ IsInjective(thirdParty[g]) /\ Range(thirdParty[g]) \subseteq Own("http", g)
             ELSE redis[g] \o debugs[g] \o thirdParty[g] = <<>>
  <2>1. Whole(g)
    BY <1>1 DEF TraceInv
  <2>2. \A k \in Kinds : Finished(k, g) = Own(k, g)
    BY <1>1, CommandHooksAssumption DEF Finished, Own
  <2>3. CASE Traced(g)
    BY <2>1, <2>2, <2>3, OnceCounts DEF Whole, Once, Kinds
  <2>4. CASE ~Traced(g)
    <3>1. redis[g] = <<>> /\ debugs[g] = <<>> /\ thirdParty[g] = <<>>
      BY <2>1, <2>4 DEF Whole
    <3>2. <<>> \o <<>> \o <<>> = <<>>
      OBVIOUS
    <3> QED
      BY <2>4, <3>1, <3>2
  <2> QED
    BY <2>3, <2>4
<1>2. TraceInv => Recorded
  BY <1>1 DEF Recorded, Cmds, Own
<1> QED
  BY <1>2, TraceInit, TraceNext, PTL DEF Spec
===============================================================================
