------------------------------ MODULE AdminCache ------------------------------
(***************************************************************************)
(* internal/api/admin/admin_handler.gen.go over the multi-level cache and  *)
(* MySQL: the cache-aside reads (List, GetByID), the writes that           *)
(* invalidate (UpdateByID, DeleteByID) and Create, which does not.         *)
(*                                                                         *)
(* Each request is a process that runs its handler call by call; between   *)
(* two calls other requests, expiry, replication and faults happen.  A row *)
(* is its version: 0 before it exists, Gone after it is deleted.  The path *)
(* id becomes the cache key as it is, but int32(id) in the query, so RowOf *)
(* truncates it to the width of the column.                                *)
(***************************************************************************)
EXTENDS MultiLevelCache, FiniteSets

CONSTANTS
    Procs,       \* requests in flight at a time
    Ids,         \* path ids used by clients
    Width,       \* 2^w for the w-bit ids of the table
    List,        \* the key "admin:list"
    NodeOf,      \* the node each process runs on
    MaxVersion   \* bound: versions of a row

RowOf(id) == id % Width
Rows == {RowOf(id) : id \in Ids}
Gone == MaxVersion + 1

ASSUME AdminAssumption ==
    /\ Ids \subseteq Nat /\ Width \in Nat \ {0} /\ MaxVersion \in Nat \ {0}
    /\ List \notin Ids /\ Keys = Ids \cup {List}
    /\ NodeOf \in [Procs -> Nodes]

VARIABLES
    master,   \* writeDB: row -> version
    replica,  \* readDB, when it is another server
    pc,       \* the call each request makes next
    key,      \* the key it is about
    val       \* the rows a read has in hand

procs == <<pc, key, val>>
vars == <<levels, master, replica, procs>>

RowsOf(k) == IF k = List THEN Rows ELSE {RowOf(k)}
Found(v) == v \in 1..MaxVersion

\* What a query for key k returns on database db.
Query(db, k) == [r \in RowsOf(k) |-> db[r]]
ReadDB == IF "lag" \in Faults THEN replica ELSE master

\* GetByID of a row that is not there is an error; an empty list is not.
NotFound(k, db) == k # List /\ \A r \in RowsOf(k) : ~Found(db[r])

Init ==
    /\ LevelsInit
    /\ master \in [Rows -> {0, 1}]
    /\ replica = master
    /\ pc = [p \in Procs |-> "idle"]
    /\ key = [p \in Procs |-> None]
    /\ val = [p \in Procs |-> None]

Goto(p, from, to) == pc[p] = from /\ pc' = [pc EXCEPT ![p] = to]

\* The response is sent; the process is free for another request.
Done(p, from) ==
    /\ pc[p] = from
    /\ pc' = [pc EXCEPT ![p] = "idle"]
    /\ key' = [key EXCEPT ![p] = None]
    /\ val' = [val EXCEPT ![p] = None]

databases == <<master, replica>>

-------------------------------------------------------------------------------
(* List and GetByID *)

Read(p, k) ==
    /\ Goto(p, "idle", "exists1")
    /\ key' = [key EXCEPT ![p] = k]
    /\ UNCHANGED <<levels, databases, val>>

\* The handlers differ in their key, and in what NotFound says of their query.
ListAll(p) == Read(p, List)
GetByID(p, id) == Read(p, id)

\* cache.Exists, first level.
Exists1(p) ==
    /\ pc[p] = "exists1"
    /\ Goto(p, "exists1", IF Has1(NodeOf[p], key[p]) THEN "get1" ELSE "exists2")
    /\ UNCHANGED <<levels, databases, key, val>>

\* cache.Exists, second level; on an error the answer is no.
Exists2(p) ==
    /\ pc[p] = "exists2"
    /\ \/ Goto(p, "exists2", IF l2[key[p]] # None THEN "get1" ELSE "query")
       \/ RedisFails /\ Goto(p, "exists2", "query")
    /\ UNCHANGED <<levels, databases, key, val>>

\* cache.Get, first level: a hit is served.
Get1(p) ==
    /\ pc[p] = "get1"
    /\ \/ Hit1(NodeOf[p], key[p]) /\ Done(p, "get1")
       \/ /\ ~Hit1(NodeOf[p], key[p])
          /\ Goto(p, "get1", "get2")
          /\ UNCHANGED <<key, val>>
    /\ UNCHANGED <<levels, databases>>

\* cache.Get, second level: a hit is in hand, anything else goes to the database.
Get2(p) ==
    /\ pc[p] = "get2"
    /\ \/ /\ l2[key[p]] # None
          /\ Goto(p, "get2", "fill1")
          /\ val' = [val EXCEPT ![p] = l2[key[p]]]
       \/ /\ l2[key[p]] = None \/ RedisFails
          /\ Goto(p, "get2", "query")
          /\ UNCHANGED val
    /\ UNCHANGED <<levels, databases, key>>

\* (Mutant) the hit is also written back to the second level.
Fill1_WriteBack(p) ==
    /\ Done(p, "fill1")
    /\ Set1(NodeOf[p], key[p], Text(val[p]))
    /\ l2' = [l2 EXCEPT ![key[p]] = val[p]]
    /\ UNCHANGED databases

\* cache.Get copies the raw JSON of the hit into L1, then it is served.
Fill1(p) ==
    /\ Done(p, "fill1")
    /\ Set1(NodeOf[p], key[p], Text(val[p]))
    /\ UNCHANGED <<l2, databases>>

\* (Mutant) a row that is not there is cached like any other result.
QueryDB_CacheMiss(p) ==
    /\ Goto(p, "query", "set1")
    /\ val' = [val EXCEPT ![p] = Query(ReadDB, key[p])]
    /\ UNCHANGED <<levels, databases, key>>

\* The query on the read database.
QueryDB(p) ==
    /\ pc[p] = "query"
    /\ \/ /\ ~NotFound(key[p], ReadDB)
          /\ Goto(p, "query", "set1")
          /\ val' = [val EXCEPT ![p] = Query(ReadDB, key[p])]
          /\ UNCHANGED key
       \/ NotFound(key[p], ReadDB) /\ Done(p, "query")
    /\ UNCHANGED <<levels, databases>>

\* cache.Set, first and second level; the result is served.
SetL1(p) ==
    /\ Goto(p, "set1", "set2")
    /\ Set1(NodeOf[p], key[p], Value(val[p]))
    /\ UNCHANGED <<l2, databases, key, val>>

SetL2(p) ==
    /\ Done(p, "set2")
    /\ Set2(key[p], val[p])
    /\ UNCHANGED <<l1, databases>>

-------------------------------------------------------------------------------
(* Create, UpdateByID, DeleteByID *)

\* The row is inserted; no cached list is invalidated.  A client that names the id of
\* a deleted row would begin its versions anew: rows here are inserted once.
Create(p, r) ==
    /\ pc[p] = "idle" /\ master[r] = 0
    /\ master' = [master EXCEPT ![r] = 1]
    /\ UNCHANGED <<levels, replica, procs>>

\* The write commits and invalidation begins; a write that matches no row is no
\* error.  If only its acknowledgement is lost the handler returns the error
\* without invalidating anything.
Commit(p, id, to) ==
    /\ pc[p] = "idle"
    /\ master' = IF Found(master[RowOf(id)]) THEN [master EXCEPT ![RowOf(id)] = to] ELSE master
    /\ \/ /\ Goto(p, "idle", "del1")
          /\ key' = [key EXCEPT ![p] = id]
       \/ "ack" \in Faults /\ UNCHANGED <<pc, key>>
    /\ UNCHANGED <<levels, replica, val>>

UpdateByID(p, id) == master[RowOf(id)] # MaxVersion /\ Commit(p, id, master[RowOf(id)] + 1)

DeleteByID(p, id) == Commit(p, id, Gone)

\* (Mutant) the first level is forgotten.
DeleteKey1_Skip(p) ==
    /\ Goto(p, "del1", "del2")
    /\ UNCHANGED <<levels, databases, key, val>>

\* cache.Delete of the row's key, then of the list, level by level; errors are
\* ignored.
DeleteKey1(p) ==
    /\ Goto(p, "del1", "del2")
    /\ Delete1(NodeOf[p], key[p])
    /\ UNCHANGED <<l2, databases, key, val>>

DeleteKey2(p) ==
    /\ Goto(p, "del2", "dellist1")
    /\ Delete2(key[p])
    /\ UNCHANGED <<l1, databases, key, val>>

DeleteList1(p) ==
    /\ Goto(p, "dellist1", "dellist2")
    /\ Delete1(NodeOf[p], List)
    /\ UNCHANGED <<l2, databases, key, val>>

DeleteList2(p) ==
    /\ Done(p, "dellist2")
    /\ Delete2(List)
    /\ UNCHANGED <<l1, databases>>

-------------------------------------------------------------------------------
(* Environment *)

\* The read database catches up.
Replicate ==
    /\ replica # master /\ replica' = master
    /\ UNCHANGED <<levels, master, procs>>

Expiry ==
    /\ \/ \E n \in Nodes, k \in Keys : Lose1(n, k)
       \/ \E k \in Keys : Expire2(k)
    /\ UNCHANGED <<databases, procs>>

Continue(p) ==
    \/ Exists1(p) \/ Exists2(p) \/ Get1(p) \/ Get2(p) \/ Fill1(p)
    \/ QueryDB(p) \/ SetL1(p) \/ SetL2(p)
    \/ DeleteKey1(p) \/ DeleteKey2(p) \/ DeleteList1(p) \/ DeleteList2(p)

Begin(p) ==
    \/ ListAll(p)
    \/ \E r \in Rows : Create(p, r)
    \/ \E id \in Ids : GetByID(p, id) \/ UpdateByID(p, id) \/ DeleteByID(p, id)

Next ==
    \/ \E p \in Procs : Begin(p) \/ Continue(p)
    \/ Replicate
    \/ Expiry

Spec == Init /\ [][Next]_vars

-------------------------------------------------------------------------------
(* Properties *)

\* The snapshots stored under a key, and the one a read is about to store.
Cached(k) ==
    {l1[n][k].val : n \in {m \in Nodes : l1[m][k] # None}} \cup ({l2[k]} \ {None})

\* No cache level, and no read in flight, ever holds a row that the master has not
\* committed, nor a row that GetByID reported as not found.
CachedWasCommitted ==
    \A k \in Keys : \A s \in Cached(k) \cup {val[p] : p \in {q \in Procs : key[q] = k /\ val[q] # None}} :
        \A r \in RowsOf(k) : s[r] <= master[r] /\ (k # List => Found(s[r]))

Fresh(k) == \A s \in Cached(k) : s = Query(master, k)

Quiet == (\A p \in Procs : pc[p] = "idle") /\ ReadDB = master

\* admin_handler.gen.go:227 and :275 say a write deletes the related cache entries:
\* when no request is in flight no cached row is older than the database.
RowsFreshWhenQuiet == Quiet => \A id \in Ids : Fresh(id)

\* An entry of L1 is written anew, which restarts its time to live; so is one of L2.
Rewrite1(n, k) ==
    \E p \in Procs : NodeOf[p] = n /\ key[p] = k /\ (Fill1(p) \/ SetL1(p))
Rewrite2(k) ==
    \E p \in Procs : key[p] = k /\ SetL2(p) /\ l2'[k] = val[p]

\* Requests finish, the replica catches up, and an entry expires unless it is
\* rewritten again and again.
Fairness ==
    /\ \A p \in Procs : WF_vars(Continue(p))
    /\ WF_vars(Replicate)
    /\ \A n \in Nodes, k \in Keys :
         WF_vars((Lose1(n, k) /\ UNCHANGED <<databases, procs>>) \/ Rewrite1(n, k))
    /\ \A k \in Keys : WF_vars((Expire2(k) /\ UNCHANGED <<databases, procs>>) \/ Rewrite2(k))

FairSpec == Spec /\ Fairness

\* Whatever races and faults left stale entries behind, expiry heals them: the
\* copies in the two levels never keep each other alive, so once the database
\* stops changing the cache ends up agreeing with it for good.
EventuallyFresh == <>[](\A k \in Keys : Fresh(k))
===============================================================================
