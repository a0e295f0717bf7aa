---------------------------- MODULE AdminCacheProofs ----------------------------
(***************************************************************************)
(* What the admin handlers may leave in the cache, and what it takes for   *)
(* an old row to stay there, for any number of nodes, requests, rows and   *)
(* versions, and with every fault.                                         *)
(***************************************************************************)
EXTENDS AdminCacheHistory, Integers, TLAPS

Snapshots == UNION {[RowsOf(k) -> 0..Gone] : k \in Keys}
Entries == {None} \cup [form : {"value", "text"}, val : Snapshots]

Calls == {"idle", "exists1", "exists2", "get1", "get2", "fill1", "query", "set1", "set2",
          "del1", "del2", "dellist1", "dellist2"}

TypeOK ==
    /\ master \in [Rows -> 0..Gone] /\ replica \in [Rows -> 0..Gone]
    /\ l1 \in [Nodes -> [Keys -> Entries]]
    /\ l2 \in [Keys -> Snapshots \cup {None}]
    /\ key \in [Procs -> Keys \cup {None}]
    /\ val \in [Procs -> Snapshots \cup {None}]
    /\ pc \in [Procs -> Calls]

\* A result that may be cached under k.
Committed(k, s) ==
    /\ s \in [RowsOf(k) -> 0..Gone]
    /\ \A r \in RowsOf(k) : s[r] <= master[r] /\ (k # List => Found(s[r]))

ReplicaBehind == \A r \in Rows : replica[r] <= master[r]

Level1 == \A n \in Nodes, k \in Keys : l1[n][k] # None => Committed(k, l1[n][k].val)
Level2 == \A k \in Keys : l2[k] # None => Committed(k, l2[k])

\* A request has a key while it is at work, and a result when it is about to cache one.
InFlight ==
    \A p \in Procs :
        /\ pc[p] = "idle" => val[p] = None
        /\ pc[p] # "idle" => key[p] \in Keys /\ (val[p] # None => Committed(key[p], val[p]))
        /\ pc[p] \in {"fill1", "set1", "set2"} => Committed(key[p], val[p])

Inv == TypeOK /\ ReplicaBehind /\ Level1 /\ Level2 /\ InFlight

-------------------------------------------------------------------------------

LEMMA RowsOfKeys == ASSUME NEW k \in Keys PROVE RowsOf(k) \subseteq Rows
  BY AdminAssumption DEF RowsOf, Rows

LEMMA KeysOf == List \in Keys /\ Ids \subseteq Keys
  BY AdminAssumption

LEMMA SnapshotOf == ASSUME NEW k \in Keys, NEW s, Committed(k, s) PROVE s \in Snapshots
  BY DEF Committed, Snapshots

LEMMA InitInv == Init => Inv
<1> SUFFICES ASSUME Init PROVE Inv
  OBVIOUS
<1>1. master \in [Rows -> 0..Gone] /\ replica = master
  BY AdminAssumption DEF Init, Gone
<1>2. TypeOK
  <2>1. None \in Entries
    BY DEF Entries
  <2>2. l1 \in [Nodes -> [Keys -> Entries]] /\ l2 \in [Keys -> Snapshots \cup {None}]
    BY <2>1 DEF Init, LevelsInit
  <2>3. pc \in [Procs -> Calls]
    BY DEF Init, Calls
  <2>4. key \in [Procs -> Keys \cup {None}] /\ val \in [Procs -> Snapshots \cup {None}]
    BY DEF Init
  <2> QED
    BY <1>1, <2>2, <2>3, <2>4 DEF TypeOK
<1>3. ReplicaBehind
  BY <1>1 DEF ReplicaBehind
<1>4. Level1 /\ Level2 /\ InFlight
  BY DEF Init, LevelsInit, Level1, Level2, InFlight
<1> QED
  BY <1>2, <1>3, <1>4 DEF Inv

\* What was committed remains so: a row never goes back to an earlier version.
LEMMA CommittedKept ==
    ASSUME Inv, master' \in [Rows -> 0..Gone], \A r \in Rows : master[r] <= master'[r],
           NEW k \in Keys, NEW s, Committed(k, s)
    PROVE  Committed(k, s)'
<1>1. \A r \in RowsOf(k) : r \in Rows
  BY RowsOfKeys
<1>2. \A r \in Rows : master[r] \in Int /\ master'[r] \in Int
  BY AdminAssumption DEF Inv, TypeOK, Gone
<1>3. \A r \in RowsOf(k) : s[r] \in Int
  BY AdminAssumption DEF Committed, Gone
<1> QED
  BY <1>1, <1>2, <1>3 DEF Committed

\* What a query returns may be cached, unless nothing was found.
LEMMA QueryCommitted ==
    ASSUME Inv, NEW k \in Keys, ~NotFound(k, ReadDB)
    PROVE  Committed(k, Query(ReadDB, k))
<1>1. ReadDB \in {master, replica}
  BY DEF ReadDB
<1>2. \A r \in Rows : ReadDB[r] \in 0..Gone /\ ReadDB[r] <= master[r]
  BY <1>1, AdminAssumption DEF Inv, TypeOK, ReplicaBehind, Gone
<1>3. \A r \in RowsOf(k) : Query(ReadDB, k)[r] = ReadDB[r] /\ r \in Rows
  BY RowsOfKeys DEF Query
<1>4. k # List => \A r \in RowsOf(k) : Found(ReadDB[r])
  <2> SUFFICES ASSUME k # List PROVE \A r \in RowsOf(k) : Found(ReadDB[r])
    OBVIOUS
  <2>1. RowsOf(k) = {RowOf(k)}
    BY DEF RowsOf
  <2> HIDE DEF ReadDB
  <2> QED
    BY <2>1 DEF NotFound
<1>5. Query(ReadDB, k) \in [RowsOf(k) -> 0..Gone]
  BY <1>2, <1>3 DEF Query
<1> QED
  BY <1>2, <1>3, <1>4, <1>5 DEF Committed

-------------------------------------------------------------------------------
(* The handlers, call by call *)

\* Everything a step leaves alone stays in order.
LEMMA Level1Kept ==
    ASSUME Inv, master' \in [Rows -> 0..Gone], \A r \in Rows : master[r] <= master'[r],
           \A n \in Nodes, k \in Keys : l1'[n][k] \in {l1[n][k], None}
    PROVE  Level1'
  BY CommittedKept DEF Level1, Inv

LEMMA Level2Kept ==
    ASSUME Inv, master' \in [Rows -> 0..Gone], \A r \in Rows : master[r] <= master'[r],
           \A k \in Keys : l2'[k] \in {l2[k], None}
    PROVE  Level2'
  BY CommittedKept DEF Level2, Inv

LEMMA EntryPut ==
    ASSUME l1 \in [Nodes -> [Keys -> Entries]], NEW n \in Nodes, NEW k \in Keys, NEW e \in Entries,
           l1' = [l1 EXCEPT ![n][k] = e]
    PROVE  /\ l1' \in [Nodes -> [Keys -> Entries]]
           /\ \A m \in Nodes, j \in Keys : l1'[m][j] = IF m = n /\ j = k THEN e ELSE l1[m][j]
<1>1. l1[n] \in [Keys -> Entries] /\ [l1[n] EXCEPT ![k] = e] \in [Keys -> Entries]
  OBVIOUS
<1>2. l1' = [l1 EXCEPT ![n] = [l1[n] EXCEPT ![k] = e]]
  OBVIOUS
<1>3. l1' \in [Nodes -> [Keys -> Entries]]
  BY <1>1, <1>2
<1> QED
  BY <1>1, <1>2, <1>3

LEMMA NothingPut == None \in Entries
  BY DEF Entries

\* A step of one request, with the result it has in hand afterwards.
LEMMA InFlightKept ==
    ASSUME Inv, TypeOK', NEW p \in Procs, \A r \in Rows : master[r] <= master'[r],
           \A q \in Procs \ {p} : pc'[q] = pc[q] /\ key'[q] = key[q] /\ val'[q] = val[q],
           pc'[p] = "idle" => val'[p] = None,
           pc'[p] # "idle" => key'[p] \in Keys /\ (val'[p] # None => Committed(key[p], val[p])'),
           pc'[p] \in {"fill1", "set1", "set2"} => Committed(key[p], val[p])'
    PROVE  InFlight'
<1> SUFFICES ASSUME NEW q \in Procs, q # p
             PROVE  /\ pc'[q] = "idle" => val'[q] = None
                    /\ pc'[q] # "idle" => key'[q] \in Keys
                                          /\ (val'[q] # None => Committed(key[q], val[q])')
                    /\ pc'[q] \in {"fill1", "set1", "set2"} => Committed(key[q], val[q])'
  BY DEF InFlight
<1>1. master' \in [Rows -> 0..Gone]
  BY DEF TypeOK
<1>2. pc[q] # "idle" => key[q] \in Keys
  BY DEF Inv, InFlight
<1>3. \A k \in Keys, s \in Snapshots : Committed(k, s) => Committed(k, s)'
  BY <1>1, CommittedKept
<1>4. val[q] # None => val[q] \in Snapshots
  BY DEF Inv, TypeOK
<1> QED
  BY <1>2, <1>3, <1>4, SnapshotOf DEF Inv, InFlight

\* One call of a read.
LEMMA ReadInv ==
    ASSUME Inv, NEW p \in Procs,
           \/ ListAll(p) \/ \E id \in Ids : GetByID(p, id)
           \/ Exists1(p) \/ Exists2(p) \/ Get1(p) \/ Get2(p) \/ QueryDB(p)
    PROVE  Inv'
<1>1. UNCHANGED <<levels, databases>>
  BY DEF ListAll, GetByID, Read, Exists1, Exists2, Get1, Get2, QueryDB
<1>2. TypeOK
  BY DEF Inv
<1>3. /\ pc'[p] \in Calls /\ pc' = [pc EXCEPT ![p] = pc'[p]]
      /\ key'[p] \in Keys \cup {None} /\ key' = [key EXCEPT ![p] = key'[p]]
      /\ val' = [val EXCEPT ![p] = val'[p]]
      /\ pc'[p] = "idle" => val'[p] = None
      /\ pc'[p] # "idle" => key'[p] \in Keys /\ (val'[p] # None => Committed(key'[p], val'[p]))
      /\ pc'[p] \in {"fill1", "set1", "set2"} => Committed(key'[p], val'[p])
  <2> USE <1>2 DEF TypeOK, Calls, Goto, Done, InFlight
  <2>1. CASE ListAll(p) \/ \E id \in Ids : GetByID(p, id)
    BY <2>1, KeysOf DEF ListAll, GetByID, Read, Inv
  <2>2. CASE Exists1(p) \/ Exists2(p)
    BY <2>2 DEF Exists1, Exists2, Inv
  <2>3. CASE Get1(p)
    BY <2>3 DEF Get1, Inv
  <2>4. CASE Get2(p)
    BY <2>4 DEF Get2, Inv, Level2
  <2>5. CASE QueryDB(p)
    <3>1. CASE NotFound(key[p], ReadDB)
      BY <2>5, <3>1 DEF QueryDB, Inv
    <3>2. CASE ~NotFound(key[p], ReadDB)
      <4>1. key[p] \in Keys
        BY <2>5 DEF QueryDB, Inv
      <4>2. Committed(key[p], Query(ReadDB, key[p]))
        BY <3>2, <4>1, QueryCommitted
      <4>3. val' = [val EXCEPT ![p] = Query(ReadDB, key[p])] /\ key' = key /\ pc' = [pc EXCEPT ![p] = "set1"]
        BY <2>5, <3>2 DEF QueryDB
      <4> HIDE DEF InFlight
      <4> QED
        BY <4>1, <4>2, <4>3
    <3> QED
      BY <3>1, <3>2
  <2> QED
    BY <2>1, <2>2, <2>3, <2>4, <2>5
<1>4. val'[p] \in Snapshots \cup {None}
  BY <1>3, SnapshotOf
<1>5. TypeOK'
  BY <1>1, <1>2, <1>3, <1>4 DEF TypeOK, levels, databases
<1>6. master' = master /\ master' \in [Rows -> 0..Gone] /\ \A r \in Rows : master[r] <= master'[r]
  BY <1>1, <1>2, AdminAssumption DEF TypeOK, databases, Gone
<1>7. Level1' /\ Level2'
  BY <1>1, <1>6, Level1Kept, Level2Kept DEF levels
<1>8. Committed(key'[p], val'[p]) => Committed(key[p], val[p])'
  BY <1>6 DEF Committed
<1>9. InFlight'
  BY <1>2, <1>3, <1>5, <1>6, <1>8, InFlightKept DEF TypeOK
<1> QED
  BY <1>1, <1>5, <1>7, <1>9 DEF Inv, ReplicaBehind, databases

\* One call that writes to the cache what the request has in hand.
LEMMA FillInv == ASSUME Inv, NEW p \in Procs, Fill1(p) \/ SetL1(p) \/ SetL2(p) PROVE Inv'
<1>1. UNCHANGED databases /\ TypeOK
  BY DEF Fill1, SetL1, SetL2, Inv
<1>2. key[p] \in Keys /\ Committed(key[p], val[p]) /\ val[p] \in Snapshots
  BY SnapshotOf DEF Fill1, SetL1, SetL2, Goto, Done, Inv, InFlight
<1>3. master' = master /\ master' \in [Rows -> 0..Gone] /\ \A r \in Rows : master[r] <= master'[r]
  BY <1>1, AdminAssumption DEF TypeOK, databases, Gone
<1>4. \/ l1' = l1
      \/ \E e \in Entries : e.val = val[p] /\ l1' = [l1 EXCEPT ![NodeOf[p]][key[p]] = e]
  <2>1. Value(val[p]) \in Entries /\ Value(val[p]).val = val[p]
    BY <1>2 DEF Value, Entries
  <2>2. Text(val[p]) \in Entries /\ Text(val[p]).val = val[p]
    BY <1>2 DEF Text, Entries
  <2> QED
    BY <2>1, <2>2 DEF Fill1, SetL1, SetL2, Set1
<1>5. l2' \in {l2, [l2 EXCEPT ![key[p]] = val[p]]}
  BY DEF Fill1, SetL1, SetL2, Set2
<1>6. /\ pc'[p] \in {"idle", "set2"} /\ pc' = [pc EXCEPT ![p] = pc'[p]]
      /\ key'[p] \in Keys \cup {None} /\ key' = [key EXCEPT ![p] = key'[p]]
      /\ val'[p] \in {val[p], None} /\ val' = [val EXCEPT ![p] = val'[p]]
      /\ pc'[p] = "idle" => val'[p] = None
      /\ pc'[p] = "set2" => key'[p] = key[p] /\ val'[p] = val[p]
  BY <1>1, <1>2 DEF Fill1, SetL1, SetL2, Goto, Done, TypeOK
<1>7. TypeOK'
  <2>1. l1' \in [Nodes -> [Keys -> Entries]]
    BY <1>1, <1>2, <1>4, EntryPut, AdminAssumption DEF TypeOK
  <2>2. l2' \in [Keys -> Snapshots \cup {None}]
    BY <1>1, <1>2, <1>5 DEF TypeOK
  <2>3. key' \in [Procs -> Keys \cup {None}] /\ val' \in [Procs -> Snapshots \cup {None}]
        /\ pc' \in [Procs -> Calls]
    BY <1>1, <1>2, <1>6 DEF TypeOK, Calls
  <2> QED
    BY <1>1, <2>1, <2>2, <2>3 DEF TypeOK, databases
<1>8. Level1'
  <2> SUFFICES ASSUME NEW n \in Nodes, NEW k \in Keys, l1'[n][k] # None
               PROVE  Committed(k, l1'[n][k].val)
    BY <1>3 DEF Level1, Committed
  <2>1. CASE l1'[n][k] = l1[n][k]
    BY <2>1 DEF Inv, Level1
  <2>2. CASE l1'[n][k] # l1[n][k]
    <3>1. PICK e \in Entries : e.val = val[p] /\ l1' = [l1 EXCEPT ![NodeOf[p]][key[p]] = e]
      BY <1>4, <2>2
    <3>2. NodeOf[p] \in Nodes
      BY AdminAssumption
    <3>3. k = key[p] /\ l1'[n][k] = e
      BY <1>1, <1>2, <2>2, <3>1, <3>2, EntryPut DEF TypeOK
    <3> QED
      BY <1>2, <3>1, <3>3
  <2> QED
    BY <2>1, <2>2
<1>9. Level2'
  <2> SUFFICES ASSUME NEW k \in Keys, l2'[k] # None PROVE Committed(k, l2'[k])
    BY <1>3 DEF Level2, Committed
  <2> QED
    BY <1>1, <1>2, <1>5 DEF TypeOK, Inv, Level2
<1>10. pc'[p] = "set2" => key'[p] \in Keys /\ Committed(key[p], val[p])'
  BY <1>2, <1>3, <1>6 DEF Committed
<1>11. InFlight'
  BY <1>1, <1>3, <1>6, <1>7, <1>10, InFlightKept DEF TypeOK
<1> QED
  BY <1>1, <1>7, <1>8, <1>9, <1>11 DEF Inv, ReplicaBehind, databases

\* One call that deletes a key from a level.
LEMMA DeleteInv ==
    ASSUME Inv, NEW p \in Procs,
           DeleteKey1(p) \/ DeleteKey2(p) \/ DeleteList1(p) \/ DeleteList2(p)
    PROVE  Inv'
<1>1. UNCHANGED databases /\ TypeOK
  BY DEF Inv, DeleteKey1, DeleteKey2, DeleteList1, DeleteList2
<1>2. key[p] \in Keys /\ (val[p] # None => Committed(key[p], val[p]))
  BY DEF Goto, Done, Inv, InFlight, DeleteKey1, DeleteKey2, DeleteList1, DeleteList2
<1>3. /\ pc'[p] \in {"del2", "dellist1", "dellist2", "idle"} /\ pc' = [pc EXCEPT ![p] = pc'[p]]
      /\ key'[p] \in Keys \cup {None} /\ key' = [key EXCEPT ![p] = key'[p]]
      /\ val'[p] \in {val[p], None} /\ val' = [val EXCEPT ![p] = val'[p]]
      /\ pc'[p] = "idle" => val'[p] = None
      /\ pc'[p] # "idle" => key'[p] = key[p] /\ val'[p] = val[p]
  BY <1>1, <1>2 DEF Goto, Done, TypeOK, DeleteKey1, DeleteKey2, DeleteList1, DeleteList2
<1>4. master' = master /\ master' \in [Rows -> 0..Gone] /\ \A r \in Rows : master[r] <= master'[r]
  BY <1>1, AdminAssumption DEF TypeOK, databases, Gone
<1>5. /\ l1' = l1 \/ \E k \in Keys : l1' = [l1 EXCEPT ![NodeOf[p]][k] = None]
      /\ l2' = l2 \/ \E k \in Keys : l2' = [l2 EXCEPT ![k] = None]
  <2>1. CASE DeleteKey1(p)
    BY <1>2, <2>1 DEF DeleteKey1, Delete1
  <2>2. CASE DeleteKey2(p)
    BY <1>2, <2>2 DEF DeleteKey2, Delete2
  <2>3. CASE DeleteList1(p)
    <3>1. l1' = [l1 EXCEPT ![NodeOf[p]][List] = None] /\ l2' = l2
      BY <2>3 DEF DeleteList1, Delete1
    <3> QED
      BY <3>1, KeysOf, Zenon
  <2>4. CASE DeleteList2(p)
    <3>1. l2' \in {l2, [l2 EXCEPT ![List] = None]} /\ l1' = l1
      BY <2>4 DEF DeleteList2, Delete2
    <3> QED
      BY <3>1, KeysOf, Zenon
  <2> QED
    BY <2>1, <2>2, <2>3, <2>4
<1>6. NodeOf[p] \in Nodes
  BY AdminAssumption
<1>7. l1' \in [Nodes -> [Keys -> Entries]] /\ \A n \in Nodes, k \in Keys : l1'[n][k] \in {l1[n][k], None}
  <2>1. CASE l1' = l1
    BY <1>1, <2>1 DEF TypeOK
  <2>2. ASSUME NEW j \in Keys, l1' = [l1 EXCEPT ![NodeOf[p]][j] = None]
        PROVE  <1>7!1 /\ <1>7!2
    BY <1>1, <1>6, <2>2, NothingPut, EntryPut DEF TypeOK
  <2> QED
    BY <1>5, <2>1, <2>2
<1>8. l2' \in [Keys -> Snapshots \cup {None}] /\ \A k \in Keys : l2'[k] \in {l2[k], None}
  BY <1>1, <1>5 DEF TypeOK
<1>9. TypeOK'
  <2>1. pc' \in [Procs -> Calls] /\ key' \in [Procs -> Keys \cup {None}]
        /\ val' \in [Procs -> Snapshots \cup {None}]
    BY <1>1, <1>3 DEF TypeOK, Calls
  <2> QED
    BY <1>1, <1>7, <1>8, <2>1 DEF TypeOK, databases
<1>10. Level1' /\ Level2'
  BY <1>4, <1>7, <1>8, Level1Kept, Level2Kept
<1>11. /\ pc'[p] = "idle" => val'[p] = None
       /\ pc'[p] # "idle" => key'[p] \in Keys /\ (val'[p] # None => Committed(key[p], val[p])')
  BY <1>2, <1>4, <1>3 DEF Committed
<1>12. \A q \in Procs \ {p} : pc'[q] = pc[q] /\ key'[q] = key[q] /\ val'[q] = val[q]
  BY <1>1, <1>3 DEF TypeOK
<1>13. InFlight'
  BY <1>3, <1>4, <1>9, <1>11, <1>12, InFlightKept
<1> QED
  BY <1>1, <1>9, <1>10, <1>13 DEF Inv, ReplicaBehind, databases

\* A write to the database: a row only moves to a later version.
LEMMA WriteInv ==
    ASSUME Inv, NEW p \in Procs,
           \/ \E r \in Rows : Create(p, r)
           \/ \E id \in Ids : UpdateByID(p, id) \/ DeleteByID(p, id)
    PROVE  Inv'
<1>1. TypeOK /\ UNCHANGED <<levels, replica, val>> /\ pc[p] = "idle"
  BY DEF Create, UpdateByID, DeleteByID, Commit, procs, Inv
<1>2. master' = master \/ \E r \in Rows, v \in 0..Gone : master[r] <= v /\ master' = [master EXCEPT ![r] = v]
  <2> USE AdminAssumption DEF Gone, Found
  <2>1. ASSUME NEW r \in Rows, Create(p, r)
        PROVE  \E v \in 0..Gone : master[r] <= v /\ master' = [master EXCEPT ![r] = v]
    <3>1. 1 \in 0..Gone /\ master[r] <= 1 /\ master' = [master EXCEPT ![r] = 1]
      BY <2>1 DEF Create
    <3> QED
      BY <3>1
  <2>2. ASSUME NEW id \in Ids, UpdateByID(p, id) \/ DeleteByID(p, id)
        PROVE  \/ master' = master
               \/ \E v \in 0..Gone : master[RowOf(id)] <= v /\ master' = [master EXCEPT ![RowOf(id)] = v]
    BY <2>2, <1>1 DEF UpdateByID, DeleteByID, Commit, TypeOK
  <2>3. \A id \in Ids : RowOf(id) \in Rows
    BY DEF Rows
  <2> QED
    BY <2>1, <2>2, <2>3
<1>3. master' \in [Rows -> 0..Gone] /\ \A r \in Rows : master[r] <= master'[r]
  <2>1. \A r \in Rows : master[r] \in Int /\ master[r] <= master[r]
    BY <1>1, AdminAssumption DEF TypeOK, Gone
  <2> QED
    BY <1>1, <1>2, <2>1 DEF TypeOK
<1>4. \/ UNCHANGED <<pc, key>>
      \/ \E k \in Keys : pc' = [pc EXCEPT ![p] = "del1"] /\ key' = [key EXCEPT ![p] = k]
  BY KeysOf DEF Create, UpdateByID, DeleteByID, Commit, procs, Goto
<1>5. val[p] = None
  BY <1>1 DEF Inv, InFlight
<1>6. TypeOK'
  <2>1. pc' \in [Procs -> Calls] /\ key' \in [Procs -> Keys \cup {None}]
    BY <1>1, <1>4 DEF TypeOK, Calls
  <2> QED
    BY <1>1, <1>3, <2>1 DEF TypeOK, levels
<1>7. Level1' /\ Level2'
  BY <1>1, <1>3, Level1Kept, Level2Kept DEF levels
<1>8. ReplicaBehind'
  BY <1>1, <1>3, AdminAssumption DEF Inv, ReplicaBehind, TypeOK, Gone
<1>9. /\ \A q \in Procs \ {p} : pc'[q] = pc[q] /\ key'[q] = key[q] /\ val'[q] = val[q]
      /\ val'[p] = None /\ pc'[p] \in {"idle", "del1"} /\ (pc'[p] # "idle" => key'[p] \in Keys)
  BY <1>1, <1>4, <1>5 DEF TypeOK
<1>10. InFlight'
  BY <1>3, <1>6, <1>9, InFlightKept
<1> QED
  BY <1>6, <1>7, <1>8, <1>10 DEF Inv

\* The environment: replication and expiry.
LEMMA EnvironmentInv == Inv /\ (Replicate \/ Expiry \/ UNCHANGED vars) => Inv'
<1> SUFFICES ASSUME Inv, Replicate \/ Expiry \/ UNCHANGED vars PROVE Inv'
  OBVIOUS
<1>1. TypeOK /\ UNCHANGED <<master, procs>> /\ replica' \in {replica, master}
  BY DEF Replicate, Expiry, databases, vars, Inv
<1>2. /\ l1' = l1 \/ \E n \in Nodes, k \in Keys : l1' = [l1 EXCEPT ![n][k] = None]
      /\ l2' = l2 \/ \E k \in Keys : l2' = [l2 EXCEPT ![k] = None]
  BY DEF Replicate, Expiry, Lose1, Delete1, Expire2, levels, vars
<1>3. master' \in [Rows -> 0..Gone] /\ \A r \in Rows : master[r] <= master'[r]
  BY <1>1, AdminAssumption DEF TypeOK, Gone
<1>4. l1' \in [Nodes -> [Keys -> Entries]] /\ \A n \in Nodes, k \in Keys : l1'[n][k] \in {l1[n][k], None}
  <2>1. CASE l1' = l1
    BY <1>1, <2>1 DEF TypeOK
  <2>2. ASSUME NEW m \in Nodes, NEW j \in Keys, l1' = [l1 EXCEPT ![m][j] = None]
        PROVE  <1>4!1 /\ <1>4!2
    BY <1>1, <2>2, NothingPut, EntryPut DEF TypeOK
  <2> QED
    BY <1>2, <2>1, <2>2
<1>5. l2' \in [Keys -> Snapshots \cup {None}] /\ \A k \in Keys : l2'[k] \in {l2[k], None}
  BY <1>1, <1>2 DEF TypeOK
<1>6. TypeOK'
  BY <1>1, <1>3, <1>4, <1>5 DEF TypeOK, procs
<1>7. Level1' /\ Level2'
  BY <1>3, <1>4, <1>5, Level1Kept, Level2Kept
<1>8. ReplicaBehind' /\ InFlight'
  BY <1>1, <1>3 DEF Inv, ReplicaBehind, InFlight, Committed, procs
<1> QED
  BY <1>6, <1>7, <1>8 DEF Inv

LEMMA NextInv == Inv /\ [Next]_vars => Inv'
  BY ReadInv, FillInv, DeleteInv, WriteInv, EnvironmentInv DEF Next, Begin, Continue

\* No level of the cache, on any node, and no request about to fill one holds a row that
\* was never committed or a row that was not found.
THEOREM CachedCommitted == Spec => []CachedWasCommitted
<1>1. Inv => CachedWasCommitted
  <2> SUFFICES ASSUME Inv, NEW k \in Keys,
                      NEW s \in Cached(k) \cup {val[p] : p \in {q \in Procs : key[q] = k /\ val[q] # None}}
               PROVE  \A r \in RowsOf(k) : s[r] <= master[r] /\ (k # List => Found(s[r]))
    BY DEF CachedWasCommitted
  <2>1. CASE s \in Cached(k)
    BY <2>1 DEF Cached, Inv, Level1, Level2, Committed
  <2>2. CASE s \notin Cached(k)
    BY <2>2 DEF Inv, InFlight, Committed
  <2> QED
    BY <2>1, <2>2
<1> QED
  BY <1>1, InitInv, NextInv, PTL DEF Spec
-------------------------------------------------------------------------------
(* Old rows *)

\* The requests so far have gone to one node, one after the other.
InOrder ==
    /\ \A p, q \in Procs : pc[p] # "idle" /\ pc[q] # "idle" => p = q
    /\ \A p \in Procs : pc[p] # "idle" => NodeOf[p] = only
    /\ \A n \in Nodes \ {only}, k \in Keys : l1[n][k] = None

\* A write of row id is at one of these calls.
At(id, calls) == \E p \in Procs : pc[p] \in calls /\ key[p] = id

\* What each level has of a row is as the database has it, unless the write that changed
\* it is still about to delete it there; so is what a read has in hand.
RowsFresh1 == \A id \in Ids :
    l1[only][id] # None /\ ~At(id, {"del1"}) => l1[only][id].val = Query(master, id)
RowsFresh2 == \A id \in Ids :
    l2[id] # None /\ ~At(id, {"del1", "del2"}) => l2[id] = Query(master, id)
InHand == \A p \in Procs :
    pc[p] \in {"fill1", "set1", "set2"} /\ key[p] # List => val[p] = Query(master, key[p])

Undisturbed == only \in Nodes /\ InOrder /\ RowsFresh1 /\ RowsFresh2 /\ InHand
OrderInv == Inv /\ (only # None => Undisturbed)

-------------------------------------------------------------------------------

LEMMA RowOfId ==
    ASSUME NEW id \in Ids
    PROVE  id \in Keys /\ id # List /\ RowOf(id) \in Rows /\ RowsOf(id) = {RowOf(id)}
BY AdminAssumption DEF RowsOf, Rows

\* A query for one row depends on that row only.
LEMMA QuerySame ==
    ASSUME NEW id \in Ids, master'[RowOf(id)] = master[RowOf(id)]
    PROVE  Query(master', id) = Query(master, id)
BY RowOfId DEF Query

\* A step that takes no write past the calls at which it deletes a row, and leaves in the
\* caches only what it finds there and what the database still says.
LEMMA FreshKept ==
    ASSUME Undisturbed, only' = only,
           \A id \in Ids : l1'[only][id] \in {l1[only][id], None},
           \A id \in Ids : l2'[id] \in {l2[id], None},
           \A id \in Ids : /\ l1[only][id] # None \/ l2[id] # None
                              => Query(master', id) = Query(master, id)
                           /\ At(id, {"del1"}) => At(id, {"del1"})'
                           /\ At(id, {"del1", "del2"}) => At(id, {"del1", "del2"})'
    PROVE  RowsFresh1' /\ RowsFresh2'
<1>1. RowsFresh1'
  <2> SUFFICES ASSUME NEW id \in Ids, l1'[only][id] # None, ~At(id, {"del1"})'
               PROVE  l1'[only][id].val = Query(master', id)
    BY DEF RowsFresh1, Query
  <2> QED
    BY DEF Undisturbed, RowsFresh1
<1>2. RowsFresh2'
  <2> SUFFICES ASSUME NEW id \in Ids, l2'[id] # None, ~At(id, {"del1", "del2"})'
               PROVE  l2'[id] = Query(master', id)
    BY DEF RowsFresh2, Query
  <2> QED
    BY DEF Undisturbed, RowsFresh2
<1> QED
  BY <1>1, <1>2

\* A call of a request that deletes nothing and does not begin to.
LEMMA NotDeleting ==
    ASSUME TypeOK, NEW p \in Procs, pc[p] \notin {"del1", "del2"},
           \A q \in Procs \ {p} : pc'[q] = pc[q] /\ key'[q] = key[q]
    PROVE  \A id \in Ids : /\ At(id, {"del1"}) => At(id, {"del1"})'
                           /\ At(id, {"del1", "del2"}) => At(id, {"del1", "del2"})'
BY DEF At

\* What a step of one request does to the order of requests.
LEMMA OrderKept ==
    ASSUME Undisturbed, TypeOK, only' = only, NEW p \in Procs,
           \A q \in Procs \ {p} : pc'[q] = pc[q],
           pc[p] = "idle" /\ pc'[p] # "idle" =>
               NodeOf[p] = only /\ \A q \in Procs : pc[q] = "idle",
           \A n \in Nodes \ {only}, k \in Keys : l1'[n][k] \in {l1[n][k], None}
    PROVE  InOrder'
BY DEF Undisturbed, InOrder

\* No disturbance, conjunct by conjunct.
LEMMA Orderly ==
    ASSUME ~Disturbance
    PROVE  /\ \A p \in Procs : pc[p] = "idle" /\ pc'[p] # "idle" =>
                  NodeOf[p] = only /\ \A q \in Procs : pc[q] = "idle"
           /\ \A p \in Procs : pc[p] = "idle" /\ pc'[p] = "del1" =>
                  \A id \in Ids \ {key'[p]} : RowOf(id) # RowOf(key'[p])
           /\ \A r \in Rows : Found(master[r]) /\ master'[r] # master[r] =>
                  pc' # pc /\ \A q \in Procs : pc[q] = "idle"
           /\ \A p \in Procs : pc[p] = "query" /\ pc'[p] # "query" => ReadDB = master
           /\ \A p \in Procs : pc[p] = "del2" /\ pc'[p] # "del2" => l2'[key[p]] = None
BY DEF Disturbance

\* A call of a read that changes neither level.
LEMMA ReadOrder ==
    ASSUME OrderInv, only # None, only' = only, ~Disturbance, NEW p \in Procs,
           \/ ListAll(p) \/ \E id \in Ids : GetByID(p, id)
           \/ Exists1(p) \/ Exists2(p) \/ Get1(p) \/ Get2(p) \/ QueryDB(p)
    PROVE  Undisturbed'
<1>1. UNCHANGED <<levels, databases>> /\ TypeOK /\ Undisturbed /\ Inv
  BY DEF ListAll, GetByID, Read, Exists1, Exists2, Get1, Get2, QueryDB, OrderInv, Inv
<1>2. /\ pc[p] \in {"idle", "exists1", "exists2", "get1", "get2", "query"}
      /\ \A q \in Procs \ {p} : pc'[q] = pc[q] /\ key'[q] = key[q] /\ val'[q] = val[q]
  BY <1>1 DEF ListAll, GetByID, Read, Exists1, Exists2, Get1, Get2, QueryDB, Goto, Done, TypeOK
<1>3. pc'[p] \in {"fill1", "set1", "set2"} /\ key'[p] # List =>
          val'[p] = Query(master, key'[p])
  <2>1. CASE Get2(p)
    <3> SUFFICES ASSUME pc'[p] = "fill1", key[p] # List, l2[key[p]] # None, val'[p] = l2[key[p]],
                        key'[p] = key[p], pc[p] = "get2"
                 PROVE  val'[p] = Query(master, key[p])
      BY <2>1, <1>1 DEF Get2, Goto, TypeOK
    <3>1. key[p] \in Ids
      BY <1>1, AdminAssumption DEF Inv, InFlight
    <3>2. ~At(key[p], {"del1", "del2"})
      BY <1>1 DEF At, Undisturbed, InOrder
    <3> QED
      BY <1>1, <3>1, <3>2 DEF Undisturbed, RowsFresh2
  <2>2. CASE QueryDB(p)
    <3>1. CASE pc'[p] = "idle"
      BY <3>1
    <3>2. CASE pc'[p] # "idle"
      <4>1. /\ pc[p] = "query" /\ pc'[p] # "query" /\ key'[p] = key[p]
            /\ val'[p] = Query(ReadDB, key[p])
        BY <2>2, <3>2, <1>1 DEF QueryDB, Goto, Done, TypeOK
      <4>2. ReadDB = master
        BY <4>1, Orderly
      <4> QED
        BY <4>1, <4>2
    <3> QED
      BY <3>1, <3>2
  <2>3. CASE ListAll(p) \/ (\E id \in Ids : GetByID(p, id)) \/ Exists1(p) \/ Exists2(p) \/ Get1(p)
    <3>1. pc'[p] \notin {"fill1", "set1", "set2"}
      BY <2>3, <1>1 DEF ListAll, GetByID, Read, Exists1, Exists2, Get1, Goto, Done, TypeOK
    <3> QED
      BY <3>1
  <2> QED
    BY <2>1, <2>2, <2>3
<1>4. InHand'
  <2> SUFFICES ASSUME NEW q \in Procs, pc'[q] \in {"fill1", "set1", "set2"}, key'[q] # List
               PROVE  val'[q] = Query(master, key'[q])
    BY <1>1 DEF InHand, Query, databases
  <2> QED
    BY <1>1, <1>2, <1>3 DEF Undisturbed, InHand
<1>5. InOrder'
  BY <1>1, <1>2, Orderly, OrderKept DEF levels
<1>6. RowsFresh1' /\ RowsFresh2'
  <2>1. \A id \in Ids : /\ At(id, {"del1"}) => At(id, {"del1"})'
                        /\ At(id, {"del1", "del2"}) => At(id, {"del1", "del2"})'
    BY <1>1, <1>2, NotDeleting
  <2>2. l1' = l1 /\ l2' = l2 /\ master' = master
    BY <1>1 DEF levels, databases
  <2> QED
    BY <1>1, <2>1, <2>2, FreshKept
<1> QED
  BY <1>1, <1>4, <1>5, <1>6 DEF Undisturbed

\* A call that stores what the request has in hand, which is as the database has it.
LEMMA FillOrder ==
    ASSUME OrderInv, only # None, only' = only, ~Disturbance, NEW p \in Procs,
           Fill1(p) \/ SetL1(p) \/ SetL2(p)
    PROVE  Undisturbed'
<1>1. UNCHANGED databases /\ TypeOK /\ Undisturbed /\ Inv /\ master' = master
  BY DEF Fill1, SetL1, SetL2, OrderInv, Inv, databases
<1>2. /\ pc[p] \in {"fill1", "set1", "set2"} /\ pc'[p] \in {"idle", "set2"}
      /\ pc'[p] = "set2" => key'[p] = key[p] /\ val'[p] = val[p]
      /\ \A q \in Procs \ {p} : pc'[q] = pc[q] /\ key'[q] = key[q] /\ val'[q] = val[q]
      /\ key[p] \in Keys /\ NodeOf[p] = only /\ only \in Nodes
      /\ key[p] # List => val[p] = Query(master, key[p])
  BY <1>1 DEF Fill1, SetL1, SetL2, Goto, Done, TypeOK, Inv, InFlight, Undisturbed, InOrder, InHand
<1>3. /\ \A n \in Nodes \ {only}, k \in Keys : l1'[n][k] = l1[n][k]
      /\ \A k \in Keys \ {key[p]} : l1'[only][k] = l1[only][k]
      /\ l1'[only][key[p]] = l1[only][key[p]] \/ l1'[only][key[p]].val = val[p]
  <2>1. CASE l1' = l1
    BY <2>1
  <2>2. CASE \E e : e.val = val[p] /\ l1' = [l1 EXCEPT ![only][key[p]] = e]
    BY <1>1, <1>2, <2>2 DEF TypeOK
  <2>3. Value(val[p]).val = val[p] /\ Text(val[p]).val = val[p]
    BY DEF Value, Text
  <2> QED
    BY <1>2, <2>1, <2>2, <2>3 DEF Fill1, SetL1, SetL2, Set1
<1>4. /\ \A k \in Keys \ {key[p]} : l2'[k] = l2[k]
      /\ l2'[key[p]] \in {l2[key[p]], val[p]}
  BY <1>1, <1>2 DEF Fill1, SetL1, SetL2, Set2, TypeOK
<1>5. \A id \in Ids : ~At(id, {"del1"}) /\ ~At(id, {"del1", "del2"})
  BY <1>1, <1>2 DEF At, Undisturbed, InOrder
<1>6. RowsFresh1'
  <2> SUFFICES ASSUME NEW id \in Ids, l1'[only][id] # None
               PROVE  l1'[only][id].val = Query(master, id)
    BY <1>1 DEF RowsFresh1, Query
  <2>1. CASE l1'[only][id] = l1[only][id]
    BY <1>1, <1>5, <2>1 DEF Undisturbed, RowsFresh1
  <2>2. CASE l1'[only][id] # l1[only][id]
    BY <1>2, <1>3, <2>2, RowOfId
  <2> QED
    BY <2>1, <2>2
<1>7. RowsFresh2'
  <2> SUFFICES ASSUME NEW id \in Ids, l2'[id] # None
               PROVE  l2'[id] = Query(master, id)
    BY <1>1 DEF RowsFresh2, Query
  <2>1. CASE l2'[id] = l2[id]
    BY <1>1, <1>5, <2>1 DEF Undisturbed, RowsFresh2
  <2>2. CASE l2'[id] # l2[id]
    BY <1>2, <1>4, <2>2, RowOfId
  <2> QED
    BY <2>1, <2>2
<1>8. InHand'
  <2> SUFFICES ASSUME NEW q \in Procs, pc'[q] \in {"fill1", "set1", "set2"}, key'[q] # List
               PROVE  val'[q] = Query(master, key'[q])
    BY <1>1 DEF InHand, Query
  <2> QED
    BY <1>1, <1>2 DEF Undisturbed, InHand
<1>9. InOrder'
  <2>1. \A n \in Nodes \ {only}, k \in Keys : l1'[n][k] \in {l1[n][k], None}
    BY <1>3
  <2> QED
    BY <1>1, <1>2, <2>1, Orderly, OrderKept
<1> QED
  BY <1>2, <1>6, <1>7, <1>8, <1>9 DEF Undisturbed

\* A call that deletes a key from a level.  A row of which an old entry could be left there
\* is gone from it when its write goes on.
LEMMA DeleteOrder ==
    ASSUME OrderInv, only # None, only' = only, ~Disturbance, NEW p \in Procs,
           DeleteKey1(p) \/ DeleteKey2(p) \/ DeleteList1(p) \/ DeleteList2(p)
    PROVE  Undisturbed'
<1>1. UNCHANGED databases /\ TypeOK /\ Undisturbed /\ Inv /\ master' = master
  BY DEF DeleteKey1, DeleteKey2, DeleteList1, DeleteList2, OrderInv, Inv, databases
<1>2. /\ pc[p] \in {"del1", "del2", "dellist1", "dellist2"}
      /\ pc'[p] = CASE pc[p] = "del1" -> "del2" [] pc[p] = "del2" -> "dellist1"
                    [] pc[p] = "dellist1" -> "dellist2" [] OTHER -> "idle"
      /\ pc'[p] # "idle" => key'[p] = key[p]
      /\ \A q \in Procs \ {p} : pc'[q] = pc[q] /\ key'[q] = key[q] /\ val'[q] = val[q]
      /\ key[p] \in Keys /\ NodeOf[p] = only /\ only \in Nodes
  BY <1>1 DEF DeleteKey1, DeleteKey2, DeleteList1, DeleteList2, Goto, Done, TypeOK, Inv, InFlight,
              Undisturbed, InOrder
<1>3. /\ \A n \in Nodes \ {only}, k \in Keys : l1'[n][k] = l1[n][k]
      /\ \A k \in Keys : l1'[only][k] \in {l1[only][k], None}
      /\ pc[p] = "del1" => l1'[only][key[p]] = None
  <2>1. l1' = l1 \/ \E k \in Keys : l1' = [l1 EXCEPT ![only][k] = None]
    BY <1>2, KeysOf DEF DeleteKey1, DeleteKey2, DeleteList1, DeleteList2, Delete1
  <2>2. pc[p] = "del1" => l1' = [l1 EXCEPT ![only][key[p]] = None]
    BY <1>2 DEF DeleteKey1, DeleteKey2, DeleteList1, DeleteList2, Delete1, Goto, Done
  <2> QED
    BY <1>1, <1>2, <2>1, <2>2 DEF TypeOK
<1>4. /\ \A k \in Keys : l2'[k] \in {l2[k], None}
      /\ pc[p] = "del2" => l2'[key[p]] = None
  <2>1. l2' = l2 \/ \E k \in Keys : l2' = [l2 EXCEPT ![k] = None]
    BY <1>2, KeysOf DEF DeleteKey1, DeleteKey2, DeleteList1, DeleteList2, Delete2
  <2>2. pc[p] = "del2" => l2'[key[p]] = None
    BY <1>2, Orderly
  <2> QED
    BY <1>1, <2>1, <2>2 DEF TypeOK
<1>5. ASSUME NEW id \in Ids
      PROVE  /\ At(id, {"del1"}) /\ ~At(id, {"del1"})' => l1'[only][id] = None
             /\ At(id, {"del1", "del2"}) /\ ~At(id, {"del1", "del2"})' => l2'[id] = None
  BY <1>2, <1>3, <1>4 DEF At
<1>6. RowsFresh1'
  <2> SUFFICES ASSUME NEW id \in Ids, l1'[only][id] # None, ~At(id, {"del1"})'
               PROVE  l1'[only][id].val = Query(master, id)
    BY <1>1 DEF RowsFresh1, Query
  <2>1. l1'[only][id] = l1[only][id]
    BY <1>3, RowOfId
  <2>2. ~At(id, {"del1"})
    BY <1>5
  <2> QED
    BY <1>1, <2>1, <2>2 DEF Undisturbed, RowsFresh1
<1>7. RowsFresh2'
  <2> SUFFICES ASSUME NEW id \in Ids, l2'[id] # None, ~At(id, {"del1", "del2"})'
               PROVE  l2'[id] = Query(master, id)
    BY <1>1 DEF RowsFresh2, Query
  <2>1. l2'[id] = l2[id]
    BY <1>4, RowOfId
  <2>2. ~At(id, {"del1", "del2"})
    BY <1>5
  <2> QED
    BY <1>1, <2>1, <2>2 DEF Undisturbed, RowsFresh2
<1>8. InHand'
  <2> SUFFICES ASSUME NEW q \in Procs, pc'[q] \in {"fill1", "set1", "set2"}, key'[q] # List
               PROVE  val'[q] = Query(master, key'[q])
    BY <1>1 DEF InHand, Query
  <2> QED
    BY <1>1, <1>2 DEF Undisturbed, InHand
<1>9. InOrder'
  <2>1. \A n \in Nodes \ {only}, k \in Keys : l1'[n][k] \in {l1[n][k], None}
    BY <1>3
  <2> QED
    BY <1>1, <1>2, <2>1, Orderly, OrderKept
<1> QED
  BY <1>2, <1>6, <1>7, <1>8, <1>9 DEF Undisturbed

\* A row that is inserted was not found before, so nothing has been cached of it.
LEMMA CreateOrder ==
    ASSUME OrderInv, only # None, only' = only, NEW p \in Procs, NEW r \in Rows, Create(p, r)
    PROVE  Undisturbed'
<1>1. /\ UNCHANGED <<levels, procs>> /\ TypeOK /\ Undisturbed /\ Inv
      /\ master[r] = 0 /\ \A q \in Rows \ {r} : master'[q] = master[q]
  BY DEF Create, OrderInv, Inv, TypeOK
<1>2. ASSUME NEW id \in Ids, NEW s, Committed(id, s)
      PROVE  Query(master', id) = Query(master, id)
  <2>1. Found(s[RowOf(id)]) /\ s[RowOf(id)] <= master[RowOf(id)]
    BY <1>2, RowOfId DEF Committed
  <2>2. RowOf(id) # r
    <3>1. ~(1 <= s[RowOf(id)] /\ s[RowOf(id)] <= 0 /\ s[RowOf(id)] \in Int)
      OBVIOUS
    <3> QED
      BY <1>1, <2>1, <3>1, AdminAssumption DEF Found
  <2> QED
    BY <1>1, <2>2, QuerySame, RowOfId
<1>3. \A id \in Ids : l1[only][id] # None \/ l2[id] # None =>
                          Query(master', id) = Query(master, id)
  BY <1>1, <1>2, RowOfId DEF Inv, Level1, Level2, Undisturbed
<1>4. pc' = pc /\ key' = key /\ val' = val /\ l1' = l1 /\ l2' = l2
  BY <1>1 DEF levels, procs
<1>5. RowsFresh1' /\ RowsFresh2'
  <2>1. \A id \in Ids : /\ At(id, {"del1"}) => At(id, {"del1"})'
                        /\ At(id, {"del1", "del2"}) => At(id, {"del1", "del2"})'
    BY <1>4 DEF At
  <2> QED
    BY <1>1, <1>3, <1>4, <2>1, FreshKept
<1>6. InHand'
  <2> SUFFICES ASSUME NEW q \in Procs, pc[q] \in {"fill1", "set1", "set2"}, key[q] # List
               PROVE  val[q] = Query(master', key[q])
    BY <1>4 DEF InHand, Query
  <2>1. key[q] \in Ids /\ Committed(key[q], val[q])
    BY <1>1, AdminAssumption DEF Inv, InFlight
  <2> QED
    BY <1>1, <1>2, <2>1 DEF Undisturbed, InHand
<1>7. InOrder'
  BY <1>1, <1>4 DEF Undisturbed, InOrder
<1> QED
  BY <1>1, <1>5, <1>6, <1>7 DEF Undisturbed

\* A write changes one row, and goes on to delete it from the caches; no other id is
\* truncated to that row.
LEMMA CommitOrder ==
    ASSUME OrderInv, only # None, only' = only, ~Disturbance, NEW p \in Procs, NEW id \in Ids,
           UpdateByID(p, id) \/ DeleteByID(p, id)
    PROVE  Undisturbed'
<1>1. /\ UNCHANGED <<levels, val>> /\ TypeOK /\ Undisturbed /\ Inv /\ pc[p] = "idle"
      /\ \A r \in Rows \ {RowOf(id)} : master'[r] = master[r]
      /\ master' # master => Found(master[RowOf(id)])
      /\ \/ pc' = [pc EXCEPT ![p] = "del1"] /\ key' = [key EXCEPT ![p] = id]
         \/ pc' = pc /\ key' = key
  BY DEF UpdateByID, DeleteByID, Commit, Goto, OrderInv, Inv, TypeOK
<1>2. /\ \A q \in Procs \ {p} : pc'[q] = pc[q] /\ key'[q] = key[q] /\ val'[q] = val[q]
      /\ l1' = l1 /\ l2' = l2 /\ val' = val
  BY <1>1 DEF TypeOK, levels
<1>3. InOrder'
  BY <1>1, <1>2, Orderly, OrderKept
<1>4. CASE pc' = pc /\ key' = key
  <2>1. \A r \in Rows : master'[r] = master[r]
    BY <1>1, <1>4, Orderly
  <2>2. \A i \in Ids : Query(master', i) = Query(master, i)
    BY <2>1, QuerySame, RowOfId
  <2>3. RowsFresh1' /\ RowsFresh2'
    <3>1. \A i \in Ids : /\ At(i, {"del1"}) => At(i, {"del1"})'
                         /\ At(i, {"del1", "del2"}) => At(i, {"del1", "del2"})'
      BY <1>4 DEF At
    <3> QED
      BY <1>1, <1>2, <2>2, <3>1, FreshKept
  <2>4. InHand'
    <3> SUFFICES ASSUME NEW q \in Procs, pc[q] \in {"fill1", "set1", "set2"}, key[q] # List
                 PROVE  val[q] = Query(master', key[q])
      BY <1>2, <1>4 DEF InHand, Query
    <3>1. key[q] \in Ids
      BY <1>1, AdminAssumption DEF Inv, InFlight
    <3> QED
      BY <1>1, <2>2, <3>1 DEF Undisturbed, InHand
  <2> QED
    BY <1>1, <1>3, <2>3, <2>4 DEF Undisturbed
<1>5. CASE pc' = [pc EXCEPT ![p] = "del1"] /\ key' = [key EXCEPT ![p] = id]
  <2>1. pc'[p] = "del1" /\ key'[p] = id
    BY <1>1, <1>5 DEF TypeOK
  <2>2. \A q \in Procs : pc[q] = "idle"
    BY <1>1, <2>1, Orderly
  <2>3. \A i \in Ids \ {id} : RowOf(i) # RowOf(id)
    BY <1>1, <2>1, Orderly
  <2>4. ASSUME NEW i \in Ids \ {id}
        PROVE  Query(master', i) = Query(master, i) /\ ~At(i, {"del1"}) /\ ~At(i, {"del1", "del2"})
    <3>1. master'[RowOf(i)] = master[RowOf(i)]
      BY <1>1, <2>3, RowOfId
    <3>2. Query(master', i) = Query(master, i)
      BY <3>1, QuerySame
    <3> QED
      BY <2>2, <3>2 DEF At
  <2>5. At(id, {"del1"})' /\ At(id, {"del1", "del2"})'
    BY <2>1 DEF At
  <2>6. RowsFresh1'
    <3> SUFFICES ASSUME NEW i \in Ids \ {id}, l1[only][i] # None
                 PROVE  l1[only][i].val = Query(master', i)
      BY <1>2, <2>5 DEF RowsFresh1, Query
    <3> QED
      BY <1>1, <2>4 DEF Undisturbed, RowsFresh1
  <2>7. RowsFresh2'
    <3> SUFFICES ASSUME NEW i \in Ids \ {id}, l2[i] # None
                 PROVE  l2[i] = Query(master', i)
      BY <1>2, <2>5 DEF RowsFresh2, Query
    <3> QED
      BY <1>1, <2>4 DEF Undisturbed, RowsFresh2
  <2>8. InHand'
    BY <1>2, <2>1, <2>2 DEF InHand
  <2> QED
    BY <1>1, <1>3, <2>6, <2>7, <2>8 DEF Undisturbed
<1> QED
  BY <1>1, <1>4, <1>5

\* Replication, expiry, and a step that changes nothing.
LEMMA EnvironmentOrder ==
    ASSUME OrderInv, only # None, only' = only, Replicate \/ Expiry \/ UNCHANGED vars
    PROVE  Undisturbed'
<1>1. /\ TypeOK /\ Undisturbed /\ master' = master /\ pc' = pc /\ key' = key /\ val' = val
  BY DEF Replicate, Expiry, databases, vars, procs, OrderInv, Inv
<1>2. /\ \A n \in Nodes, k \in Keys : l1'[n][k] \in {l1[n][k], None}
      /\ \A k \in Keys : l2'[k] \in {l2[k], None}
  <2>1. CASE UNCHANGED levels
    BY <2>1 DEF levels
  <2>2. CASE \E n \in Nodes, k \in Keys : Lose1(n, k)
    BY <1>1, <2>2 DEF Lose1, Delete1, TypeOK
  <2>3. CASE \E k \in Keys : Expire2(k)
    BY <1>1, <2>3 DEF Expire2, TypeOK
  <2> QED
    BY <2>1, <2>2, <2>3 DEF Replicate, Expiry, vars
<1>3. InOrder'
  BY <1>1, <1>2 DEF Undisturbed, InOrder
<1>4. InHand'
  BY <1>1 DEF Undisturbed, InHand, Query
<1>5. RowsFresh1' /\ RowsFresh2'
  <2>1. \A id \in Ids : /\ l1'[only][id] \in {l1[only][id], None} /\ l2'[id] \in {l2[id], None}
                        /\ At(id, {"del1"}) => At(id, {"del1"})'
                        /\ At(id, {"del1", "del2"}) => At(id, {"del1", "del2"})'
    BY <1>1, <1>2, RowOfId DEF At, Undisturbed
  <2> QED
    BY <1>1, <2>1, FreshKept
<1> QED
  BY <1>1, <1>3, <1>4, <1>5 DEF Undisturbed

LEMMA OrderStep == OrderInv /\ [HistoryNext]_<<vars, only>> => OrderInv'
<1> SUFFICES ASSUME OrderInv, [HistoryNext]_<<vars, only>> PROVE OrderInv'
  OBVIOUS
<1>1. Inv'
  BY NextInv DEF OrderInv, HistoryNext
<1>2. ASSUME only' # None PROVE Undisturbed'
  <2>1. CASE HistoryNext
    <3>1. only' = only /\ only # None /\ ~Disturbance /\ Next
      BY <1>2, <2>1 DEF HistoryNext
    <3> QED
      BY <3>1, ReadOrder, FillOrder, DeleteOrder, CreateOrder, CommitOrder, EnvironmentOrder
         DEF Next, Begin, Continue
  <2>2. CASE UNCHANGED <<vars, only>>
    BY <1>2, <2>2, EnvironmentOrder
  <2> QED
    BY <2>1, <2>2
<1> QED
  BY <1>1, <1>2 DEF OrderInv

\* A cached row is older than the database only after requests that overlapped or went to
\* several nodes, ids of one row, or a fault.
THEOREM StaleForCause == HistorySpec => []StaleOnlyAfterDisturbance
<1>1. HistoryInit => OrderInv
  <2> SUFFICES ASSUME HistoryInit PROVE Undisturbed
    BY InitInv DEF HistoryInit, OrderInv
  <2> QED
    BY RowOfId DEF HistoryInit, Init, LevelsInit, Undisturbed, InOrder, RowsFresh1, RowsFresh2, InHand
<1>2. OrderInv => StaleOnlyAfterDisturbance
  <2> SUFFICES ASSUME OrderInv, only # None, Quiet, NEW id \in Ids, NEW s \in Cached(id)
               PROVE  s = Query(master, id)
    BY DEF StaleOnlyAfterDisturbance, RowsFreshWhenQuiet, Fresh
  <2>1. ~At(id, {"del1"}) /\ ~At(id, {"del1", "del2"})
    BY DEF Quiet, At
  <2>2. CASE s = l2[id] /\ l2[id] # None
    BY <2>1, <2>2 DEF OrderInv, Undisturbed, RowsFresh2
  <2>3. CASE \E n \in Nodes : l1[n][id] # None /\ s = l1[n][id].val
    BY <2>1, <2>3, RowOfId DEF OrderInv, Undisturbed, InOrder, RowsFresh1
  <2> QED
    BY <2>2, <2>3 DEF Cached
<1> QED
  BY <1>1, <1>2, OrderStep, PTL DEF HistorySpec
===============================================================================
